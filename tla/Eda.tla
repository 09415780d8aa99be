--------------------------------- MODULE Eda ---------------------------------
(***************************************************************************)
(* The life of a ComputeInstance under the EDA provider of                 *)
(* internal/provisioning/eda_provider.go: the controller of module         *)
(* ComputeInstance, with webhooks instead of jobs that can be asked about, *)
(* sent through the rate limit of module WebhookClient.                    *)
(*                                                                         *)
(* A webhook makes Event-Driven Ansible run a playbook.  The operator sees *)
(* of it what it does to the resource: a provision playbook puts its own   *)
(* finalizer there before it creates anything and notes the applied spec,  *)
(* a deprovision playbook takes its finalizer away at the end.  The list   *)
(* aap holds the playbooks at work, their status says how far they have    *)
(* got; an ended one is dropped, as nobody can ask for its outcome.  A     *)
(* resource that is gone may be created again under its name: the rate     *)
(* limit and the playbooks do not know the difference, nor does the write  *)
(* of a status that belongs to its predecessor, which the feedback         *)
(* controller may have let go after the controller.                        *)
(*                                                                         *)
(* Covered: EDAProvider, handleProvisioning and handleDeprovisioning with  *)
(* it, the feedback finalizer.  Left out: the URLs that are not set.       *)
(***************************************************************************)
EXTENDS ComputeInstance, WebhookClient, FiniteSetsExt, SequencesExt

CONSTANT MaxLives   \* bound: how often the resource is created

VARIABLES
  lives,   \* how often the resource was created so far
  asked,   \* history: a provision webhook was accepted for this resource
  heir     \* history: this resource got the status of its predecessor

edaVars == <<vars, clientVars, lives, asked, heir>>

(* What the actions of module ComputeInstance do not know of. *)
others == <<clientVars, lives, asked, heir>>

EdaInit == Init /\ ClientInit /\ lives = 1 /\ asked = FALSE /\ heir = FALSE

-----------------------------------------------------------------------------
(* The provider *)

(* Mutant: the number after that of the first job in the list. *)
generateEDAJobIDAfterFirst(jobs) == IF jobs = <<>> THEN 1 ELSE jobs[1].id + 1

(* One more than the largest number of a listed job; failed attempts have
   no number. *)
generateEDAJobID(jobs) == Max({0} \cup {jobs[i].id : i \in DOMAIN jobs}) + 1

(* The job of an accepted webhook, which never blocks the deletion. *)
RecordEDAJob(type, state) ==
  LET jobs == inst.status.jobs
  IN  \E now \in Now(jobs) :
        inst' = [inst EXCEPT !.status.jobs =
                   appendJob(jobs, [id |-> generateEDAJobID(jobs), type |-> type,
                                    state |-> state, block |-> FALSE, ts |-> now])]

(* TriggerProvision: the webhook is accepted and a playbook is run. *)
SendCreate ==
  /\ ProvisionTriggerable
  /\ Sent("create") /\ Launch("provision")
  /\ RecordEDAJob("provision", "Running")
  /\ asked' = TRUE
  /\ RequeueAndSave
  /\ UNCHANGED <<apiVars, old, fresh, reply, infra, tenant, errs, lives, heir>>

(* Mutant: the retry after the rate limit is forgotten. *)
CreateLimitedForgotten ==
  /\ ProvisionTriggerable
  /\ Limited("create")
  /\ SaveWithoutRequeue
  /\ UNCHANGED <<apiVars, inst, old, fresh, reply, aapVars, tenant, errs, lives, asked,
                 heir>>

(* RateLimitError: nothing is recorded, the key comes back later. *)
CreateLimited ==
  /\ ProvisionTriggerable
  /\ Limited("create")
  /\ RequeueAndSave
  /\ UNCHANGED <<apiVars, inst, old, fresh, reply, aapVars, tenant, errs, lives, asked,
                 heir>>

(* The request fails.  (A lost reply has the effect of a restart after SendCreate,
   which the model has.) *)
CreateFails ==
  /\ ProvisionTriggerable
  /\ Failed("create") /\ TransientError
  /\ RecordNewJob(inst.status.jobs, NoJobID, "provision", "Failed")
  /\ RequeueAndSave
  /\ UNCHANGED <<apiVars, old, fresh, reply, aapVars, tenant, lives, asked, heir>>

(* GetProvisionStatus knows nothing: Unknown is not terminal, look again. *)
PollCreate ==
  LET jobs == inst.status.jobs
      p    == FindLatestJobByType(jobs, "provision")
  IN  /\ pc = "provision" /\ inst.mgmt # "manual"
      /\ ~NeedsTrigger(jobs, "provision")
      /\ inst' = [inst EXCEPT !.status.jobs = WithState(jobs, p, "Unknown")]
      /\ RequeueAndSave
      /\ UNCHANGED <<apiVars, old, fresh, reply, aapVars, tenant, errs, others>>

(* Mutant: the finalizer is taken for set until the webhook was sent. *)
HasAAPFinalizerUnlessTriggered(o) ==
  "aap" \in o.fins /\ NeedsTrigger(o.status.jobs, "deprovision")

(* The playbook that provisions holds the resource. *)
HasAAPFinalizer(o) == "aap" \in o.fins

(* DeprovisionSkipped: no playbook has got to its finalizer. *)
SkipDelete ==
  /\ DeprovisionTriggerable
  /\ ~HasAAPFinalizer(inst)
  /\ pc' = "release"
  /\ UNCHANGED <<apiVars, queued, inst, old, fresh, reply, aapVars, tenant, errs, others>>

(* TriggerDeprovision: the webhook is accepted and recorded as Pending. *)
SendDelete ==
  /\ DeprovisionTriggerable
  /\ HasAAPFinalizer(inst)
  /\ Sent("delete") /\ Launch("deprovision")
  /\ RecordEDAJob("deprovision", "Pending")
  /\ RequeueAndSave
  /\ UNCHANGED <<apiVars, old, fresh, reply, infra, tenant, errs, lives, asked,
                 heir>>

(* Mutant: the retry of the delete webhook is forgotten. *)
DeleteLimitedForgotten ==
  /\ DeprovisionTriggerable
  /\ HasAAPFinalizer(inst)
  /\ Limited("delete")
  /\ SaveWithoutRequeue
  /\ UNCHANGED <<apiVars, inst, old, fresh, reply, aapVars, tenant, errs, lives, asked,
                 heir>>

(* RateLimitError: the resource is kept, the key comes back later. *)
DeleteLimited ==
  /\ DeprovisionTriggerable
  /\ HasAAPFinalizer(inst)
  /\ Limited("delete")
  /\ RequeueAndSave
  /\ UNCHANGED <<apiVars, inst, old, fresh, reply, aapVars, tenant, errs, lives, asked,
                 heir>>

(* The request fails: nothing is recorded of a deprovision job. *)
DeleteFails ==
  /\ DeprovisionTriggerable
  /\ HasAAPFinalizer(inst)
  /\ Failed("delete") /\ TransientError
  /\ RequeueAndSave
  /\ UNCHANGED <<apiVars, inst, old, fresh, reply, aapVars, tenant, lives, asked, heir>>

(* GetDeprovisionStatus: the finalizer of the playbook tells. *)
PollDelete ==
  LET jobs == inst.status.jobs
      d    == FindLatestJobByType(jobs, "deprovision")
      done == ~HasAAPFinalizer(inst)
  IN  /\ pc = "deprovision" /\ inst.mgmt # "manual"
      /\ ~NeedsTrigger(jobs, "deprovision")
      /\ inst' = [inst EXCEPT !.status.jobs =
                    WithState(jobs, d, IF done THEN "Succeeded" ELSE "Running")]
      /\ pc' = IF done THEN "release" ELSE "save"
      /\ queued' = (queued \/ ~done)
      /\ UNCHANGED <<apiVars, old, fresh, reply, aapVars, tenant, errs, others>>

-----------------------------------------------------------------------------
(* Event-Driven Ansible and its playbooks *)

(* A playbook that has ended is forgotten. *)
Drop(j) == aap' = RemoveAt(aap, j) /\ UNCHANGED infra

(* The provision playbook puts its finalizer on the resource; the API server
   accepts no new finalizer once the resource is being deleted. *)
PlaybookHolds(j) ==
  /\ aap[j].type = "provision" /\ aap[j].status = "pending"
  /\ cr.exists /\ ~cr.deleting
  /\ aap' = [aap EXCEPT ![j].status = "waiting"]
  /\ \/ "aap" \notin cr.fins /\ ForeignWrite([cr EXCEPT !.fins = @ \cup {"aap"}])
     \/ "aap" \in cr.fins /\ UNCHANGED <<apiVars, fresh>>
  /\ UNCHANGED <<queued, pc, inst, old, reply, infra, tenant, errs>>

(* It creates the virtual machine, unless there is one, and goes on. *)
PlaybookProvisions(j) ==
  /\ aap[j].type = "provision" /\ aap[j].status = "waiting"
  /\ aap' = [aap EXCEPT ![j].status = "running"]
  /\ infra' = TRUE
  /\ UNCHANGED <<apiVars, ctrlVars, tenant, errs>>

(* It ends when it has been refused its finalizer, or when it is done. *)
ProvisionEnds(j) ==
  /\ aap[j].type = "provision"
  /\ \/ aap[j].status = "pending" /\ (~cr.exists \/ cr.deleting)
     \/ aap[j].status = "running" /\ (infra /\ cr.exists => InSync(cr))
     \/ "failed" \in ProvisionOutcomes
  /\ Drop(j)
  /\ UNCHANGED <<apiVars, ctrlVars, tenant, errs>>

PlaybookRemoves(j) ==
  /\ aap[j].type = "deprovision" /\ infra
  /\ infra' = FALSE
  /\ UNCHANGED <<apiVars, ctrlVars, aap, tenant, errs>>

(* The deprovision playbook lets go of the resource and ends. *)
DeprovisionEnds(j) ==
  /\ aap[j].type = "deprovision" /\ ~infra
  /\ Drop(j)
  /\ \/ HasAAPFinalizer(cr) /\ ForeignWrite(Settle([cr EXCEPT !.fins = @ \ {"aap"}]))
     \/ ~HasAAPFinalizer(cr) /\ UNCHANGED <<apiVars, fresh>>
  /\ UNCHANGED <<queued, pc, inst, old, reply, tenant, errs>>

(* updateStatusWithRetry reads the resource by its name: the status of one
   that has gone since is stored for the next. *)
StoreStatus ==
  /\ SaveStatus
  /\ heir' = (heir \/ (inst.deleting /\ ~cr.deleting))
  /\ UNCHANGED <<clientVars, lives, asked>>

(* The resource is created again under the same name. *)
UserCreates ==
  /\ ~cr.exists /\ lives < MaxLives
  /\ ForeignWrite(NewObject)
  /\ lives' = lives + 1 /\ asked' = FALSE /\ heir' = FALSE
  /\ UNCHANGED <<queued, pc, inst, old, reply, aapVars, tenant, errs, clientVars>>

(* The operator restarts, and forgets what it has sent. *)
Restart ==
  /\ "crash" \in Faults /\ pc # "idle" /\ TransientError
  /\ EndReconcile
  /\ cache' = cr /\ lag' = "none" /\ queued' = TRUE
  /\ ForgetRequests
  /\ UNCHANGED <<cr, aapVars, tenant, lives, asked, heir>>

(* One webhook at most belongs to a reconcile, so that time that passes during
   one may as well pass before or after it. *)
TimePasses == pc = "idle" /\ Tick /\ UNCHANGED <<vars, lives, asked, heir>>

-----------------------------------------------------------------------------
EdaProviderStep ==
  \/ SendCreate \/ CreateLimited \/ CreateFails \/ PollCreate
  \/ SkipDelete \/ SendDelete \/ DeleteLimited \/ DeleteFails \/ PollDelete

(* The steps of the controller that no provider takes part in. *)
CommonStep ==
  \/ Reconcile \/ AddFinalizer \/ FinalizerUpdateFails
  \/ CreateTenant \/ HandleUpdate \/ HandleUpdateFails
  \/ RemoveFinalizer \/ NothingToSave \/ SaveStatusFails

EdaControllerStep ==
  EdaProviderStep \/ StoreStatus \/ (CommonStep /\ UNCHANGED others)

(* The finalizer of the feedback controller is of interest as far as it keeps
   a resource from its successor: the last one, by MaxLives, goes without. *)
FeedbackStep ==
  \/ lives < MaxLives /\ FeedbackAddsFinalizer
  \/ FeedbackRemovesFinalizer

PlaybookStep(j) ==
  \/ PlaybookHolds(j) \/ PlaybookProvisions(j) \/ PlaybookAnnotates(j)
  \/ ProvisionEnds(j) \/ PlaybookRemoves(j) \/ DeprovisionEnds(j)

EdaNext ==
  \/ EdaControllerStep
  \/ (CacheSync \/ UserDeletes \/ TenantChanges) /\ UNCHANGED others
  \/ FeedbackStep /\ UNCHANGED others
  \/ UserCreates
  \/ Restart
  \/ TimePasses
  \/ \E j \in DOMAIN aap : PlaybookStep(j) /\ UNCHANGED others

EdaSpec == EdaInit /\ [][EdaNext]_edaVars

-----------------------------------------------------------------------------
(* Properties *)

(***************************************************************************)
(* handleDelete gives the resource up only when no playbook holds it any   *)
(* more: whether the webhook was sent, limited, lost or skipped, and       *)
(* whatever the playbooks did between the read of the finalizers and the   *)
(* write.                                                                  *)
(***************************************************************************)
ReleasedByPlaybook ==
  [][ "base" \in cr.fins /\ "base" \notin cr'.fins => "aap" \notin cr.fins ]_edaVars

DistinctIDs(jobs) ==
  \A i, k \in DOMAIN jobs :
    jobs[i].id # NoJobID /\ jobs[i].id = jobs[k].id => i = k

(***************************************************************************)
(* Two jobs in the list never share a number, although trimming forgets    *)
(* the largest one and failed attempts have none: updateJob finds the job  *)
(* that is meant.                                                          *)
(***************************************************************************)
JobIDsDistinct == \A o \in {cr, cache, inst} : DistinctIDs(o.status.jobs)

(***************************************************************************)
(* The work queue, the informer, the tenant and the feedback controller,   *)
(* Ansible and time (between any two reconciles, however many there are)   *)
(* go on, the playbooks in no fair order: there are finitely many steps of *)
(* theirs.  Nothing is assumed of the user.                                *)
(***************************************************************************)
EdaFairness ==
  /\ WF_edaVars(EdaControllerStep)
  /\ WF_edaVars(CacheSync /\ UNCHANGED others)
  /\ WF_edaVars(TenantChanges /\ UNCHANGED others)
  /\ WF_edaVars(FeedbackRemovesFinalizer /\ UNCHANGED others)
  /\ SF_edaVars(TimePasses)
  /\ WF_edaVars(\E j \in DOMAIN aap : PlaybookStep(j) /\ UNCHANGED others)

FairEdaSpec == EdaSpec /\ EdaFairness

(***************************************************************************)
(* A deleted resource that the controller holds eventually goes: the rate  *)
(* limit delays the webhook and never swallows it, a restart does not lose *)
(* it, and the end of the playbook is noticed.                             *)
(***************************************************************************)
HeldDeletionCompletes == cr.deleting /\ "base" \in cr.fins ~> ~cr.exists

(***************************************************************************)
(* Every resource that stays gets its provision webhook, also when one of  *)
(* the same name had one within the minimum interval; unless a playbook    *)
(* that was run for its predecessor reports the spec as applied, or the    *)
(* list of jobs of its predecessor was stored for it.                      *)
(***************************************************************************)
WebhookRequested ==
  cr.exists ~> asked \/ InSync(cr) \/ heir \/ cr.deleting \/ ~cr.exists

-----------------------------------------------------------------------------
(* Why they hold: the inductive invariant of the proofs *)

EdaTypeOK ==
  /\ TypeOK
  /\ ClientTypeOK
  /\ lives \in Nat /\ asked \in BOOLEAN /\ heir \in BOOLEAN

(* What the controller knows of the finalizers is true as long as its copy is
   the current one, and it releases on the strength of that. *)
FinalizersKnown ==
  /\ lag = "none" => cache = cr
  /\ fresh => inst.fins = cr.fins /\ (pc # "save" => cr.exists)
  /\ pc = "release" => "aap" \notin inst.fins
  /\ ~cr.exists => cr.fins = {}

EdaInv == EdaTypeOK /\ ClientInv /\ JobIDsDistinct /\ FinalizersKnown

=============================================================================
