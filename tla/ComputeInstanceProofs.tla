------------------------ MODULE ComputeInstanceProofs ------------------------
(***************************************************************************)
(* Proofs about ComputeInstance, for every history size and every bound:   *)
(* the inductive invariant IInv and what follows from it; HInv of          *)
(* ComputeInstanceHistory, by which the controller runs one job at a time, *)
(* leaves nothing behind and implements Provisioning but for the steps     *)
(* that module records; and RestInv, by which it waits only when it has    *)
(* nothing left to do. No theorem here assumes anything of Faults.         *)
(***************************************************************************)
EXTENDS ComputeInstanceHistory, JobHistoryProofs

-----------------------------------------------------------------------------
(* Job lists *)

(* A job list that may be stored: typed, bounded and true. *)
GoodJobs(jobs, jobsInAAP) ==
  /\ jobs \in Seq(JobStatus)
  /\ Len(jobs) <= MaxJobHistory
  /\ AllTrue(jobs, jobsInAAP)

(* Appending a true record to a true list leaves a list that may be stored. *)
LEMMA AppendGood ==
  ASSUME NEW A, NEW jobs \in Seq(JobStatus), AllTrue(jobs, A),
         NEW job \in JobStatus, RecordIsTrue(job, A)
  PROVE  GoodJobs(appendJob(jobs, job), A)
<1> DEFINE new == appendJob(jobs, job)
<1>1. /\ new \in Seq(JobStatus) /\ Len(new) <= MaxJobHistory
      /\ \A i \in DOMAIN new : \/ new[i] = job
                               \/ \E k \in DOMAIN jobs : new[i] = jobs[k]
  BY AppendJobResult
<1> HIDE DEF new
<1>2. AllTrue(new, A)
  BY <1>1 DEF AllTrue
<1>3. QED BY <1>1, <1>2 DEF GoodJobs, new

(* Replacing a record by a true one leaves a list that may be stored. *)
LEMMA UpdateGood ==
  ASSUME NEW A, NEW jobs, GoodJobs(jobs, A),
         NEW job \in JobStatus, RecordIsTrue(job, A)
  PROVE  GoodJobs(updateJob(jobs, job), A)
<1> DEFINE new == updateJob(jobs, job)
<1>1. jobs \in Seq(JobStatus)
  BY DEF GoodJobs
<1>2. /\ new \in Seq(JobStatus) /\ Len(new) = Len(jobs)
      /\ \A i \in DOMAIN new : \/ new[i] = job
                               \/ i \in DOMAIN jobs /\ new[i] = jobs[i]
  BY <1>1, UpdateJobResult
<1> HIDE DEF new
<1>3. AllTrue(new, A)
  BY <1>2 DEF AllTrue, GoodJobs
<1>4. QED BY <1>2, <1>3 DEF GoodJobs, new

(* Recording the state AAP reports for a job keeps the list true. *)
LEMMA WithStateGood ==
  ASSUME NEW A, NEW jobs, GoodJobs(jobs, A),
         NEW i \in DOMAIN jobs, NEW state \in JobStates,
         IsTerminal(state) =>
           mapAAPStatusToJobState(A[jobs[i].id].status) = state
  PROVE  GoodJobs(WithState(jobs, i, state), A)
<1> DEFINE job == [jobs[i] EXCEPT !.state = state]
<1>1. jobs[i] \in JobStatus /\ RecordIsTrue(jobs[i], A)
  BY LenProperties, ElementOfSeq DEF GoodJobs, AllTrue
<1>2. /\ job \in JobStatus /\ job.state = state
      /\ job.id = jobs[i].id /\ job.type = jobs[i].type
      /\ job.block = jobs[i].block
  BY <1>1 DEF JobStatus
<1> HIDE DEF job
<1>3. RecordIsTrue(job, A)
  BY <1>1, <1>2 DEF RecordIsTrue
<1>4. QED BY <1>2, <1>3, UpdateGood DEF WithState, job

(* A job that is recorded now gets a natural number as timestamp. *)
LEMMA NowIsNatural ==
  ASSUME NEW jobs \in Seq(JobStatus)
  PROVE  Now(jobs) \subseteq Nat
<1>1. CASE jobs = << >>
  BY <1>1 DEF Now
<1>2. CASE jobs # << >>
  <2>1. Len(jobs) \in 1..Len(jobs)
    BY <1>2, EmptySeq
  <2>2. jobs[Len(jobs)] \in JobStatus
    BY <2>1, ElementOfSeq
  <2>3. jobs[Len(jobs)].ts \in Nat
    BY <2>2 DEF JobStatus
  <2>4. QED BY <1>2, <2>3 DEF Now
<1>3. QED BY <1>1, <1>2

(* The record of a job that was launched, or could not be, is a true one. *)
LEMMA NewRecordGood ==
  ASSUME NEW A, NEW jobs \in Seq(JobStatus), AllTrue(jobs, A),
         NEW id \in Nat, NEW type \in JobTypes, NEW state \in JobStates,
         id # NoJobID => /\ id \in DOMAIN A /\ A[id].type = type
                         /\ ~IsTerminal(state),
         NEW now \in Now(jobs)
  PROVE  GoodJobs(appendJob(jobs, [id |-> id, type |-> type, state |-> state,
                                   block |-> type = "deprovision", ts |-> now]), A)
<1> DEFINE job == [id |-> id, type |-> type, state |-> state,
                   block |-> type = "deprovision", ts |-> now]
<1>1. now \in Nat
  BY NowIsNatural
<1>2. (type = "deprovision") \in BOOLEAN
  OBVIOUS
<1>3. job \in JobStatus
  BY <1>1, <1>2 DEF JobStatus
<1>4. RecordIsTrue(job, A)
  BY DEF RecordIsTrue
<1> HIDE DEF job
<1>5. GoodJobs(appendJob(jobs, job), A)
  BY <1>3, <1>4, AppendGood
<1>6. QED BY <1>5 DEF job

-----------------------------------------------------------------------------
(* AAP *)

(* What every step leaves of AAP's jobs: their types and their ends. *)
AAPExtends(A, B) ==
  \A j \in DOMAIN A : /\ j \in DOMAIN B
                      /\ B[j].type = A[j].type
                      /\ A[j].status \in AAPFinal => B[j].status = A[j].status

(* The states of the status that are ends are those of AAP that are. *)
LEMMA MappedState ==
  ASSUME NEW status \in AAPActive \cup AAPFinal
  PROVE  /\ mapAAPStatusToJobState(status) \in JobStates
         /\ IsTerminal(mapAAPStatusToJobState(status)) <=> status \in AAPFinal
         /\ mapAAPStatusToJobState(status) = "Succeeded" <=> status = "successful"
         /\ mapAAPStatusToJobState(status) = "Canceled" <=> status = "canceled"
         /\ mapAAPStatusToJobState(status) = "Failed"
              <=> status \in {"failed", "error"}
BY DEF mapAAPStatusToJobState, JobStates, IsTerminal, AAPActive, AAPFinal

(* True records stay true when AAP's jobs go on. *)
LEMMA AllTruePersists ==
  ASSUME NEW A \in Seq(AAPJob), NEW B, AAPExtends(A, B),
         NEW jobs, AllTrue(jobs, A)
  PROVE  AllTrue(jobs, B)
<1>1. SUFFICES ASSUME NEW i \in DOMAIN jobs PROVE RecordIsTrue(jobs[i], B)
  BY DEF AllTrue
<1>2. RecordIsTrue(jobs[i], A)
  BY DEF AllTrue
<1>3. CASE jobs[i].id = NoJobID
  BY <1>2, <1>3 DEF RecordIsTrue
<1>4. CASE jobs[i].id # NoJobID
  <2> DEFINE j == jobs[i].id
  <2>1. /\ j \in DOMAIN A /\ A[j].type = jobs[i].type
        /\ IsTerminal(jobs[i].state) =>
             mapAAPStatusToJobState(A[j].status) = jobs[i].state
    BY <1>2, <1>4 DEF RecordIsTrue
  <2>2. A[j] \in AAPJob
    BY <2>1, LenProperties, ElementOfSeq
  <2>3. A[j].status \in AAPActive \cup AAPFinal
    BY <2>2 DEF AAPJob
  <2>4. IsTerminal(jobs[i].state) => A[j].status \in AAPFinal
    BY <2>1, <2>3, MappedState
  <2>5. /\ j \in DOMAIN B /\ B[j].type = A[j].type
        /\ A[j].status \in AAPFinal => B[j].status = A[j].status
    BY <2>1 DEF AAPExtends
  <2>6. QED BY <1>2, <2>1, <2>4, <2>5 DEF RecordIsTrue
<1>5. QED BY <1>3, <1>4

-----------------------------------------------------------------------------
(* Objects *)

(* A version of the resource that may be stored, cached or worked on. *)
Sane(o, A) == o \in Object /\ GoodJobs(o.status.jobs, A)

(* The typing of what is no object. *)
Scalars ==
  /\ old \in Status
  /\ lag \in {"none", "foreign", "own"}
  /\ queued \in BOOLEAN /\ fresh \in BOOLEAN /\ infra \in BOOLEAN
  /\ pc \in Steps
  /\ reply \in JobStates
  /\ aap \in Seq(AAPJob)
  /\ tenant \in {"absent", "pending", "ready"}
  /\ errs \in Nat

(* The invariant in the parts its proof is laid out in. *)
Parts ==
  /\ Sane(cr, aap) /\ Sane(cache, aap) /\ Sane(inst, aap)
  /\ Scalars
  /\ ReleaseJustified
  /\ CancelHasTarget

LEMMA IInvParts == IInv <=> Parts
BY DEF IInv, Parts, Sane, GoodJobs, Scalars, TypeOK, Object, Status

(* The empty history is a good one: new and vanished resources are sane. *)
LEMMA FreshObjects ==
  ASSUME NEW A
  PROVE  Sane(NewObject, A) /\ Sane(Gone, A) /\ NoStatus \in Status
<1>1. << >> \in Seq(JobStatus) /\ Len(<< >>) = 0 /\ DOMAIN << >> = {}
  BY EmptySeq
<1>2. GoodJobs(<< >>, A)
  BY <1>1, MaxJobHistoryAssumption DEF GoodJobs, AllTrue
<1>3. NoStatus \in Status /\ NoStatus.jobs = << >>
  BY <1>1 DEF NoStatus, Status, Phases
<1>4. /\ NewObject \in Object /\ NewObject.status = NoStatus
      /\ Gone \in Object /\ Gone.status = NoStatus
  BY <1>3 DEF NewObject, Gone, Object
<1>5. QED BY <1>2, <1>3, <1>4 DEF Sane

(* Writing another good history, a phase or a whole status keeps an object sane. *)
LEMMA SaneWrites ==
  ASSUME NEW A, NEW o, Sane(o, A)
  PROVE  /\ \A jobs : GoodJobs(jobs, A)
              => /\ Sane([o EXCEPT !.status.jobs = jobs], A)
                 /\ [o EXCEPT !.status.jobs = jobs].mgmt = o.mgmt
         /\ \A phase \in Phases : Sane([o EXCEPT !.status.phase = phase], A)
         /\ \A jobs, phase \in Phases : GoodJobs(jobs, A)
              => Sane([o EXCEPT !.status.jobs = jobs, !.status.phase = phase], A)
         /\ \A x : Sane(x, A) => Sane([o EXCEPT !.status = x.status], A)
         /\ Sane([o EXCEPT !.status.tenantRef = TRUE], A)
         /\ \A f \in SUBSET {"base", "feedback", "aap"} : Sane([o EXCEPT !.fins = f], A)
         /\ \A n \in Nat : Sane([o EXCEPT !.spec = n], A)
         /\ \A n \in Nat : Sane([o EXCEPT !.annot = n], A)
         /\ \A m \in {"managed", "manual", "unmanaged"} : Sane([o EXCEPT !.mgmt = m], A)
         /\ Sane([o EXCEPT !.deleting = TRUE], A)
         /\ Sane(Settle(o), A)
<1>1. o \in Object /\ o.status \in Status /\ GoodJobs(o.status.jobs, A)
  BY DEF Sane, Object
<1>2. \A jobs : GoodJobs(jobs, A) => jobs \in Seq(JobStatus)
  BY DEF GoodJobs
<1>3. Sane(Settle(o), A)
  BY FreshObjects DEF Settle
<1>4. \A jobs : GoodJobs(jobs, A)
              => /\ Sane([o EXCEPT !.status.jobs = jobs], A)
                 /\ [o EXCEPT !.status.jobs = jobs].mgmt = o.mgmt
  BY <1>1, <1>2 DEF Sane, Object, Status
<1>5. \A phase \in Phases : Sane([o EXCEPT !.status.phase = phase], A)
  BY <1>1 DEF Sane, Object, Status
<1>6. \A jobs, phase \in Phases : GoodJobs(jobs, A)
              => Sane([o EXCEPT !.status.jobs = jobs, !.status.phase = phase], A)
  BY <1>1, <1>2 DEF Sane, Object, Status
<1>7. \A x : Sane(x, A) => Sane([o EXCEPT !.status = x.status], A)
  BY <1>1 DEF Sane, Object
<1>8. Sane([o EXCEPT !.status.tenantRef = TRUE], A)
  BY <1>1 DEF Sane, Object, Status
<1>9. /\ \A f \in SUBSET {"base", "feedback", "aap"} : Sane([o EXCEPT !.fins = f], A)
      /\ \A n \in Nat : Sane([o EXCEPT !.spec = n], A)
      /\ \A n \in Nat : Sane([o EXCEPT !.annot = n], A)
      /\ \A m \in {"managed", "manual", "unmanaged"} : Sane([o EXCEPT !.mgmt = m], A)
      /\ Sane([o EXCEPT !.deleting = TRUE], A)
  BY <1>1 DEF Sane, Object
<1>10. QED BY <1>3, <1>4, <1>5, <1>6, <1>7, <1>8, <1>9

-----------------------------------------------------------------------------
(* The one of them that the handlers of jobs need. *)
LEMMA SaneHistory ==
  ASSUME NEW A, NEW o, Sane(o, A), NEW jobs, GoodJobs(jobs, A)
  PROVE  Sane([o EXCEPT !.status.jobs = jobs], A)
BY SaneWrites

(* The jobs of AAP only go on *)

(* AAP accepts a job: one more, in the state of a job that has not ended. *)
LEMMA LaunchExtends ==
  ASSUME NEW type \in JobTypes, aap \in Seq(AAPJob), inst \in Object, Launch(type)
  PROVE  /\ aap' \in Seq(AAPJob) /\ AAPExtends(aap, aap')
         /\ Len(aap) + 1 \in DOMAIN aap' /\ aap'[Len(aap) + 1].type = type
<1> DEFINE job == [type |-> type, status |-> "pending", cancel |-> FALSE,
                   purged |-> FALSE, spec |-> inst.spec]
<1>1. job \in AAPJob /\ job.type = type
  BY DEF AAPJob, AAPActive, Object
<1>2. aap' = Append(aap, job)
  BY DEF Launch
<1> HIDE DEF job
<1>3. /\ aap' \in Seq(AAPJob) /\ Len(aap') = Len(aap) + 1
      /\ \A i \in 1..Len(aap) : aap'[i] = aap[i]
      /\ aap'[Len(aap) + 1] = job
  BY <1>1, <1>2, AppendProperties
<1>4. DOMAIN aap = 1..Len(aap) /\ Len(aap) \in Nat /\ DOMAIN aap' = 1..Len(aap')
  BY <1>3, LenProperties
<1>5. QED BY <1>1, <1>3, <1>4 DEF AAPExtends

(* A change of one job keeps its type, and its status once it has ended. *)
LEMMA ChangeExtends ==
  ASSUME aap \in Seq(AAPJob), NEW j \in DOMAIN aap, NEW job \in AAPJob,
         job.type = aap[j].type,
         aap[j].status \in AAPFinal => job.status = aap[j].status,
         aap' = [aap EXCEPT ![j] = job]
  PROVE  aap' \in Seq(AAPJob) /\ AAPExtends(aap, aap')
<1>1. DOMAIN aap = 1..Len(aap)
  BY LenProperties
<1>2. /\ aap' \in Seq(AAPJob) /\ Len(aap') = Len(aap)
      /\ \A i \in 1..Len(aap) : aap'[i] = IF i = j THEN job ELSE aap[i]
  BY <1>1, ExceptSeq
<1>3. DOMAIN aap' = 1..Len(aap)
  BY <1>2, LenProperties
<1>4. QED BY <1>1, <1>2, <1>3 DEF AAPExtends

(* No step takes a job from AAP, changes its type or undoes its end. *)
LEMMA AAPGoesOn ==
  ASSUME IInv, [Next]_vars
  PROVE  aap' \in Seq(AAPJob) /\ AAPExtends(aap, aap')
<1>1. /\ aap \in Seq(AAPJob) /\ inst \in Object
      /\ \A j \in DOMAIN aap : aap[j] \in AAPJob
  BY LenProperties, ElementOfSeq DEF IInv, TypeOK
<1>2. CASE aap' = aap
  BY <1>1, <1>2 DEF AAPExtends
<1>3. CASE \E type \in JobTypes : Launch(type)
  BY <1>1, <1>3, LaunchExtends
<1>4. CASE CancelProvisionJob
  <2> DEFINE j == inst.status.jobs[FindLatestJobByType(inst.status.jobs, "provision")].id
  <2>1. /\ j \in DOMAIN aap
        /\ \/ aap' = aap
           \/ aap' = [aap EXCEPT ![j].cancel = TRUE]
    BY <1>4 DEF CancelProvisionJob, Found
  <2> HIDE DEF j
  <2>2. CASE aap' = [aap EXCEPT ![j].cancel = TRUE]
    <3> DEFINE job == [aap[j] EXCEPT !.cancel = TRUE]
    <3>1. aap[j] \in AAPJob
      BY <1>1, <2>1
    <3>2. job \in AAPJob /\ job.type = aap[j].type /\ job.status = aap[j].status
      BY <3>1 DEF AAPJob
    <3>3. aap' = [aap EXCEPT ![j] = job]
      BY <2>2
    <3> HIDE DEF job
    <3>4. QED BY <1>1, <2>1, <3>2, <3>3, ChangeExtends
  <2>3. QED BY <1>2, <2>1, <2>2
<1>5. ASSUME NEW j \in DOMAIN aap, NEW s \in AAPActive \cup AAPFinal,
             aap[j].status \in AAPActive, aap' = [aap EXCEPT ![j].status = s]
      PROVE  aap' \in Seq(AAPJob) /\ AAPExtends(aap, aap')
  <2> DEFINE job == [aap[j] EXCEPT !.status = s]
  <2>1. aap[j] \in AAPJob
    BY <1>1
  <2>2. job \in AAPJob /\ job.type = aap[j].type
    BY <2>1 DEF AAPJob
  <2>3. aap[j].status \notin AAPFinal
    BY <1>5 DEF AAPActive, AAPFinal
  <2>4. aap' = [aap EXCEPT ![j] = job]
    BY <1>5
  <2> HIDE DEF job
  <2>5. QED BY <1>1, <2>2, <2>3, <2>4, ChangeExtends
<1>6. ASSUME NEW j \in DOMAIN aap, JobStarts(j)
      PROVE  aap' \in Seq(AAPJob) /\ AAPExtends(aap, aap')
  BY <1>5, <1>6 DEF JobStarts, AAPActive
<1>7. ASSUME NEW j \in DOMAIN aap, JobEnds(j)
      PROVE  aap' \in Seq(AAPJob) /\ AAPExtends(aap, aap')
  <2>1. aap[j].status \in AAPActive
    BY <1>7 DEF JobEnds, Active, AAPActive
  <2>2. \E s \in AAPFinal : aap' = [aap EXCEPT ![j].status = s]
    BY <1>7, EnvironmentAssumption DEF JobEnds, AAPFinal
  <2>3. QED BY <1>5, <2>1, <2>2
<1>8. ASSUME NEW j \in DOMAIN aap, JobPurged(j)
      PROVE  aap' \in Seq(AAPJob) /\ AAPExtends(aap, aap')
  <2> DEFINE job == [aap[j] EXCEPT !.purged = TRUE]
  <2>1. aap[j] \in AAPJob
    BY <1>1
  <2>2. job \in AAPJob /\ job.type = aap[j].type /\ job.status = aap[j].status
    BY <2>1 DEF AAPJob
  <2>3. aap' = [aap EXCEPT ![j] = job]
    BY <1>8 DEF JobPurged
  <2> HIDE DEF job
  <2>4. QED BY <1>1, <2>2, <2>3, ChangeExtends
<1>9. \/ aap' = aap
      \/ \E type \in JobTypes : Launch(type)
      \/ CancelProvisionJob
      \/ \E j \in DOMAIN aap : JobStarts(j) \/ JobEnds(j) \/ JobPurged(j)
  <2>1. CASE ControllerStep
    BY <2>1 DEF ControllerStep, JobTypes, aapVars, Reconcile, AddFinalizer,
         FinalizerUpdateFails, CreateTenant, HandleUpdate, HandleUpdateFails,
         SkipProvisioning, TriggerProvision, TriggerProvisionFails, PollProvision,
         PollProvisionFails, SkipDeprovisioning, TriggerDeprovision,
         TriggerDeprovisionFails, ProvisionStillActive, CancelProvisionJobFails,
         PollDeprovision, PollDeprovisionFails, RemoveFinalizer, NothingToSave,
         SaveStatus, SaveStatusFails
  <2>2. CASE CacheSync \/ Crash \/ UserStep \/ FeedbackAddsFinalizer
               \/ FeedbackRemovesFinalizer \/ TenantChanges
    BY <2>2 DEF aapVars, CacheSync, Crash, UserStep, UserEditsSpec,
         UserSetsManagementState, UserDeletes, FeedbackAddsFinalizer,
         FeedbackRemovesFinalizer, TenantChanges
  <2>3. CASE \E j \in DOMAIN aap : AAPStep(j)
    BY <2>3 DEF AAPStep, PlaybookCreates, PlaybookAnnotates, aapVars
  <2>4. CASE UNCHANGED vars
    BY <2>4 DEF vars
  <2>5. QED BY <2>1, <2>2, <2>3, <2>4 DEF Next
<1>10. QED BY <1>2, <1>3, <1>4, <1>6, <1>7, <1>8, <1>9

(* A successful deprovision job stays one. *)
LEMMA DeprovisionedPersists ==
  ASSUME AAPExtends(aap, aap'), Deprovisioned
  PROVE  Deprovisioned'
BY DEF AAPExtends, Deprovisioned, AAPFinal

-----------------------------------------------------------------------------
(* The inductive invariant *)

(* A new resource, an empty cache and an idle controller satisfy IInv. *)
LEMMA IInvInit == Init => IInv
<1> SUFFICES ASSUME Init PROVE Parts
  BY IInvParts
<1>1. Sane(cr, aap) /\ Sane(cache, aap) /\ Sane(inst, aap) /\ old \in Status
  BY FreshObjects DEF Init
<1>2. aap \in Seq(AAPJob)
  BY EmptySeq DEF Init
<1>3. Scalars
  BY <1>1, <1>2 DEF Init, Scalars, Steps, JobStates
<1>4. ReleaseJustified /\ CancelHasTarget
  BY DEF Init, ReleaseJustified, CancelHasTarget
<1>5. QED BY <1>1, <1>3, <1>4 DEF Parts

(***************************************************************************)
(* What is at hand in the proof that a step keeps the invariant: its parts *)
(* before the step, what the step leaves of AAP's jobs, and therefore that *)
(* the versions of the resource of before the step are sane after it.      *)
(***************************************************************************)
Kept ==
  /\ Parts
  /\ aap' \in Seq(AAPJob)
  /\ AAPExtends(aap, aap')
  /\ Sane(cr, aap') /\ Sane(cache, aap') /\ Sane(inst, aap')
  /\ Deprovisioned => Deprovisioned'

LEMMA KeptHolds ==
  ASSUME IInv, [Next]_vars
  PROVE  Kept
<1>1. Parts
  BY IInvParts
<1>2. aap \in Seq(AAPJob)
  BY <1>1 DEF Parts, Scalars
<1>3. aap' \in Seq(AAPJob) /\ AAPExtends(aap, aap')
  BY AAPGoesOn
<1>4. ASSUME NEW o, Sane(o, aap) PROVE Sane(o, aap')
  BY <1>2, <1>3, <1>4, AllTruePersists DEF Sane, GoodJobs
<1>5. Sane(cr, aap') /\ Sane(cache, aap') /\ Sane(inst, aap')
  BY <1>1, <1>4 DEF Parts
<1>6. Deprovisioned => Deprovisioned'
  BY <1>3, DeprovisionedPersists
<1>7. QED BY <1>1, <1>3, <1>5, <1>6 DEF Kept

(* A step that leaves the reconcile alone keeps what it relies on. *)
LEMMA ReconcileUntouched ==
  ASSUME Kept, UNCHANGED <<pc, inst, reply>>
  PROVE  ReleaseJustified' /\ CancelHasTarget'
BY DEF Kept, Parts, ReleaseJustified, CancelHasTarget

(* So does one that neither releases the resource nor cancels a job next. *)
LEMMA NothingToJustify ==
  ASSUME pc' \notin {"release", "cancel"}
  PROVE  ReleaseJustified' /\ CancelHasTarget'
BY DEF ReleaseJustified, CancelHasTarget

(* Users, other controllers, the tenant and AAP. *)
LEMMA EnvironmentKeepsIInv ==
  ASSUME Kept,
         \/ CacheSync \/ UserStep \/ FeedbackAddsFinalizer
         \/ FeedbackRemovesFinalizer \/ TenantChanges
         \/ \E j \in DOMAIN aap : AAPStep(j)
         \/ UNCHANGED vars
  PROVE  Parts'
<1> USE DEF Kept
<1>1. UNCHANGED <<pc, inst, old, reply>>
  BY DEF CacheSync, UserStep, UserEditsSpec, UserSetsManagementState,
     UserDeletes, FeedbackAddsFinalizer, FeedbackRemovesFinalizer,
     TenantChanges, AAPStep, JobStarts, PlaybookCreates, PlaybookAnnotates,
     JobEnds, JobPurged, ctrlVars, vars
<1>2. ReleaseJustified' /\ CancelHasTarget'
  BY <1>1, ReconcileUntouched
<1>3. Sane(cr', aap')
  <2>1. cr \in Object /\ Sane(Gone, aap')
    BY FreshObjects DEF Sane
  <2>2. CASE UserEditsSpec
    <3>1. cr.spec + 1 \in Nat
      BY <2>1 DEF Object
    <3>2. cr' = [cr EXCEPT !.spec = cr.spec + 1]
      BY <2>2 DEF UserEditsSpec, ForeignWrite
    <3>3. QED BY <3>1, <3>2, SaneWrites
  <2>3. CASE UserSetsManagementState
    <3>1. PICK m \in {"managed", "manual", "unmanaged"} : cr' = [cr EXCEPT !.mgmt = m]
      BY <2>3, EnvironmentAssumption DEF UserSetsManagementState, ForeignWrite
    <3>2. QED BY <3>1, SaneWrites
  <2>4. CASE UserDeletes
    <3>1. Sane([cr EXCEPT !.deleting = TRUE], aap')
      BY SaneWrites
    <3>2. Sane(Settle([cr EXCEPT !.deleting = TRUE]), aap')
      BY <3>1, SaneWrites
    <3>3. QED BY <2>4, <3>2 DEF UserDeletes, ForeignWrite
  <2>5. CASE FeedbackAddsFinalizer
    <3>1. cr.fins \cup {"feedback"} \in SUBSET {"base", "feedback", "aap"}
      BY <2>1 DEF Object
    <3>2. cr' = [cr EXCEPT !.fins = cr.fins \cup {"feedback"}]
      BY <2>5 DEF FeedbackAddsFinalizer, ForeignWrite
    <3>3. QED BY <3>1, <3>2, SaneWrites
  <2>6. CASE FeedbackRemovesFinalizer
    BY <2>1, <2>6 DEF FeedbackRemovesFinalizer, ForeignWrite
  <2>7. ASSUME NEW j \in DOMAIN aap, PlaybookAnnotates(j) PROVE Sane(cr', aap')
    <3>1. aap[j] \in AAPJob
      BY LenProperties, ElementOfSeq DEF Parts, Scalars
    <3>2. aap[j].spec \in Nat
      BY <3>1 DEF AAPJob
    <3>3. cr' = [cr EXCEPT !.annot = aap[j].spec]
      BY <2>7 DEF PlaybookAnnotates, ForeignWrite
    <3>4. QED BY <3>2, <3>3, SaneWrites
  <2>8. CASE UNCHANGED cr
    BY <2>8
  <2>9. QED
    BY <2>2, <2>3, <2>4, <2>5, <2>6, <2>7, <2>8
       DEF CacheSync, UserStep, TenantChanges, AAPStep, JobStarts,
       PlaybookCreates, JobEnds, JobPurged, apiVars, vars
<1>4. Sane(cache', aap')
  <2>1. cache' \in {cache, cr}
    BY DEF CacheSync, UserStep, UserEditsSpec, UserSetsManagementState,
       UserDeletes, FeedbackAddsFinalizer, FeedbackRemovesFinalizer,
       TenantChanges, AAPStep, JobStarts, PlaybookCreates, PlaybookAnnotates,
       JobEnds, JobPurged, ForeignWrite, apiVars, vars
  <2>2. QED BY <2>1
<1>5. Scalars'
  <2>1. Scalars
    BY DEF Parts
  <2>2. /\ lag' \in {"none", "foreign", "own"} /\ queued' \in BOOLEAN
        /\ fresh' \in BOOLEAN /\ infra' \in BOOLEAN
        /\ tenant' \in {"absent", "pending", "ready"} /\ errs' \in Nat
    BY <2>1 DEF Scalars, CacheSync, UserStep, UserEditsSpec,
       UserSetsManagementState, UserDeletes, FeedbackAddsFinalizer,
       FeedbackRemovesFinalizer, TenantChanges, AAPStep, JobStarts,
       PlaybookCreates, PlaybookAnnotates, JobEnds, JobPurged, ForeignWrite,
       apiVars, ctrlVars, aapVars, vars
  <2>3. QED BY <1>1, <2>1, <2>2 DEF Scalars
<1>6. Sane(inst', aap')
  BY <1>1
<1>7. QED BY <1>2, <1>3, <1>4, <1>5, <1>6 DEF Parts

(* The reads and writes of a reconcile that launch and poll no job. *)
LEMMA FramingStepKeepsIInv ==
  ASSUME Kept,
         \/ Reconcile \/ AddFinalizer \/ FinalizerUpdateFails
         \/ CreateTenant \/ HandleUpdate \/ HandleUpdateFails
         \/ NothingToSave \/ SaveStatus \/ SaveStatusFails \/ Crash
         \/ SkipProvisioning \/ SkipDeprovisioning \/ RemoveFinalizer
  PROVE  Parts'
<1> USE DEF Kept
<1>1. /\ Scalars
      /\ Sane(cr, aap') /\ Sane(cache, aap') /\ Sane(inst, aap')
      /\ Sane(Gone, aap') /\ NoStatus \in Status
      /\ cr \in Object /\ cache \in Object /\ inst \in Object
  BY FreshObjects DEF Parts, Sane
<1>2. \A o \in Object : o.status \in Status /\ o.fins \subseteq {"base", "feedback", "aap"}
  BY DEF Object
<1>3. ASSUME EndReconcile
      PROVE  /\ Sane(inst', aap') /\ old' \in Status /\ fresh' \in BOOLEAN
             /\ reply' \in JobStates /\ pc' \in Steps
             /\ ReleaseJustified' /\ CancelHasTarget'
  <2>1. ReleaseJustified' /\ CancelHasTarget'
    BY <1>3, NothingToJustify DEF EndReconcile
  <2>2. QED BY <1>1, <1>3, <2>1 DEF EndReconcile, JobStates, Steps
<1>4. CASE Reconcile
  <2>1. CASE UNCHANGED <<pc, inst, old, fresh, reply>>
    <3>1. ReleaseJustified' /\ CancelHasTarget'
      BY <2>1, ReconcileUntouched
    <3>2. Scalars'
      BY <1>1, <1>4, <2>1 DEF Scalars, Reconcile, apiVars, aapVars
    <3>3. QED BY <1>1, <1>4, <2>1, <3>1, <3>2 DEF Reconcile, Parts, apiVars
  <2>2. CASE ~UNCHANGED <<pc, inst, old, fresh, reply>>
    <3>1. /\ inst' = [cache EXCEPT !.status.phase = InitialPhase(cache)]
          /\ old' = cache.status /\ fresh' = (lag = "none")
          /\ pc' = FirstStep(cache)
          /\ UNCHANGED <<cr, cache, lag, reply, aap, infra, tenant, errs>>
          /\ queued' = FALSE
      BY <1>4, <2>2 DEF Reconcile, apiVars, aapVars
    <3>2. InitialPhase(cache) \in Phases
      BY DEF InitialPhase, Phases
    <3>3. Sane(inst', aap')
      BY <1>1, <3>1, <3>2, SaneWrites
    <3>4. pc' \in Steps \ {"release", "cancel"}
      BY <3>1 DEF FirstStep, Steps
    <3>5. Scalars'
      BY <1>1, <1>2, <3>1, <3>4 DEF Scalars
    <3>6. QED BY <1>1, <3>1, <3>3, <3>4, <3>5, NothingToJustify DEF Parts
  <2>3. QED BY <2>1, <2>2
<1>5. CASE AddFinalizer
  <2> DEFINE new == [cr EXCEPT !.fins = cr.fins \cup {"base"}]
  <2>1. cr.fins \cup {"base"} \in SUBSET {"base", "feedback", "aap"}
    BY <1>1, <1>2
  <2>2. Sane(new, aap')
    BY <1>1, <2>1, SaneWrites
  <2>3. new.fins \in SUBSET {"base", "feedback", "aap"}
    BY <1>2, <2>2 DEF Sane
  <2>4. Sane([inst EXCEPT !.fins = new.fins], aap')
    <3>1. ASSUME NEW f \in SUBSET {"base", "feedback", "aap"}
          PROVE  Sane([inst EXCEPT !.fins = f], aap')
      BY <1>1, SaneWrites
    <3> HIDE DEF new
    <3>2. QED BY <2>3, <3>1
  <2>5. /\ cr' = new /\ cache' = cache /\ inst' = [inst EXCEPT !.fins = new.fins]
        /\ pc' = "update"
    BY <1>5 DEF AddFinalizer, OwnWrite
  <2>6. Scalars'
    BY <1>1, <1>5 DEF Scalars, AddFinalizer, OwnWrite, aapVars, Steps
  <2> HIDE DEF new
  <2>7. QED BY <1>1, <2>2, <2>4, <2>5, <2>6, NothingToJustify DEF Parts
<1>6. CASE FinalizerUpdateFails
  <2>1. UNCHANGED <<cr, cache, inst>> /\ pc' = "save"
    BY <1>6 DEF FinalizerUpdateFails, apiVars
  <2>2. Scalars'
    BY <1>1, <1>6 DEF Scalars, FinalizerUpdateFails, TransientError, apiVars,
       aapVars, Steps
  <2>3. QED BY <1>1, <2>1, <2>2, NothingToJustify DEF Parts
<1>7. CASE CreateTenant
  <2>1. /\ UNCHANGED <<cr, cache>> /\ pc' = "save"
        /\ inst' = [inst EXCEPT !.status.tenantRef = TRUE]
    BY <1>7 DEF CreateTenant, apiVars
  <2>2. Scalars'
    BY <1>1, <1>7 DEF Scalars, CreateTenant, apiVars, aapVars, Steps
  <2>3. Sane(inst', aap')
    BY <1>1, <2>1, SaneWrites
  <2>4. QED BY <1>1, <2>1, <2>2, <2>3, NothingToJustify DEF Parts
<1>8. CASE HandleUpdate
  <2>1. /\ UNCHANGED <<cr, cache>> /\ pc' \in {"save", "provision"}
        /\ \/ inst' = inst
           \/ \E phase \in Phases : inst' = [inst EXCEPT !.status.phase = phase]
    BY <1>8 DEF HandleUpdate, apiVars, Phases
  <2>2. Scalars'
    BY <1>1, <1>8, <2>1 DEF Scalars, HandleUpdate, apiVars, aapVars, Steps
  <2>3. Sane(inst', aap')
    <3>1. ASSUME NEW phase \in Phases PROVE Sane([inst EXCEPT !.status.phase = phase], aap')
      BY <1>1, SaneWrites
    <3>2. QED BY <1>1, <2>1, <3>1
  <2>4. QED BY <1>1, <2>1, <2>2, <2>3, NothingToJustify DEF Parts
<1>9. CASE HandleUpdateFails
  <2>1. UNCHANGED <<cr, cache, inst>> /\ pc' = "save"
    BY <1>9 DEF HandleUpdateFails, apiVars
  <2>2. Scalars'
    BY <1>1, <1>9 DEF Scalars, HandleUpdateFails, TransientError, apiVars,
       aapVars, Steps
  <2>3. QED BY <1>1, <2>1, <2>2, NothingToJustify DEF Parts
<1>10. CASE NothingToSave \/ SaveStatus \/ SaveStatusFails \/ Crash
  <2>1. EndReconcile
    BY <1>10 DEF NothingToSave, SaveStatus, SaveStatusFails, Crash
  <2>2. Sane(cr', aap')
    <3>1. cr' \in {cr, [cr EXCEPT !.status = inst.status]}
      BY <1>10 DEF NothingToSave, SaveStatus, SaveStatusFails, Crash, OwnWrite,
         apiVars
    <3>2. Sane([cr EXCEPT !.status = inst.status], aap')
      BY <1>1, SaneWrites
    <3>3. QED BY <1>1, <3>1, <3>2
  <2>3. cache' \in {cache, cr}
    BY <1>10 DEF NothingToSave, SaveStatus, SaveStatusFails, Crash, OwnWrite,
       apiVars
  <2>4. /\ lag' \in {"none", "foreign", "own"} /\ queued' \in BOOLEAN
        /\ UNCHANGED <<infra, tenant, aap>>
        /\ errs' = errs \/ errs' = errs + 1
    BY <1>1, <1>10 DEF Scalars, NothingToSave, SaveStatus, SaveStatusFails,
       TransientError, Crash, OwnWrite, apiVars, aapVars
  <2>5. Scalars'
    BY <1>1, <1>3, <2>1, <2>4 DEF Scalars
  <2>6. QED BY <1>1, <1>3, <2>1, <2>2, <2>3, <2>5 DEF Parts
<1>11. CASE SkipProvisioning
  <2>1. UNCHANGED <<cr, cache, inst>> /\ pc' = "save"
    BY <1>11 DEF SkipProvisioning, apiVars
  <2>2. Scalars'
    BY <1>1, <1>11 DEF Scalars, SkipProvisioning, apiVars, aapVars, Steps
  <2>3. QED BY <1>1, <2>1, <2>2, NothingToJustify DEF Parts
<1>12. CASE SkipDeprovisioning
  <2>1. UNCHANGED <<cr, cache, inst>> /\ pc' = "release" /\ inst.mgmt = "manual"
    BY <1>12 DEF SkipDeprovisioning, apiVars
  <2>2. Scalars'
    BY <1>1, <1>12 DEF Scalars, SkipDeprovisioning, apiVars, aapVars, Steps
  <2>3. ReleaseJustified' /\ CancelHasTarget'
    BY <2>1 DEF ReleaseJustified, CancelHasTarget
  <2>4. QED BY <1>1, <2>1, <2>2, <2>3 DEF Parts
<1>13. CASE RemoveFinalizer
  <2> DEFINE new == [cr EXCEPT !.fins = cr.fins \ {"base"}]
  <2>1. cr.fins \ {"base"} \in SUBSET {"base", "feedback", "aap"}
    BY <1>1, <1>2
  <2>2. Sane(new, aap')
    BY <1>1, <2>1, SaneWrites
  <2>3. Sane(Settle(new), aap')
    BY <2>2, SaneWrites
  <2>4. cr' = Settle(new) /\ cache' = cache /\ inst' = new /\ pc' = "save"
    BY <1>13 DEF RemoveFinalizer, OwnWrite
  <2>5. Scalars'
    BY <1>1, <1>13 DEF Scalars, RemoveFinalizer, OwnWrite, aapVars, Steps
  <2> HIDE DEF new
  <2>6. QED BY <1>1, <2>2, <2>3, <2>4, <2>5, NothingToJustify DEF Parts
<1>14. QED BY <1>4, <1>5, <1>6, <1>7, <1>8, <1>9, <1>10, <1>11, <1>12, <1>13

(* What handleProvisioning and handleDeprovisioning find in the history. *)
LEMMA LocalHistory ==
  ASSUME Kept, NEW type \in JobTypes
  PROVE  LET jobs == inst.status.jobs
             i    == FindLatestJobByType(jobs, type)
         IN  /\ GoodJobs(jobs, aap) /\ GoodJobs(jobs, aap')
             /\ i # 0 => /\ i \in DOMAIN jobs /\ jobs[i] \in JobStatus
                         /\ jobs[i].type = type /\ RecordIsTrue(jobs[i], aap)
<1>1. GoodJobs(inst.status.jobs, aap) /\ GoodJobs(inst.status.jobs, aap')
  BY DEF Kept, Parts, Sane
<1>2. inst.status.jobs \in Seq(JobStatus) /\ AllTrue(inst.status.jobs, aap)
  BY <1>1 DEF GoodJobs
<1>3. QED BY <1>1, <1>2, FindLatestResult DEF AllTrue

(* The state a job has in AAP is a job state, recorded truly. *)
LEMMA PolledState ==
  ASSUME Kept, NEW id, Found(id)
  PROVE  /\ JobState(id) \in JobStates
         /\ id \in DOMAIN aap
         /\ aap[id].status \in AAPActive \cup AAPFinal
         /\ aap' = aap => mapAAPStatusToJobState(aap'[id].status) = JobState(id)
<1>1. aap \in Seq(AAPJob) /\ id \in DOMAIN aap
  BY DEF Kept, Parts, Scalars, Found
<1>2. aap[id] \in AAPJob
  BY <1>1, LenProperties, ElementOfSeq
<1>3. aap[id].status \in AAPActive \cup AAPFinal
  BY <1>2 DEF AAPJob
<1>4. QED BY <1>1, <1>3, MappedState DEF JobState

(* Launching, or failing to launch, a provision job. *)
LEMMA TriggerProvisionKeepsIInv ==
  ASSUME Kept, TriggerProvision \/ TriggerProvisionFails
  PROVE  Parts'
<1> DEFINE jobs == inst.status.jobs
<1>1. /\ Scalars /\ Sane(cr, aap') /\ Sane(cache, aap') /\ Sane(inst, aap')
      /\ aap \in Seq(AAPJob) /\ inst \in Object /\ aap' \in Seq(AAPJob)
  BY DEF Kept, Parts, Scalars, Sane
<1>2. jobs \in Seq(JobStatus) /\ AllTrue(jobs, aap')
  BY <1>1 DEF Sane, GoodJobs
<1>3. Len(aap) \in Nat /\ "provision" \in JobTypes
      /\ "Pending" \in JobStates /\ "Failed" \in JobStates
      /\ ~IsTerminal("Pending")
  BY <1>1, LenProperties DEF JobTypes, JobStates, IsTerminal
<1>4. \E id \in Nat, state \in JobStates :
        /\ RecordNewJob(jobs, id, "provision", state)
        /\ id # NoJobID => /\ id \in DOMAIN aap' /\ aap'[id].type = "provision"
                           /\ ~IsTerminal(state)
  <2>1. CASE TriggerProvision
    <3>1. Launch("provision") /\ RecordNewJob(jobs, Len(aap) + 1, "provision", "Pending")
      BY <2>1 DEF TriggerProvision
    <3>2. Len(aap) + 1 \in DOMAIN aap' /\ aap'[Len(aap) + 1].type = "provision"
      BY <1>1, <1>3, <3>1, LaunchExtends
    <3>3. QED BY <1>3, <3>1, <3>2
  <2>2. CASE TriggerProvisionFails
    <3>1. RecordNewJob(jobs, NoJobID, "provision", "Failed") /\ NoJobID \in Nat
      BY <2>2 DEF TriggerProvisionFails, NoJobID
    <3>2. QED BY <1>3, <3>1
  <2>3. QED BY <2>1, <2>2
<1>5. PICK id \in Nat, state \in JobStates, now \in Now(jobs) :
        /\ inst' = [inst EXCEPT !.status.jobs =
                      appendJob(jobs, [id |-> id, type |-> "provision",
                                       state |-> state,
                                       block |-> "provision" = "deprovision",
                                       ts |-> now])]
        /\ id # NoJobID => /\ id \in DOMAIN aap' /\ aap'[id].type = "provision"
                           /\ ~IsTerminal(state)
  BY <1>4 DEF RecordNewJob
<1>6. Sane(inst', aap')
  <2>1. GoodJobs(appendJob(jobs, [id |-> id, type |-> "provision",
                                  state |-> state,
                                  block |-> "provision" = "deprovision",
                                  ts |-> now]), aap')
    BY <1>2, <1>3, <1>5, NewRecordGood
  <2>2. QED BY <1>1, <1>5, <2>1, SaneHistory
<1>7. pc' = "save" /\ UNCHANGED <<cr, cache>>
  BY DEF TriggerProvision, TriggerProvisionFails, RequeueAndSave, apiVars
<1>8. Scalars'
  <2>1. /\ queued' = TRUE /\ UNCHANGED <<lag, old, fresh, reply, infra, tenant>>
        /\ errs' = errs \/ errs' = errs + 1
    BY DEF TriggerProvision, TriggerProvisionFails, RequeueAndSave,
       TransientError, apiVars
  <2>2. QED BY <1>1, <1>7, <2>1 DEF Scalars, Steps
<1>9. QED BY <1>1, <1>6, <1>7, <1>8, NothingToJustify DEF Parts

(* Launching, or failing to launch, a deprovision job. *)
LEMMA TriggerDeprovisionKeepsIInv ==
  ASSUME Kept, TriggerDeprovision \/ TriggerDeprovisionFails
  PROVE  Parts'
<1>1. /\ Scalars /\ Sane(cr, aap') /\ Sane(cache, aap') /\ Sane(inst, aap')
      /\ aap \in Seq(AAPJob) /\ inst \in Object /\ aap' \in Seq(AAPJob)
  BY DEF Kept, Parts, Scalars, Sane
<1>2. pc' = "save" /\ UNCHANGED <<cr, cache>>
  BY DEF TriggerDeprovision, TriggerDeprovisionFails, RequeueAndSave, apiVars
<1>3. Scalars'
  <2>1. /\ queued' = TRUE /\ UNCHANGED <<lag, old, fresh, reply, infra, tenant>>
        /\ errs' = errs \/ errs' = errs + 1
    BY DEF TriggerDeprovision, TriggerDeprovisionFails, RequeueAndSave,
       TransientError, apiVars
  <2>2. QED BY <1>1, <1>2, <2>1 DEF Scalars, Steps
<1>4. Sane(inst', aap')
  <2>1. CASE TriggerDeprovision
    <3> DEFINE jobs == inst.status.jobs
               p == FindLatestJobByType(jobs, "provision")
    <3>1. /\ Launch("deprovision")
          /\ RecordNewJob(ProvisionJobRecorded, Len(aap) + 1, "deprovision", "Pending")
      BY <2>1 DEF TriggerDeprovision
    <3>2. /\ Len(aap) + 1 \in Nat /\ "deprovision" \in JobTypes
          /\ "provision" \in JobTypes /\ "Pending" \in JobStates
          /\ ~IsTerminal("Pending")
      BY <1>1, LenProperties DEF JobTypes, JobStates, IsTerminal
    <3>3. Len(aap) + 1 \in DOMAIN aap' /\ aap'[Len(aap) + 1].type = "deprovision"
      BY <1>1, <3>1, <3>2, LaunchExtends
    <3>4. GoodJobs(ProvisionJobRecorded, aap')
      <4>1. CASE p # 0 /\ Found(jobs[p].id)
        <5>1. p \in DOMAIN jobs /\ GoodJobs(jobs, aap)
          BY <3>2, <4>1, LocalHistory
        <5>2. JobState(jobs[p].id) \in JobStates
          BY <4>1, PolledState
        <5>3. GoodJobs(WithState(jobs, p, JobState(jobs[p].id)), aap)
          BY <5>1, <5>2, WithStateGood DEF JobState
        <5>4. ProvisionJobRecorded = WithState(jobs, p, JobState(jobs[p].id))
          BY <4>1 DEF ProvisionJobRecorded
        <5>5. AAPExtends(aap, aap')
          BY DEF Kept
        <5>6. QED BY <1>1, <5>3, <5>4, <5>5, AllTruePersists DEF GoodJobs
      <4>2. CASE ~(p # 0 /\ Found(jobs[p].id))
        <5>1. ProvisionJobRecorded = jobs
          BY <4>2 DEF ProvisionJobRecorded
        <5>2. QED BY <1>1, <5>1 DEF Sane
      <4>3. QED BY <4>1, <4>2
    <3>5. PICK now \in Now(ProvisionJobRecorded) :
            inst' = [inst EXCEPT !.status.jobs =
                       appendJob(ProvisionJobRecorded,
                                 [id |-> Len(aap) + 1, type |-> "deprovision",
                                  state |-> "Pending",
                                  block |-> "deprovision" = "deprovision",
                                  ts |-> now])]
      BY <3>1 DEF RecordNewJob
    <3>6. ProvisionJobRecorded \in Seq(JobStatus) /\ AllTrue(ProvisionJobRecorded, aap')
      BY <3>4 DEF GoodJobs
    <3>7. GoodJobs(appendJob(ProvisionJobRecorded,
                             [id |-> Len(aap) + 1, type |-> "deprovision",
                              state |-> "Pending",
                              block |-> "deprovision" = "deprovision",
                              ts |-> now]), aap')
      BY <3>2, <3>3, <3>6, NewRecordGood
    <3>8. QED BY <1>1, <3>5, <3>7, SaneWrites
  <2>2. CASE TriggerDeprovisionFails
    BY <1>1, <2>2 DEF TriggerDeprovisionFails
  <2>3. QED BY <2>1, <2>2
<1>5. QED BY <1>1, <1>2, <1>3, <1>4, NothingToJustify DEF Parts

(* Polling the provision job. *)
LEMMA PollProvisionKeepsIInv ==
  ASSUME Kept, PollProvision \/ PollProvisionFails
  PROVE  Parts'
<1>1. Scalars /\ Sane(cr, aap') /\ Sane(cache, aap') /\ Sane(inst, aap')
  BY DEF Kept, Parts
<1>2. /\ pc' = "save" /\ UNCHANGED <<cr, cache, aap>>
      /\ UNCHANGED <<lag, old, fresh, reply, infra, tenant>>
      /\ queued' \in BOOLEAN
      /\ errs' = errs \/ errs' = errs + 1
  BY <1>1 DEF Scalars, PollProvision, PollProvisionFails, RequeueAndSave,
     TransientError, apiVars, aapVars
<1>3. Scalars'
  BY <1>1, <1>2 DEF Scalars, Steps
<1>4. Sane(inst', aap')
  <2>1. CASE PollProvision
    <3> DEFINE jobs == inst.status.jobs
               p == FindLatestJobByType(jobs, "provision")
               state == JobState(jobs[p].id)
               phase == IF state \in {"Failed", "Canceled"}
                        THEN "Failed" ELSE inst.status.phase
    <3>1. p # 0 /\ Found(jobs[p].id)
      BY <2>1 DEF PollProvision, NeedsTrigger
    <3>2. p \in DOMAIN jobs /\ GoodJobs(jobs, aap')
      BY <3>1, LocalHistory DEF JobTypes
    <3>3. /\ state \in JobStates
          /\ mapAAPStatusToJobState(aap'[jobs[p].id].status) = state
      BY <1>2, <3>1, PolledState
    <3>4. GoodJobs(WithState(jobs, p, state), aap')
      BY <3>2, <3>3, WithStateGood
    <3>5. phase \in Phases
      BY <1>1 DEF Sane, Object, Status, Phases
    <3>6. inst' = [inst EXCEPT !.status.jobs = WithState(jobs, p, state),
                               !.status.phase = phase]
      BY <2>1 DEF PollProvision
    <3> HIDE DEF jobs, p, state, phase
    <3>7. QED BY <1>1, <3>4, <3>5, <3>6, SaneWrites
  <2>2. CASE PollProvisionFails
    BY <1>1, <2>2 DEF PollProvisionFails
  <2>3. QED BY <2>1, <2>2
<1>5. QED BY <1>1, <1>2, <1>3, <1>4, NothingToJustify DEF Parts

(* Waiting for the provision job to end, and cancelling it. *)
LEMMA CancelKeepsIInv ==
  ASSUME Kept,
         ProvisionStillActive \/ CancelProvisionJob \/ CancelProvisionJobFails
  PROVE  Parts'
<1> DEFINE jobs == inst.status.jobs
           p == FindLatestJobByType(jobs, "provision")
<1>1. /\ Scalars /\ Sane(cr, aap') /\ Sane(cache, aap') /\ Sane(inst, aap')
      /\ CancelHasTarget /\ aap' \in Seq(AAPJob)
  BY DEF Kept, Parts
<1>2. CASE ProvisionStillActive
  <2>1. /\ p # 0 /\ Found(jobs[p].id)
        /\ ~IsTerminal(JobState(jobs[p].id))
        /\ reply' = JobState(jobs[p].id) /\ pc' = "cancel"
        /\ UNCHANGED <<cr, cache, lag, queued, inst, old, fresh, aap, infra,
                       tenant, errs>>
    BY <1>2 DEF ProvisionStillActive, isReadyForDeprovision, apiVars, aapVars
  <2>2. JobState(jobs[p].id) \in JobStates
    BY <2>1, PolledState
  <2>3. Scalars'
    BY <1>1, <2>1, <2>2 DEF Scalars, Steps
  <2>4. ReleaseJustified' /\ CancelHasTarget'
    BY <2>1 DEF ReleaseJustified, CancelHasTarget
  <2>5. QED BY <1>1, <2>1, <2>3, <2>4 DEF Parts
<1>3. CASE CancelProvisionJob
  <2>1. /\ pc = "cancel" /\ pc' = "save" /\ queued' = TRUE
        /\ inst' = [inst EXCEPT !.status.jobs = WithState(jobs, p, reply)]
        /\ UNCHANGED <<cr, cache, lag, old, fresh, reply, infra, tenant, errs>>
    BY <1>3 DEF CancelProvisionJob, RequeueAndSave, apiVars
  <2>2. p # 0 /\ ~IsTerminal(reply) /\ reply \in JobStates
    BY <1>1, <2>1 DEF CancelHasTarget, Scalars
  <2>3. p \in DOMAIN jobs /\ GoodJobs(jobs, aap')
    BY <2>2, LocalHistory DEF JobTypes
  <2>4. GoodJobs(WithState(jobs, p, reply), aap')
    BY <2>2, <2>3, WithStateGood
  <2>5. Sane(inst', aap')
    BY <1>1, <2>1, <2>4, SaneHistory
  <2>6. Scalars'
    BY <1>1, <2>1 DEF Scalars, Steps
  <2>7. QED BY <1>1, <2>1, <2>5, <2>6, NothingToJustify DEF Parts
<1>4. CASE CancelProvisionJobFails
  <2>1. /\ pc' = "save" /\ queued' = TRUE
        /\ UNCHANGED <<cr, cache, lag, inst, old, fresh, reply, infra, tenant>>
        /\ errs' = errs \/ errs' = errs + 1
    BY <1>4 DEF CancelProvisionJobFails, RequeueAndSave, TransientError,
       apiVars, aapVars
  <2>2. Scalars'
    BY <1>1, <2>1 DEF Scalars, Steps
  <2>3. QED BY <1>1, <2>1, <2>2, NothingToJustify DEF Parts
<1>5. QED BY <1>2, <1>3, <1>4

(***************************************************************************)
(* Polling the deprovision job: when the resource is to be released, the   *)
(* job polled has succeeded, since a recorded deprovision job blocks.      *)
(***************************************************************************)
LEMMA PollDeprovisionKeepsIInv ==
  ASSUME Kept, PollDeprovision \/ PollDeprovisionFails
  PROVE  Parts'
<1>1. Scalars /\ Sane(cr, aap') /\ Sane(cache, aap') /\ Sane(inst, aap')
  BY DEF Kept, Parts
<1>2. CASE PollDeprovisionFails
  <2>1. /\ pc' = "save" /\ queued' = TRUE
        /\ UNCHANGED <<cr, cache, lag, inst, old, fresh, reply, aap, infra, tenant>>
        /\ errs' = errs \/ errs' = errs + 1
    BY <1>2 DEF PollDeprovisionFails, RequeueAndSave, TransientError, apiVars,
       aapVars
  <2>2. Scalars'
    BY <1>1, <2>1 DEF Scalars, Steps
  <2>3. QED BY <1>1, <2>1, <2>2, NothingToJustify DEF Parts
<1>3. CASE PollDeprovision
  <2> DEFINE jobs == inst.status.jobs
             d == FindLatestJobByType(jobs, "deprovision")
             j == jobs[d].id
             state == JobState(j)
  <2>1. /\ d # 0 /\ j # NoJobID /\ Found(j)
        /\ inst' = [inst EXCEPT !.status.jobs = WithState(jobs, d, state)]
        /\ pc' = IF AllowsRelease(jobs[d], state) THEN "release" ELSE "save"
        /\ queued' = (queued \/ ~AllowsRelease(jobs[d], state))
        /\ UNCHANGED <<cr, cache, lag, old, fresh, reply, aap, infra, tenant, errs>>
    BY <1>3 DEF PollDeprovision, NeedsTrigger, apiVars, aapVars
  <2>2. /\ d \in DOMAIN jobs /\ jobs[d].type = "deprovision"
        /\ RecordIsTrue(jobs[d], aap) /\ GoodJobs(jobs, aap')
    BY <2>1, LocalHistory DEF JobTypes
  <2>3. /\ state \in JobStates /\ j \in DOMAIN aap
        /\ aap[j].status \in AAPActive \cup AAPFinal
        /\ mapAAPStatusToJobState(aap'[j].status) = state
    BY <2>1, PolledState
  <2>4. GoodJobs(WithState(jobs, d, state), aap')
    BY <2>2, <2>3, WithStateGood
  <2>5. Sane(inst', aap')
    BY <1>1, <2>1, <2>4, SaneHistory
  <2>6. Scalars'
    BY <1>1, <2>1 DEF Scalars, Steps
  <2>7. AllowsRelease(jobs[d], state) => Deprovisioned
    <3>1. SUFFICES ASSUME AllowsRelease(jobs[d], state) PROVE Deprovisioned
      OBVIOUS
    <3>2. jobs[d].block /\ aap[j].type = "deprovision"
      BY <2>1, <2>2 DEF RecordIsTrue
    <3>3. state = "Succeeded"
      BY <3>1, <3>2 DEF AllowsRelease, IsSuccessful
    <3>4. aap[j].status = "successful"
      BY <2>3, <3>3, MappedState DEF JobState
    <3>5. QED BY <2>3, <3>2, <3>4 DEF Deprovisioned
  <2>8. ReleaseJustified' /\ CancelHasTarget'
    <3>1. Deprovisioned => Deprovisioned'
      BY DEF Kept
    <3>2. QED BY <2>1, <2>7, <3>1 DEF ReleaseJustified, CancelHasTarget
  <2>9. QED BY <1>1, <2>1, <2>5, <2>6, <2>8 DEF Parts
<1>4. QED BY <1>2, <1>3

(* Every step keeps the invariant. *)
LEMMA IInvNext == IInv /\ [Next]_vars => IInv'
<1> SUFFICES ASSUME IInv, [Next]_vars PROVE IInv'
  OBVIOUS
<1>1. Kept
  BY KeptHolds
<1>2. Parts'
  BY <1>1, EnvironmentKeepsIInv, FramingStepKeepsIInv,
     TriggerProvisionKeepsIInv, TriggerDeprovisionKeepsIInv,
     PollProvisionKeepsIInv, CancelKeepsIInv, PollDeprovisionKeepsIInv
     DEF Next, ControllerStep
<1>3. QED BY <1>2, IInvParts, PTL

-----------------------------------------------------------------------------
(* What is proved of every behaviour *)

(***************************************************************************)
(* The inductive invariant of the controller: under every combination of   *)
(* stale caches, lost writes, crashes, lost replies and purged jobs.       *)
(***************************************************************************)
THEOREM InvariantHolds == Spec => []IInv
BY IInvInit, IInvNext, PTL DEF Spec

(***************************************************************************)
(* Type correctness, with the bound on both histories: appendJob never     *)
(* lets status.jobs outgrow CLOUDKIT_MAX_JOB_HISTORY.                      *)
(***************************************************************************)
THEOREM TypeCorrect == Spec => []TypeOK
<1>1. IInv => TypeOK
  BY DEF IInv
<1>2. QED BY <1>1, InvariantHolds, PTL

(***************************************************************************)
(* An ended job of status.jobs has ended that way in AAP.                  *)
(***************************************************************************)
THEOREM RecordedOutcomesAreTrue == Spec => []RecordsAreTrue
<1>1. IInv => RecordsAreTrue
  <2> SUFFICES ASSUME IInv, NEW i \in DOMAIN cr.status.jobs,
                      cr.status.jobs[i].id # NoJobID,
                      IsTerminal(cr.status.jobs[i].state)
               PROVE  LET job == cr.status.jobs[i]
                      IN  /\ job.id \in DOMAIN aap
                          /\ aap[job.id].type = job.type
                          /\ aap[job.id].status \in
                               CASE job.state = "Succeeded" -> {"successful"}
                                 [] job.state = "Failed"    -> {"failed", "error"}
                                 [] job.state = "Canceled"  -> {"canceled"}
    BY DEF RecordsAreTrue
  <2> DEFINE job == cr.status.jobs[i]
             status == aap[job.id].status
  <2>1. /\ job.id \in DOMAIN aap /\ aap[job.id].type = job.type
        /\ mapAAPStatusToJobState(status) = job.state
    BY DEF IInv, AllTrue, RecordIsTrue
  <2>2. aap[job.id] \in AAPJob
    BY <2>1, LenProperties, ElementOfSeq DEF IInv, TypeOK
  <2>3. status \in AAPActive \cup AAPFinal
    BY <2>2 DEF AAPJob
  <2>4. job.state \in {"Succeeded", "Failed", "Canceled"}
    BY DEF IsTerminal
  <2> HIDE DEF job, status
  <2>5. CASE job.state = "Succeeded"
    BY <2>1, <2>3, <2>5, MappedState DEF job, status
  <2>6. CASE job.state = "Failed"
    BY <2>1, <2>3, <2>6, MappedState DEF job, status
  <2>7. CASE job.state = "Canceled"
    BY <2>1, <2>3, <2>7, MappedState DEF job, status
  <2>8. QED BY <2>4, <2>5, <2>6, <2>7
<1>2. QED BY <1>1, InvariantHolds, PTL

(***************************************************************************)
(* handleDelete removes the base finalizer only when a deprovision job has *)
(* succeeded or the resource is managed manually, whatever goes wrong.     *)
(***************************************************************************)
THEOREM ReleasedOnlyWhenDeprovisioned == Spec => ReleaseAfterDeprovision
<1> DEFINE Safe == "base" \in cr.fins /\ "base" \notin cr'.fins
                     => Deprovisioned \/ inst.mgmt = "manual"
<1>1. ASSUME IInv, Next PROVE Safe
  <2>1. SUFFICES ASSUME "base" \in cr.fins, "base" \notin cr'.fins
                 PROVE  Deprovisioned \/ inst.mgmt = "manual"
    OBVIOUS
  <2>2. /\ cr \in Object /\ inst \in Object /\ ReleaseJustified
    BY <1>1 DEF IInv, TypeOK
  <2>3. CASE pc = "release"
    BY <2>2, <2>3 DEF ReleaseJustified
  <2>4. CASE ControllerStep /\ pc # "release"
    <3>1. \/ cr' = cr
          \/ cr' = [cr EXCEPT !.fins = cr.fins \cup {"base"}]
          \/ cr' = [cr EXCEPT !.status = inst.status]
      BY <2>4 DEF ControllerStep, apiVars, OwnWrite, Reconcile, AddFinalizer,
         FinalizerUpdateFails, CreateTenant, HandleUpdate, HandleUpdateFails,
         SkipProvisioning, TriggerProvision, TriggerProvisionFails,
         PollProvision, PollProvisionFails, SkipDeprovisioning,
         TriggerDeprovision, TriggerDeprovisionFails, ProvisionStillActive,
         CancelProvisionJob, CancelProvisionJobFails, PollDeprovision,
         PollDeprovisionFails, RemoveFinalizer, NothingToSave, SaveStatus,
         SaveStatusFails
    <3>2. QED BY <2>1, <2>2, <3>1 DEF Object
  <2>5. CASE UserStep
    BY <2>1, <2>2, <2>5 DEF UserStep, UserEditsSpec, UserSetsManagementState,
       UserDeletes, ForeignWrite, Settle, Object
  <2>6. CASE FeedbackAddsFinalizer
    BY <2>1, <2>2, <2>6 DEF FeedbackAddsFinalizer, ForeignWrite, Object
  <2>7. CASE FeedbackRemovesFinalizer
    BY <2>1, <2>7 DEF FeedbackRemovesFinalizer
  <2>8. CASE CacheSync \/ Crash \/ TenantChanges
    BY <2>1, <2>8 DEF CacheSync, Crash, TenantChanges, apiVars
  <2>9. CASE \E j \in DOMAIN aap : AAPStep(j)
    BY <2>1, <2>2, <2>9 DEF AAPStep, JobStarts, PlaybookCreates,
       PlaybookAnnotates, JobEnds, JobPurged, ForeignWrite, apiVars, Object
  <2>10. QED BY <1>1, <2>3, <2>4, <2>5, <2>6, <2>7, <2>8, <2>9 DEF Next
<1>2. IInv /\ [Next]_vars => [Safe]_vars
  BY <1>1
<1>3. QED BY <1>2, InvariantHolds, PTL DEF Spec, ReleaseAfterDeprovision

-----------------------------------------------------------------------------
(* The phase of a resource that is being deleted *)

(* A reconcile that departs from the stored status knows of the deletion if
   that status does, and only handleDelete has the phase Deleting. *)
DeletionKnown ==
  /\ cr.status.phase = "Deleting" => cr.deleting
  /\ cr.exists =>
       /\ lag # "own" => cache.status = cr.status
       /\ cache.status.phase = "Deleting" => cache.deleting
       /\ cache.deleting => cr.deleting
  /\ cr.exists /\ pc # "idle" =>
       /\ old = cr.status
       /\ old.phase = "Deleting" => inst.deleting
       /\ inst.deleting => cr.deleting
       /\ inst.status.phase = "Deleting" => inst.deleting
       /\ inst.deleting => \/ inst.status.phase = "Deleting"
                           \/ pc = "save" /\ inst.status = old
       /\ pc \in {"finalizer", "update", "provision"} => ~inst.deleting

(* A step of a handler stays with its copy: handleUpdate stores no phase
   Deleting, and handleDelete no other. *)
LEMMA HandlerKeepsDeletion ==
  ASSUME DeletionKnown, UNCHANGED <<apiVars, old>>,
         pc \notin {"idle", "save"}, inst'.deleting = inst.deleting,
         \/ inst'.status.phase = inst.status.phase
         \/ pc \in {"update", "provision"} /\ inst'.status.phase # "Deleting",
         pc' \in {"finalizer", "update", "provision"}
           => pc \in {"finalizer", "update", "provision"}
  PROVE  DeletionKnown'
BY DEF DeletionKnown, apiVars

(* What users, playbooks and the feedback controller write keeps it. *)
LEMMA OthersKeepDeletion ==
  ASSUME DeletionKnown, UNCHANGED <<pc, inst, old, cache>>,
         lag' # "own" => lag # "own",
         \/ ~cr'.exists /\ cr'.status.phase # "Deleting"
         \/ /\ cr'.exists = cr.exists /\ cr'.status = cr.status
            /\ cr.deleting => cr'.deleting
  PROVE  DeletionKnown'
BY DEF DeletionKnown

(* A new reconcile reads the cache, which contains its own last write. *)
LEMMA ReconcileKnowsDeletion ==
  ASSUME "stale_read" \notin Faults, cache \in Object, DeletionKnown, Reconcile
  PROVE  DeletionKnown'
<1>1. /\ UNCHANGED <<cr, cache, lag>> /\ lag # "own" /\ pc = "idle"
  BY DEF Reconcile, apiVars
<1>2. CASE pc' = "idle"
  BY <1>1, <1>2 DEF DeletionKnown
<1>3. CASE pc' # "idle"
  <2>1. /\ inst' = [cache EXCEPT !.status.phase = InitialPhase(cache)]
        /\ old' = cache.status /\ pc' = FirstStep(cache)
    BY <1>1, <1>3 DEF Reconcile
  <2>2. /\ inst'.deleting = cache.deleting
        /\ inst'.status.phase = "Deleting" <=> cache.deleting
    BY <2>1 DEF Object, Status, InitialPhase
  <2>3. pc' \in {"finalizer", "update", "provision"} => ~cache.deleting
    BY <2>1 DEF FirstStep
  <2>4. QED BY <1>1, <2>1, <2>2, <2>3 DEF DeletionKnown
<1>4. QED BY <1>2, <1>3

(* Every step of the others, and every step of the controller. *)
LEMMA DeletionStaysKnown ==
  ASSUME "stale_read" \notin Faults, TypeOK, DeletionKnown, [Next]_vars
  PROVE  DeletionKnown'
<1>0. cr \in Object /\ cache \in Object /\ inst \in Object
  BY DEF TypeOK
<1>g. ~Gone.exists /\ Gone.status.phase = "None"
  BY DEF Gone, NewObject, NoStatus
<1>1. CASE UNCHANGED vars
  BY <1>1 DEF DeletionKnown, vars, apiVars, ctrlVars
<1>2. CASE UserStep \/ FeedbackAddsFinalizer \/ FeedbackRemovesFinalizer
           \/ \E j \in DOMAIN aap : PlaybookAnnotates(j)
  <2>1. /\ UNCHANGED <<pc, inst, old, cache>>
        /\ lag' # "own" => lag # "own"
    BY <1>2 DEF UserStep, UserEditsSpec, UserSetsManagementState, UserDeletes,
       FeedbackAddsFinalizer, FeedbackRemovesFinalizer, PlaybookAnnotates,
       ForeignWrite
  <2>2. \/ cr' = Gone
        \/ \E n : cr' = [cr EXCEPT !.spec = n]
        \/ \E m : cr' = [cr EXCEPT !.mgmt = m]
        \/ \E n : cr' = [cr EXCEPT !.annot = n]
        \/ \E f : cr' = [cr EXCEPT !.fins = f]
        \/ cr' = [cr EXCEPT !.deleting = TRUE]
    BY <1>2 DEF UserStep, UserEditsSpec, UserSetsManagementState, UserDeletes,
       FeedbackAddsFinalizer, FeedbackRemovesFinalizer, PlaybookAnnotates,
       ForeignWrite, Settle
  <2>3. \/ ~cr'.exists /\ cr'.status.phase # "Deleting"
        \/ /\ cr'.exists = cr.exists /\ cr'.status = cr.status
           /\ cr.deleting => cr'.deleting
    BY <1>0, <1>g, <2>2 DEF Object
  <2>4. QED BY <2>1, <2>3, OthersKeepDeletion
<1>3. CASE TenantChanges \/ \E j \in DOMAIN aap : AAPStep(j) /\ ~PlaybookAnnotates(j)
  <2>1. UNCHANGED <<apiVars, pc, inst, old>>
    BY <1>3 DEF TenantChanges, AAPStep, JobStarts, PlaybookCreates, JobEnds,
       JobPurged, ctrlVars
  <2>2. QED BY <2>1 DEF DeletionKnown, apiVars
<1>4. CASE CacheSync
  BY <1>4 DEF CacheSync, DeletionKnown
<1>5. CASE Crash
  BY <1>5 DEF Crash, EndReconcile, DeletionKnown
<1>6. CASE Reconcile
  BY <1>0, <1>6, ReconcileKnowsDeletion
<1>7. CASE AddFinalizer
  <2>1. /\ cr' = [cr EXCEPT !.fins = cr.fins \cup {"base"}]
        /\ inst' = [inst EXCEPT !.fins = cr'.fins]
        /\ pc = "finalizer" /\ pc' = "update" /\ UNCHANGED <<cache, old>>
        /\ lag' # "own" => lag # "own"
    BY <1>7 DEF AddFinalizer, OwnWrite
  <2>2. /\ cr'.exists = cr.exists /\ cr'.status = cr.status
        /\ cr'.deleting = cr.deleting
        /\ inst'.status = inst.status /\ inst'.deleting = inst.deleting
    BY <1>0, <2>1 DEF Object
  <2>3. QED BY <2>1, <2>2 DEF DeletionKnown
<1>8. CASE RemoveFinalizer
  <2> DEFINE new == [cr EXCEPT !.fins = cr.fins \ {"base"}]
  <2>1. /\ cr' = Settle(new) /\ inst' = new
        /\ pc = "release" /\ pc' = "save" /\ UNCHANGED <<cache, old>>
        /\ lag' # "own" => lag # "own"
    BY <1>8 DEF RemoveFinalizer, OwnWrite
  <2>2. /\ new.exists = cr.exists /\ new.status = cr.status
        /\ new.deleting = cr.deleting
    BY <1>0 DEF Object
  <2>3. cr' = new \/ cr' = Gone
    BY <2>1 DEF Settle
  <2>4. QED BY <1>g, <2>1, <2>2, <2>3 DEF DeletionKnown
<1>9. CASE NothingToSave \/ SaveStatusFails
  BY <1>9 DEF NothingToSave, SaveStatusFails, EndReconcile, apiVars,
     DeletionKnown
<1>10. CASE SaveStatus
  <2>1. /\ cr' = [cr EXCEPT !.status = inst.status] /\ cr.exists
        /\ pc = "save" /\ pc' = "idle" /\ cache' = cache
        /\ cr' = cr \/ lag' = "own"
        /\ cr' = cr => lag' = lag
    BY <1>10 DEF SaveStatus, StatusToSave, OwnWrite, EndReconcile
  <2>2. /\ cr'.status = inst.status /\ cr'.deleting = cr.deleting
        /\ cr'.exists = cr.exists
    BY <1>0, <2>1 DEF Object
  <2>3. QED BY <2>1, <2>2 DEF DeletionKnown
<1>11. CASE CreateTenant \/ HandleUpdate \/ PollProvision
  <2>1. /\ UNCHANGED <<apiVars, old>> /\ pc \in {"update", "provision"}
        /\ pc' \in {"provision", "save"}
    BY <1>11 DEF CreateTenant, HandleUpdate, PollProvision
  <2>2. /\ inst'.deleting = inst.deleting
        /\ \/ inst'.status.phase = inst.status.phase
           \/ inst'.status.phase # "Deleting"
    <3>1. CASE CreateTenant
      BY <1>0, <3>1 DEF CreateTenant, Object, Status
    <3>2. CASE HandleUpdate
      BY <1>0, <3>2 DEF HandleUpdate, Object, Status
    <3>3. CASE PollProvision
      <4> DEFINE jobs  == inst.status.jobs
                 p     == FindLatestJobByType(jobs, "provision")
                 state == JobState(jobs[p].id)
                 new   == WithState(jobs, p, state)
                 phase == IF state \in {"Failed", "Canceled"} THEN "Failed"
                          ELSE inst.status.phase
      <4>1. inst' = [inst EXCEPT !.status.jobs = new, !.status.phase = phase]
        BY <3>3 DEF PollProvision
      <4>2. phase = inst.status.phase \/ phase = "Failed"
        OBVIOUS
      <4> HIDE DEF new, phase
      <4>3. QED BY <1>0, <4>1, <4>2 DEF Object, Status
    <3>4. QED BY <1>11, <3>1, <3>2, <3>3
  <2>3. QED BY <2>1, <2>2, HandlerKeepsDeletion
<1>12. CASE \/ FinalizerUpdateFails \/ HandleUpdateFails \/ SkipProvisioning
            \/ PollProvisionFails \/ SkipDeprovisioning
            \/ TriggerDeprovisionFails \/ ProvisionStillActive
            \/ CancelProvisionJobFails \/ PollDeprovisionFails
  <2>1. /\ UNCHANGED <<apiVars, old, inst>> /\ pc \notin {"idle", "save"}
        /\ pc' \in {"save", "release", "cancel"}
    BY <1>12 DEF FinalizerUpdateFails, HandleUpdateFails, SkipProvisioning,
       PollProvisionFails, SkipDeprovisioning, TriggerDeprovisionFails,
       ProvisionStillActive, CancelProvisionJobFails, PollDeprovisionFails,
       RequeueAndSave, ProvisionTriggerable, DeprovisionTriggerable
  <2>2. QED BY <2>1, HandlerKeepsDeletion
<1>13. CASE \/ TriggerProvision \/ TriggerProvisionFails \/ TriggerDeprovision
            \/ CancelProvisionJob \/ PollDeprovision
  <2>1. /\ UNCHANGED <<apiVars, old>> /\ pc \notin {"idle", "save"}
        /\ pc' \in {"save", "release"}
    BY <1>13 DEF TriggerProvision, TriggerProvisionFails, TriggerDeprovision,
       CancelProvisionJob, PollDeprovision, RequeueAndSave,
       ProvisionTriggerable, DeprovisionTriggerable
  <2>2. \E jobs : inst' = [inst EXCEPT !.status.jobs = jobs]
    BY <1>13 DEF TriggerProvision, TriggerProvisionFails, TriggerDeprovision,
       CancelProvisionJob, PollDeprovision, RecordNewJob
  <2>3. /\ inst'.deleting = inst.deleting
        /\ inst'.status.phase = inst.status.phase
    BY <1>0, <2>2 DEF Object, Status
  <2>4. QED BY <2>1, <2>3, HandlerKeepsDeletion
<1>14. QED
  BY <1>1, <1>2, <1>3, <1>4, <1>5, <1>6, <1>7, <1>8, <1>9, <1>10, <1>11, <1>12,
     <1>13 DEF Next, ControllerStep

(* Only updateStatusWithRetry writes a status, and it knows of the deletion. *)
LEMMA PhaseStaysDeleting ==
  ASSUME cr \in Object, DeletionKnown, Next
  PROVE  cr.status.phase = "Deleting" /\ cr'.exists
           => cr'.status.phase = "Deleting"
<1> SUFFICES ASSUME cr.status.phase = "Deleting", cr'.exists
             PROVE  cr'.status.phase = "Deleting"
  OBVIOUS
<1>1. CASE SaveStatus
  <2>1. /\ pc = "save" /\ cr.exists
        /\ cr' = [cr EXCEPT !.status = inst.status]
    BY <1>1 DEF SaveStatus, StatusToSave, OwnWrite
  <2>2. inst.status.phase = "Deleting"
    BY <2>1 DEF DeletionKnown
  <2>3. QED BY <2>1, <2>2 DEF Object
<1>2. CASE ~SaveStatus
  <2>1. \/ cr' = cr \/ cr' = Gone
        \/ \E n : cr' = [cr EXCEPT !.spec = n]
        \/ \E m : cr' = [cr EXCEPT !.mgmt = m]
        \/ \E n : cr' = [cr EXCEPT !.annot = n]
        \/ \E f : cr' = [cr EXCEPT !.fins = f]
        \/ cr' = [cr EXCEPT !.deleting = TRUE]
    <3>1. CASE ControllerStep
      BY <1>2, <3>1 DEF ControllerStep, Reconcile, AddFinalizer,
         FinalizerUpdateFails, CreateTenant, HandleUpdate, HandleUpdateFails,
         SkipProvisioning, TriggerProvision, TriggerProvisionFails,
         PollProvision, PollProvisionFails, SkipDeprovisioning,
         TriggerDeprovision, TriggerDeprovisionFails, ProvisionStillActive,
         CancelProvisionJob, CancelProvisionJobFails, PollDeprovision,
         PollDeprovisionFails, RemoveFinalizer, NothingToSave,
         SaveStatusFails, OwnWrite, Settle, apiVars
    <3>2. CASE ~ControllerStep
      BY <3>2 DEF Next, UserStep, UserEditsSpec, UserSetsManagementState,
         UserDeletes, FeedbackAddsFinalizer, FeedbackRemovesFinalizer,
         TenantChanges, AAPStep, JobStarts, PlaybookCreates, PlaybookAnnotates,
         JobEnds, JobPurged, CacheSync, Crash, ForeignWrite, Settle, apiVars
    <3>3. QED BY <3>1, <3>2
  <2>2. ~Gone.exists
    BY DEF Gone, NewObject
  <2>3. QED BY <2>1, <2>2 DEF Object
<1>3. QED BY <1>1, <1>2

(***************************************************************************)
(* No reconcile that started with handleUpdate overwrites the phase        *)
(* Deleting that handleDelete stored, as long as a reconcile sees what the *)
(* one before stored: whatever conflicts, restarts, lost replies, purged   *)
(* jobs and manual management there are.                                   *)
(***************************************************************************)
THEOREM DeletingStaysFinal ==
  ASSUME "stale_read" \notin Faults PROVE Spec => DeletingIsFinal
<1> DEFINE Stays == cr.status.phase = "Deleting" /\ cr'.exists
                      => cr'.status.phase = "Deleting"
<1>1. Init => DeletionKnown
  BY DEF Init, DeletionKnown, NewObject, NoStatus
<1>2. TypeOK /\ DeletionKnown /\ [Next]_vars => DeletionKnown'
  BY DeletionStaysKnown
<1>3. TypeOK /\ DeletionKnown /\ [Next]_vars => [Stays]_vars
  BY PhaseStaysDeleting DEF TypeOK
<1>4. QED
  BY <1>1, <1>2, <1>3, TypeCorrect, PTL DEF Spec, DeletingIsFinal

-----------------------------------------------------------------------------
(* One job at a time: what the steps do *)

(***************************************************************************)
(* Why SerialJobs and NothingLeft hold.  The invariant HInv of module      *)
(* ComputeInstanceHistory says it all: only the last job launched can be   *)
(* at work, and a handler that may launch one is shown it.  To show that   *)
(* the invariant is kept, the steps are sorted twice: by what they do to   *)
(* the jobs of AAP, and by what they do to the copies of the resource.     *)
(***************************************************************************)
NoneActive == \A j \in DOMAIN aap : ~Active(j)

AAPJobsOfType(jobsInAAP, type) ==
  {j \in DOMAIN jobsInAAP : jobsInAAP[j].type = type}

ListsInOrder == ListInOrder(cr) /\ ListInOrder(cache) /\ ListInOrder(inst)

(* AAP takes a job, from a handler that may launch one. *)
Launches(type) ==
  /\ Launch(type)
  /\ \/ type = "provision" /\ ProvisionTriggerable
     \/ type = "deprovision" /\ DeprovisionTriggerable /\ isReadyForDeprovision
  /\ pc' = "save" /\ UNCHANGED <<cr, cache, infra>>

(* What any other step leaves of the jobs. *)
NoneLaunched ==
  /\ Len(aap') = Len(aap)
  /\ DOMAIN aap' = DOMAIN aap
  /\ \A j \in DOMAIN aap :
       /\ aap'[j].type = aap[j].type
       /\ Active(j)' => Active(j)
       /\ aap'[j].purged => aap[j].purged \/ ~Active(j)

(* A job that goes on, or is changed in some other way. *)
LEMMA OneJobGoesOn ==
  ASSUME aap \in Seq(AAPJob), NEW j \in DOMAIN aap, NEW job \in AAPJob,
         aap' = [aap EXCEPT ![j] = job],
         job.type = aap[j].type,
         job.status \in AAPActive => aap[j].status \in AAPActive,
         job.purged => aap[j].purged \/ aap[j].status \notin AAPActive
  PROVE  NoneLaunched
<1>1. /\ DOMAIN aap = 1..Len(aap)
      /\ aap' \in Seq(AAPJob) /\ Len(aap') = Len(aap)
      /\ \A i \in 1..Len(aap) : aap'[i] = IF i = j THEN job ELSE aap[i]
  BY LenProperties, ExceptSeq
<1>2. DOMAIN aap' = DOMAIN aap
  BY <1>1, LenProperties
<1>3. QED BY <1>1, <1>2 DEF NoneLaunched, Active

(* The steps, by what they do to the jobs and to the virtual machine. *)
LEMMA JobSteps ==
  ASSUME [Next]_vars
  PROVE  \/ aap' = aap /\ infra' = infra
         \/ CancelProvisionJob
         \/ \E j \in DOMAIN aap :
              JobStarts(j) \/ PlaybookCreates(j) \/ JobEnds(j) \/ JobPurged(j)
         \/ \E type \in JobTypes : Launches(type)
<1>1. CASE \/ TriggerProvision \/ TriggerProvisionFails
           \/ TriggerDeprovision \/ TriggerDeprovisionFails
  <2>1. "provision" \in JobTypes /\ "deprovision" \in JobTypes
    BY DEF JobTypes
  <2>2. pc' = "save" /\ UNCHANGED <<cr, cache, infra>>
    BY <1>1 DEF TriggerProvision, TriggerProvisionFails, TriggerDeprovision,
       TriggerDeprovisionFails, RequeueAndSave, apiVars
  <2>3. \/ aap' = aap
        \/ Launch("provision") /\ ProvisionTriggerable
        \/ Launch("deprovision") /\ DeprovisionTriggerable /\ isReadyForDeprovision
    BY <1>1 DEF TriggerProvision, TriggerProvisionFails, TriggerDeprovision,
       TriggerDeprovisionFails
  <2>4. QED BY <2>1, <2>2, <2>3 DEF Launches
<1>2. CASE ControllerStep
  BY <1>1, <1>2 DEF ControllerStep, aapVars, Reconcile, AddFinalizer,
     FinalizerUpdateFails, CreateTenant, HandleUpdate, HandleUpdateFails,
     SkipProvisioning, PollProvision, PollProvisionFails, SkipDeprovisioning,
     ProvisionStillActive, CancelProvisionJobFails, PollDeprovision,
     PollDeprovisionFails, RemoveFinalizer, NothingToSave, SaveStatus,
     SaveStatusFails
<1>3. CASE \/ CacheSync \/ Crash \/ UserStep \/ FeedbackAddsFinalizer
           \/ FeedbackRemovesFinalizer \/ TenantChanges
  BY <1>3 DEF aapVars, CacheSync, Crash, UserStep, UserEditsSpec,
     UserSetsManagementState, UserDeletes, FeedbackAddsFinalizer,
     FeedbackRemovesFinalizer, TenantChanges
<1>4. CASE \E j \in DOMAIN aap : AAPStep(j)
  BY <1>4 DEF AAPStep, PlaybookAnnotates, aapVars
<1>5. CASE UNCHANGED vars
  BY <1>5 DEF vars
<1>6. QED BY <1>2, <1>3, <1>4, <1>5 DEF Next

(* Jobs that start, are forgotten or asked to stop are still at work or not. *)
JobsStay ==
  /\ NoneLaunched /\ infra' = infra
  /\ \A j \in DOMAIN aap :
       /\ Active(j)' <=> Active(j)
       /\ aap'[j].status = "successful" <=> aap[j].status = "successful"

LEMMA OneJobStays ==
  ASSUME aap \in Seq(AAPJob), NEW j \in DOMAIN aap, NEW job \in AAPJob,
         aap' = [aap EXCEPT ![j] = job], infra' = infra,
         job.type = aap[j].type,
         job.status \in AAPActive <=> aap[j].status \in AAPActive,
         job.status = "successful" <=> aap[j].status = "successful",
         job.purged => aap[j].purged \/ aap[j].status \notin AAPActive
  PROVE  JobsStay
<1>1. NoneLaunched
  BY OneJobGoesOn
<1>2. aap'[j] = job /\ \A k \in DOMAIN aap : k # j => aap'[k] = aap[k]
  OBVIOUS
<1>3. QED BY <1>1, <1>2 DEF JobsStay, Active

LEMMA JobsGoOn ==
  ASSUME aap \in Seq(AAPJob),
         \/ aap' = aap /\ infra' = infra
         \/ CancelProvisionJob
         \/ \E j \in DOMAIN aap : JobStarts(j) \/ JobPurged(j)
  PROVE  JobsStay
<1>1. \A j \in DOMAIN aap : aap[j] \in AAPJob
  BY LenProperties, ElementOfSeq
<1>2. CASE aap' = aap /\ infra' = infra
  BY <1>2 DEF JobsStay, NoneLaunched, Active
<1>3. CASE CancelProvisionJob
  <2> DEFINE j == inst.status.jobs[FindLatestJobByType(inst.status.jobs, "provision")].id
             job == [aap[j] EXCEPT !.cancel = TRUE]
  <2>1. /\ j \in DOMAIN aap /\ infra' = infra
        /\ \/ aap' = aap
           \/ aap' = [aap EXCEPT ![j] = job]
    BY <1>3 DEF CancelProvisionJob, Found
  <2> HIDE DEF j
  <2>2. /\ job \in AAPJob /\ job.type = aap[j].type
        /\ job.status = aap[j].status /\ job.purged = aap[j].purged
    BY <1>1, <2>1 DEF AAPJob
  <2> HIDE DEF job
  <2>3. QED BY <1>2, <2>1, <2>2, OneJobStays
<1>4. ASSUME NEW j \in DOMAIN aap, JobStarts(j) PROVE JobsStay
  <2> DEFINE job == [aap[j] EXCEPT !.status = "running"]
  <2>1. /\ aap[j].status = "pending" /\ aap' = [aap EXCEPT ![j] = job]
        /\ infra' = infra
    BY <1>4 DEF JobStarts
  <2>2. /\ job \in AAPJob /\ job.type = aap[j].type /\ job.status = "running"
        /\ job.purged = aap[j].purged
    BY <1>1 DEF AAPJob, AAPActive
  <2> HIDE DEF job
  <2>3. QED BY <2>1, <2>2, OneJobStays DEF AAPActive
<1>5. ASSUME NEW j \in DOMAIN aap, JobPurged(j) PROVE JobsStay
  <2> DEFINE job == [aap[j] EXCEPT !.purged = TRUE]
  <2>1. ~Active(j) /\ aap' = [aap EXCEPT ![j] = job] /\ infra' = infra
    BY <1>5 DEF JobPurged
  <2>2. /\ job \in AAPJob /\ job.type = aap[j].type
        /\ job.status = aap[j].status
    BY <1>1 DEF AAPJob
  <2> HIDE DEF job
  <2>3. QED BY <2>1, <2>2, OneJobStays DEF Active
<1>6. QED BY <1>2, <1>3, <1>4, <1>5

(* The end of a job, and what a successful deprovision job has done. *)
LEMMA JobsEnd ==
  ASSUME aap \in Seq(AAPJob), infra \in BOOLEAN,
         NEW j \in DOMAIN aap, JobEnds(j)
  PROVE  /\ NoneLaunched /\ Active(j) /\ ~Active(j)'
         /\ \A k \in DOMAIN aap : k # j => aap'[k] = aap[k]
         /\ IF aap[j].type = "deprovision" /\ aap'[j].status = "successful"
            THEN infra' = FALSE ELSE infra' = infra
<1>1. aap[j] \in AAPJob
  BY LenProperties, ElementOfSeq
<1>2. Active(j)
  BY DEF JobEnds, Active, AAPActive
<1>3. PICK s \in AAPFinal :
        /\ aap' = [aap EXCEPT ![j].status = s]
        /\ IF aap[j].type = "deprovision" /\ s = "successful"
           THEN infra' = FALSE ELSE infra' = infra
  BY EnvironmentAssumption DEF JobEnds, AAPFinal
<1> DEFINE job == [aap[j] EXCEPT !.status = s]
<1>4. aap' = [aap EXCEPT ![j] = job]
  BY <1>3
<1>5. /\ job \in AAPJob /\ job.type = aap[j].type /\ job.status = s
      /\ job.purged = aap[j].purged
  BY <1>1, <1>3 DEF AAPJob
<1> HIDE DEF job
<1>6. NoneLaunched
  BY <1>2, <1>4, <1>5, OneJobGoesOn DEF Active
<1>7. aap'[j] = job /\ \A k \in DOMAIN aap : k # j => aap'[k] = aap[k]
  BY <1>4
<1>8. ~Active(j)'
  BY <1>5, <1>7 DEF Active, AAPActive, AAPFinal
<1>9. QED BY <1>2, <1>3, <1>5, <1>6, <1>7, <1>8

(* AAP accepts one more job, which has not ended. *)
LEMMA LaunchAdds ==
  ASSUME Kept, NEW type \in JobTypes, Launch(type)
  PROVE  LET n == Len(aap) + 1
         IN  /\ Len(aap') = n /\ aap' # << >>
             /\ DOMAIN aap' = DOMAIN aap \cup {n} /\ n \notin DOMAIN aap
             /\ aap'[n].type = type /\ aap'[n].status = "pending"
             /\ aap'[n].purged = FALSE
             /\ \A j \in DOMAIN aap : aap'[j] = aap[j]
<1> DEFINE n == Len(aap) + 1
           one == [type |-> type, status |-> "pending", cancel |-> FALSE,
                   purged |-> FALSE, spec |-> inst.spec]
<1>1. /\ aap \in Seq(AAPJob) /\ DOMAIN aap = 1..Len(aap) /\ Len(aap) \in Nat
      /\ inst \in Object
  BY LenProperties DEF Kept, Parts, Scalars, Sane
<1>2. aap' = Append(aap, one) /\ one \in AAPJob
  BY <1>1 DEF Launch, AAPJob, AAPActive, Object
<1>3. /\ one.type = type /\ one.status = "pending" /\ one.purged = FALSE
  OBVIOUS
<1> HIDE DEF one
<1>4. /\ aap' \in Seq(AAPJob) /\ Len(aap') = n /\ aap'[n] = one
      /\ \A j \in 1..Len(aap) : aap'[j] = aap[j]
  BY <1>1, <1>2, AppendProperties
<1>5. DOMAIN aap' = 1..n
  BY <1>4, LenProperties
<1>6. 1..n = (1..Len(aap)) \cup {n} /\ n \notin 1..Len(aap)
  BY <1>1
<1>7. aap' # << >>
  BY <1>1, <1>4, EmptySeq
<1>8. QED BY <1>1, <1>3, <1>4, <1>5, <1>6, <1>7

(***************************************************************************)
(* A handler that is shown the last job launches another one only when it  *)
(* has ended, and a provision job only when there is none.                 *)
(***************************************************************************)
LEMMA LaunchedAlone ==
  ASSUME Kept, HInv, ~blind, NEW type \in JobTypes, Launches(type)
  PROVE  /\ NoneActive /\ AAPJobsOfType(aap, "deprovision") = {}
         /\ type = "provision" => aap = << >>
         /\ "base" \in inst.fins
<1> DEFINE jobs == inst.status.jobs
           last == Len(aap)
           p == FindLatestJobByType(jobs, "provision")
           d == FindLatestJobByType(jobs, "deprovision")
<1>1. /\ aap \in Seq(AAPJob) /\ DOMAIN aap = 1..last /\ last \in Nat
      /\ aap # << >> => last \in DOMAIN aap
      /\ \A j \in DOMAIN aap : aap[j] \in AAPJob
      /\ jobs \in Seq(JobStatus)
  BY LenProperties, ElementOfSeq, EmptySeq DEF Kept, Parts, Scalars, Sane, GoodJobs
<1>2. /\ LastJobOnly /\ HandlerSees /\ DeletionSeen /\ PurgedHaveEnded
      /\ ListInOrder(inst)
  BY DEF HInv
<1>3. pc \in {"provision", "deprovision"}
  BY DEF Launches, ProvisionTriggerable, DeprovisionTriggerable
<1>4. Shown(jobs) /\ "base" \in inst.fins
  BY <1>2, <1>3 DEF HandlerSees, LaunchSteps, DeletionSeen
<1>5. CASE aap = << >>
  <2>1. DOMAIN aap = {}
    BY <1>5, EmptySeq
  <2>2. QED BY <1>4, <1>5, <2>1 DEF NoneActive, AAPJobsOfType
<1>6. CASE aap # << >>
  <2>1. /\ aap[last].type = "provision" => p # 0 /\ jobs[p].id = last
        /\ aap[last].type = "deprovision" => d # 0 /\ jobs[d].id = last
        /\ aap[last].type \in {"provision", "deprovision"}
    BY <1>1, <1>4, <1>6 DEF Shown, AAPJob, JobTypes
  <2>2. last # NoJobID
    BY <1>1, <1>6 DEF NoJobID
  <2> HIDE DEF jobs, p, d
  <2>3. aap[last].type = "deprovision" => inst.deleting
    BY <1>1, <1>2, <2>1, FindLatestResult DEF ListInOrder, jobs, d
  <2>4. pc # "provision"
    <3>1. SUFFICES ASSUME pc = "provision" PROVE FALSE
      OBVIOUS
    <3>2. NeedsTrigger(jobs, "provision") /\ ~inst.deleting
      BY <1>2, <3>1 DEF Launches, ProvisionTriggerable, DeprovisionTriggerable,
         DeletionSeen, jobs
    <3>3. QED BY <2>1, <2>2, <2>3, <3>2 DEF NeedsTrigger, p
  <2>5. type = "deprovision" /\ NeedsTrigger(jobs, "deprovision") /\ isReadyForDeprovision
    BY <2>4 DEF Launches, ProvisionTriggerable, DeprovisionTriggerable, jobs
  <2>6. aap[last].type = "provision" /\ p # 0 /\ jobs[p].id = last
    BY <2>1, <2>2, <2>5 DEF NeedsTrigger, d
  <2>7. ~Active(last)
    <3>1. aap[last].status \in AAPActive \cup AAPFinal
      BY <1>1, <1>6 DEF AAPJob
    <3>2. CASE Found(last)
      <4>1. IsTerminal(mapAAPStatusToJobState(aap[last].status))
        BY <2>5, <2>6, <3>2 DEF isReadyForDeprovision, JobState, jobs, p
      <4>2. aap[last].status \in AAPFinal
        BY <3>1, <4>1, MappedState
      <4>3. QED BY <4>2 DEF Active, AAPActive, AAPFinal
    <3>3. CASE ~Found(last)
      BY <1>1, <1>2, <1>6, <3>3 DEF Found, PurgedHaveEnded
    <3>4. QED BY <3>2, <3>3
  <2>8. \A j \in DOMAIN aap : ~Active(j) /\ aap[j].type # "deprovision"
    BY <1>2, <2>6, <2>7 DEF LastJobOnly
  <2>9. QED BY <1>4, <2>5, <2>8 DEF NoneActive, AAPJobsOfType
<1>7. QED BY <1>5, <1>6

-----------------------------------------------------------------------------
(* One job at a time: what the steps do to the resource and its copies *)

(* What others leave of the resource that the controller relies on. *)
WrittenByOthers ==
  /\ cr'.exists => cr.exists /\ cr'.status = cr.status
  /\ cr.deleting => cr'.deleting \/ ~cr'.exists
  /\ "base" \in cr'.fins <=> "base" \in cr.fins
  /\ ~cr'.exists => cr'.fins = {} /\ cr'.status.jobs = << >>

OthersWrite ==
  /\ UNCHANGED <<pc, inst, cache, aap, infra>>
  /\ lag' # "none" /\ fresh' = FALSE
  /\ WrittenByOthers

(* A step that does not concern the resource, or ends a reconcile. *)
Elsewhere == UNCHANGED <<cr, cache, lag, pc, inst, fresh>>

ReconcileEnds ==
  /\ pc' = "idle" /\ inst' = Gone /\ cr' = cr
  /\ cache' = cr \/ UNCHANGED <<cache, lag>>

ReconcileBegins ==
  /\ pc = "idle" /\ pc' = FirstStep(cache) /\ cache.exists
  /\ inst' = [cache EXCEPT !.status.phase = InitialPhase(cache)]
  /\ fresh' = (lag = "none")
  /\ UNCHANGED <<cr, cache, lag, aap, infra>>

(* A step of a handler on its local copy.  Only handleDelete, which works for
   a resource that is being deleted, adds a deprovision job to the list. *)
HandlerGoesOn ==
  /\ UNCHANGED <<cr, cache, lag, fresh>>
  /\ pc # "idle"
  /\ inst'.deleting = inst.deleting /\ inst'.fins = inst.fins
  /\ JobsOfType(inst'.status.jobs, "deprovision") # {}
       => JobsOfType(inst.status.jobs, "deprovision") # {} \/ inst.deleting
  /\ \/ pc' = "save"
     \/ pc = "update" /\ pc' = "provision" /\ inst'.status.jobs = inst.status.jobs
     \/ pc = "deprovision" /\ pc' \in {"cancel", "release"}

(* Users, playbooks and the feedback controller write no more than that. *)
LEMMA OthersWriteLittle ==
  ASSUME cr \in Object,
         \/ UserStep \/ FeedbackAddsFinalizer \/ FeedbackRemovesFinalizer
         \/ \E j \in DOMAIN aap : PlaybookAnnotates(j)
  PROVE  OthersWrite
<1>1. /\ UNCHANGED <<pc, inst, cache, aap, infra>>
      /\ lag' # "none" /\ fresh' = FALSE /\ cr.exists
  BY DEF UserStep, UserEditsSpec, UserSetsManagementState, UserDeletes,
     FeedbackAddsFinalizer, FeedbackRemovesFinalizer, PlaybookAnnotates,
     ForeignWrite, aapVars
<1>2. \/ cr' = Gone /\ "base" \notin cr.fins
      \/ \E n : cr' = [cr EXCEPT !.spec = n]
      \/ \E m : cr' = [cr EXCEPT !.mgmt = m]
      \/ \E n : cr' = [cr EXCEPT !.annot = n]
      \/ cr' = [cr EXCEPT !.fins = @ \cup {"feedback"}]
      \/ cr' = [cr EXCEPT !.deleting = TRUE]
  BY DEF UserStep, UserEditsSpec, UserSetsManagementState, UserDeletes,
     FeedbackAddsFinalizer, FeedbackRemovesFinalizer, PlaybookAnnotates,
     ForeignWrite, Settle, Object
<1>3. ~Gone.exists /\ Gone.fins = {} /\ Gone.status.jobs = << >>
  BY DEF Gone, NewObject, NoStatus
<1>4. WrittenByOthers
  BY <1>1, <1>2, <1>3 DEF WrittenByOthers, Object
<1>5. QED BY <1>1, <1>4 DEF OthersWrite

(* A list in which states are replaced keeps the types of its jobs. *)
LEMMA UpdatedList ==
  ASSUME NEW jobs \in Seq(JobStatus), NEW i \in DOMAIN jobs,
         NEW state \in JobStates, NEW type
  PROVE  JobsOfType(WithState(jobs, i, state), type) # {}
           => JobsOfType(jobs, type) # {}
<1> DEFINE job == [jobs[i] EXCEPT !.state = state]
           new == updateJob(jobs, job)
<1>1. jobs[i] \in JobStatus
  BY LenProperties, ElementOfSeq
<1>2. job \in JobStatus /\ job.type = jobs[i].type
  BY <1>1 DEF JobStatus
<1>3. \A k \in DOMAIN new : new[k] = job \/ (k \in DOMAIN jobs /\ new[k] = jobs[k])
  BY <1>2, UpdateJobResult
<1>4. WithState(jobs, i, state) = new
  BY DEF WithState
<1> HIDE DEF job, new
<1>5. QED BY <1>2, <1>3, <1>4 DEF JobsOfType

(* A list to which a job is added. *)
LEMMA GrownList ==
  ASSUME NEW jobs \in Seq(JobStatus), NEW job \in JobStatus, NEW type
  PROVE  JobsOfType(appendJob(jobs, job), type) # {}
           => JobsOfType(jobs, type) # {} \/ job.type = type
<1> DEFINE new == appendJob(jobs, job)
<1>1. \A k \in DOMAIN new : new[k] = job \/ \E n \in DOMAIN jobs : new[k] = jobs[n]
  BY AppendJobResult
<1> HIDE DEF new
<1>2. JobsOfType(new, type) # {} => JobsOfType(jobs, type) # {} \/ job.type = type
  BY <1>1 DEF JobsOfType
<1>3. QED BY <1>2 DEF new

(* The steps of the handlers that leave their list as it is. *)
LEMMA HandlersThatOnlyLook ==
  ASSUME inst \in Object,
         \/ FinalizerUpdateFails \/ CreateTenant \/ HandleUpdate
         \/ HandleUpdateFails \/ SkipProvisioning \/ PollProvisionFails
         \/ SkipDeprovisioning \/ TriggerDeprovisionFails
         \/ ProvisionStillActive \/ CancelProvisionJobFails
         \/ PollDeprovisionFails
  PROVE  HandlerGoesOn
<1>1. /\ UNCHANGED <<cr, cache, lag, fresh>> /\ pc # "idle"
      /\ \/ pc' = "save"
         \/ pc = "update" /\ pc' = "provision"
         \/ pc = "deprovision" /\ pc' \in {"cancel", "release"}
  BY DEF FinalizerUpdateFails, CreateTenant, HandleUpdate, HandleUpdateFails,
     SkipProvisioning, PollProvisionFails, SkipDeprovisioning,
     TriggerDeprovisionFails, ProvisionStillActive, CancelProvisionJobFails,
     PollDeprovisionFails, DeprovisionTriggerable, RequeueAndSave, apiVars
<1>2. \/ inst' = inst
      \/ inst' = [inst EXCEPT !.status.tenantRef = TRUE]
      \/ \E phase : inst' = [inst EXCEPT !.status.phase = phase]
  BY DEF FinalizerUpdateFails, CreateTenant, HandleUpdate, HandleUpdateFails,
     SkipProvisioning, PollProvisionFails, SkipDeprovisioning,
     TriggerDeprovisionFails, ProvisionStillActive, CancelProvisionJobFails,
     PollDeprovisionFails
<1>3. /\ inst'.deleting = inst.deleting /\ inst'.fins = inst.fins
      /\ inst'.status.jobs = inst.status.jobs
  BY <1>2 DEF Object, Status
<1>4. QED BY <1>1, <1>3 DEF HandlerGoesOn

(* The steps of the handlers that record what became of a job. *)
LEMMA HandlersThatRecord ==
  ASSUME Kept, DeletionSeen,
         \/ TriggerProvision \/ TriggerProvisionFails \/ PollProvision
         \/ TriggerDeprovision \/ CancelProvisionJob \/ PollDeprovision
  PROVE  HandlerGoesOn
<1> DEFINE jobs == inst.status.jobs
           p == FindLatestJobByType(jobs, "provision")
           d == FindLatestJobByType(jobs, "deprovision")
<1>1. /\ inst \in Object /\ jobs \in Seq(JobStatus) /\ GoodJobs(jobs, aap)
      /\ aap \in Seq(AAPJob) /\ Len(aap) \in Nat /\ reply \in JobStates
      /\ "provision" \in JobTypes /\ "deprovision" \in JobTypes
      /\ pc = "cancel" => p # 0
  BY LenProperties DEF Kept, Parts, Scalars, Sane, GoodJobs, JobTypes, CancelHasTarget
<1>2. /\ UNCHANGED <<cr, cache, lag, fresh>> /\ pc # "idle"
      /\ \/ pc' = "save"
         \/ pc = "deprovision" /\ pc' \in {"cancel", "release"}
      /\ pc = "deprovision" => inst.deleting
  BY DEF TriggerProvision, TriggerProvisionFails, PollProvision,
     TriggerDeprovision, CancelProvisionJob, PollDeprovision,
     ProvisionTriggerable, DeprovisionTriggerable, RequeueAndSave, apiVars,
     DeletionSeen
<1>3. p # 0 => p \in DOMAIN jobs
  BY <1>1, FindLatestResult
<1>4. ASSUME NEW new,
             \/ inst' = [inst EXCEPT !.status.jobs = new]
             \/ \E phase : inst' = [inst EXCEPT !.status.jobs = new,
                                                !.status.phase = phase],
             JobsOfType(new, "deprovision") # {}
               => JobsOfType(jobs, "deprovision") # {} \/ inst.deleting
      PROVE  HandlerGoesOn
  <2>1. /\ inst'.deleting = inst.deleting /\ inst'.fins = inst.fins
        /\ inst'.status.jobs = new
    <3>1. CASE inst' = [inst EXCEPT !.status.jobs = new]
      BY <1>1, <3>1 DEF Object, Status
    <3>2. ASSUME NEW phase, inst' = [inst EXCEPT !.status.jobs = new,
                                                 !.status.phase = phase]
          PROVE  /\ inst'.deleting = inst.deleting /\ inst'.fins = inst.fins
                 /\ inst'.status.jobs = new
      BY <1>1, <3>2 DEF Object, Status
    <3>3. QED BY <1>4, <3>1, <3>2
  <2>2. QED BY <1>2, <1>4, <2>1 DEF HandlerGoesOn
<1>5. CASE TriggerProvision \/ TriggerProvisionFails
  <2>1. PICK id \in Nat, state \in JobStates, now \in Now(jobs) :
          inst' = [inst EXCEPT !.status.jobs =
                     appendJob(jobs, [id |-> id, type |-> "provision",
                                      state |-> state,
                                      block |-> "provision" = "deprovision",
                                      ts |-> now])]
    <3>1. /\ Len(aap) + 1 \in Nat /\ NoJobID \in Nat
          /\ "Pending" \in JobStates /\ "Failed" \in JobStates
      BY <1>1 DEF NoJobID, JobStates
    <3>2. \/ RecordNewJob(jobs, Len(aap) + 1, "provision", "Pending")
          \/ RecordNewJob(jobs, NoJobID, "provision", "Failed")
      BY <1>5 DEF TriggerProvision, TriggerProvisionFails
    <3>3. QED BY <3>1, <3>2 DEF RecordNewJob
  <2> DEFINE job == [id |-> id, type |-> "provision", state |-> state,
                     block |-> "provision" = "deprovision", ts |-> now]
  <2>2. job \in JobStatus /\ job.type = "provision"
    BY <1>1, NowIsNatural DEF JobStatus
  <2>3. inst' = [inst EXCEPT !.status.jobs = appendJob(jobs, job)]
    BY <2>1
  <2> HIDE DEF job
  <2>4. JobsOfType(appendJob(jobs, job), "deprovision") # {}
          => JobsOfType(jobs, "deprovision") # {}
    BY <1>1, <2>2, GrownList
  <2>5. QED BY <1>4, <2>3, <2>4
<1>6. CASE TriggerDeprovision
  <2>1. inst.deleting
    BY <1>2, <1>6 DEF TriggerDeprovision, DeprovisionTriggerable
  <2>2. \E new : inst' = [inst EXCEPT !.status.jobs = new]
    BY <1>6 DEF TriggerDeprovision, RecordNewJob
  <2>3. QED BY <1>4, <2>1, <2>2
<1>7. CASE CancelProvisionJob
  <2>1. /\ p \in DOMAIN jobs
        /\ inst' = [inst EXCEPT !.status.jobs = WithState(jobs, p, reply)]
    BY <1>1, <1>3, <1>7 DEF CancelProvisionJob
  <2>2. JobsOfType(WithState(jobs, p, reply), "deprovision") # {}
          => JobsOfType(jobs, "deprovision") # {}
    BY <1>1, <2>1, UpdatedList
  <2>3. QED BY <1>4, <2>1, <2>2
<1>8. CASE PollProvision
  <2> DEFINE state == JobState(jobs[p].id)
             new == WithState(jobs, p, state)
  <2>1. p # 0 /\ Found(jobs[p].id)
    BY <1>8 DEF PollProvision, NeedsTrigger
  <2>2. state \in JobStates
    BY <2>1, PolledState
  <2>3. JobsOfType(new, "deprovision") # {} => JobsOfType(jobs, "deprovision") # {}
    BY <1>1, <1>3, <2>1, <2>2, UpdatedList
  <2>4. \E phase : inst' = [inst EXCEPT !.status.jobs = new, !.status.phase = phase]
    BY <1>8 DEF PollProvision
  <2> HIDE DEF new
  <2>5. QED BY <1>4, <2>3, <2>4
<1>9. CASE PollDeprovision
  <2>1. inst.deleting
    BY <1>2, <1>9 DEF PollDeprovision
  <2>2. \E new : inst' = [inst EXCEPT !.status.jobs = new]
    BY <1>9 DEF PollDeprovision
  <2>3. QED BY <1>4, <2>1, <2>2
<1>10. QED BY <1>5, <1>6, <1>7, <1>8, <1>9

(* The steps, by what they do to the resource and its copies. *)
LEMMA ObjectSteps ==
  ASSUME Kept, DeletionSeen, [Next]_vars
  PROVE  \/ Elsewhere \/ OthersWrite \/ ReconcileBegins \/ HandlerGoesOn
         \/ ReconcileEnds
         \/ CacheSync \/ AddFinalizer \/ RemoveFinalizer \/ SaveStatus
<1>1. cr \in Object /\ inst \in Object
  BY DEF Kept, Parts, Sane
<1>2. CASE Reconcile
  BY <1>2 DEF Reconcile, Elsewhere, ReconcileBegins, apiVars, aapVars
<1>3. CASE NothingToSave \/ SaveStatusFails \/ Crash
  BY <1>3 DEF NothingToSave, SaveStatusFails, Crash, EndReconcile, apiVars,
     ReconcileEnds
<1>4. CASE ControllerStep
  BY <1>1, <1>2, <1>3, <1>4, HandlersThatOnlyLook, HandlersThatRecord
     DEF ControllerStep
<1>5. CASE TenantChanges \/ UNCHANGED vars
           \/ \E j \in DOMAIN aap : AAPStep(j) /\ ~PlaybookAnnotates(j)
  BY <1>5 DEF TenantChanges, vars, AAPStep, JobStarts, PlaybookCreates,
     JobEnds, JobPurged, apiVars, ctrlVars, Elsewhere
<1>6. CASE \/ UserStep \/ FeedbackAddsFinalizer \/ FeedbackRemovesFinalizer
           \/ \E j \in DOMAIN aap : PlaybookAnnotates(j)
  BY <1>1, <1>6, OthersWriteLittle
<1>7. QED BY <1>3, <1>4, <1>5, <1>6 DEF Next, AAPStep

(* Both finalizer writes, spelled out. *)
LEMMA FinalizerWrites ==
  ASSUME Kept, DeletionSeen, AddFinalizer \/ RemoveFinalizer
  PROVE  /\ UNCHANGED <<cache, aap, infra>>
         /\ (lag' = lag /\ cr' = cr) \/ lag' = "own"
         /\ AddFinalizer =>
              /\ pc = "finalizer" /\ pc' = "update" /\ fresh
              /\ cr.exists /\ ~cr.deleting
              /\ cr' = [cr EXCEPT !.fins = cr.fins \cup {"base"}]
              /\ inst'.fins = cr.fins \cup {"base"}
              /\ inst'.status = inst.status /\ inst'.deleting = inst.deleting
         /\ RemoveFinalizer =>
              /\ pc = "release" /\ pc' = "save"
              /\ inst' = [cr EXCEPT !.fins = cr.fins \ {"base"}]
              /\ cr' = inst' \/ cr' = Gone
              /\ cr.deleting \/ ~cr.exists
              /\ cr.deleting => cr'.deleting \/ ~cr'.exists
<1>1. cr \in Object /\ inst \in Object
  BY DEF Kept, Parts, Sane
<1>2. CASE AddFinalizer
  <2>1. /\ pc = "finalizer" /\ pc' = "update" /\ fresh
        /\ cr' = [cr EXCEPT !.fins = cr.fins \cup {"base"}]
        /\ inst' = [inst EXCEPT !.fins = cr'.fins]
        /\ UNCHANGED <<cache, aap, infra>>
        /\ (lag' = lag /\ cr' = cr) \/ lag' = "own"
    BY <1>2 DEF AddFinalizer, OwnWrite, aapVars
  <2>2. cr.exists /\ ~cr.deleting
    BY <2>1 DEF DeletionSeen
  <2>3. ~RemoveFinalizer
    BY <2>1 DEF RemoveFinalizer
  <2>4. cr'.fins = cr.fins \cup {"base"}
    BY <1>1, <2>1 DEF Object
  <2>5. QED BY <1>1, <2>1, <2>2, <2>3, <2>4 DEF Object
<1>3. CASE RemoveFinalizer
  <2>1. /\ pc = "release" /\ pc' = "save"
        /\ inst' = [cr EXCEPT !.fins = cr.fins \ {"base"}]
        /\ cr' = Settle(inst')
        /\ UNCHANGED <<cache, aap, infra>>
        /\ (lag' = lag /\ cr' = cr) \/ lag' = "own"
    BY <1>3 DEF RemoveFinalizer, OwnWrite, aapVars
  <2>2. cr.deleting \/ ~cr.exists
    BY <2>1 DEF DeletionSeen
  <2>3. cr' = inst' \/ cr' = Gone
    BY <2>1 DEF Settle
  <2>4. inst'.deleting = cr.deleting
    BY <1>1, <2>1 DEF Object
  <2>5. ~Gone.exists
    BY DEF Gone, NewObject
  <2>6. ~AddFinalizer
    BY <2>1 DEF AddFinalizer
  <2>7. QED BY <2>1, <2>2, <2>3, <2>4, <2>5, <2>6
<1>4. QED BY <1>2, <1>3

-----------------------------------------------------------------------------
(* One job at a time: the invariant *)

(* Everybody agrees on the deletion. *)
LEMMA DeletionStaysSeen ==
  ASSUME Kept, DeletionSeen, [Next]_vars
  PROVE  DeletionSeen'
<1>1. cr \in Object /\ cache \in Object /\ inst \in Object
  BY DEF Kept, Parts, Sane
<1>2. /\ ~Gone.exists /\ Gone.fins = {} /\ ~Gone.deleting
  BY DEF Gone, NewObject
<1>3. CASE Elsewhere
  BY <1>3 DEF Elsewhere, DeletionSeen
<1>4. CASE OthersWrite
  BY <1>4 DEF OthersWrite, WrittenByOthers, DeletionSeen
<1>5. CASE ReconcileBegins
  <2>1. inst'.deleting = cache.deleting /\ inst'.fins = cache.fins
    BY <1>1, <1>5 DEF ReconcileBegins, Object
  <2>2. /\ pc' = "finalizer" => ~cache.deleting
        /\ pc' \in {"finalizer", "save", "update", "deprovision"}
        /\ pc' = "update" => ~cache.deleting /\ "base" \in cache.fins
        /\ pc' = "deprovision" => cache.deleting /\ "base" \in cache.fins
    BY <1>5 DEF ReconcileBegins, FirstStep
  <2>3. pc' = "finalizer" /\ fresh' => cr.exists /\ ~cr.deleting
    <3>1. lag = "none" => cache = cr
      BY DEF DeletionSeen
    <3>2. QED BY <1>5, <2>2, <3>1 DEF ReconcileBegins
  <2>4. QED BY <1>5, <2>1, <2>2, <2>3 DEF ReconcileBegins, DeletionSeen
<1>6. CASE HandlerGoesOn
  BY <1>6 DEF HandlerGoesOn, DeletionSeen
<1>7. CASE ReconcileEnds
  BY <1>2, <1>7 DEF ReconcileEnds, DeletionSeen
<1>8. CASE CacheSync
  BY <1>8 DEF CacheSync, DeletionSeen
<1>9. CASE AddFinalizer
  <2>1. cr'.exists = cr.exists /\ cr'.deleting = cr.deleting
    BY <1>1, <1>9, FinalizerWrites DEF Object
  <2>2. QED BY <1>9, <2>1, FinalizerWrites DEF DeletionSeen
<1>10. CASE RemoveFinalizer
  <2>1. /\ inst'.exists = cr.exists /\ inst'.deleting = cr.deleting
        /\ inst'.fins = cr.fins \ {"base"}
    BY <1>1, <1>10, FinalizerWrites DEF Object
  <2>2. QED BY <1>2, <1>10, <2>1, FinalizerWrites DEF DeletionSeen
<1>11. CASE SaveStatus
  <2>1. /\ cr' = [cr EXCEPT !.status = inst.status] /\ cr.exists
        /\ cache' = cache /\ inst' = Gone /\ pc' = "idle"
        /\ (lag' = lag /\ cr' = cr) \/ lag' = "own"
    BY <1>11 DEF SaveStatus, OwnWrite, EndReconcile
  <2>2. cr'.exists = cr.exists /\ cr'.deleting = cr.deleting
    BY <1>1, <2>1 DEF Object
  <2>3. QED BY <1>2, <2>1, <2>2 DEF DeletionSeen
<1>12. QED
  BY <1>3, <1>4, <1>5, <1>6, <1>7, <1>8, <1>9, <1>10, <1>11, ObjectSteps

(* A deprovision job is listed only for a resource that is being deleted. *)
LEMMA ListsStayInOrder ==
  ASSUME Kept, DeletionSeen, ListsInOrder, [Next]_vars
  PROVE  ListsInOrder'
<1>1. cr \in Object /\ cache \in Object /\ inst \in Object
  BY DEF Kept, Parts, Sane
<1>2. ASSUME NEW o, o.status.jobs = << >> PROVE ListInOrder(o)
  BY <1>2, EmptySeq DEF ListInOrder, JobsOfType
<1>3. ListInOrder(Gone)
  BY <1>2 DEF Gone, NewObject, NoStatus
<1>4. CASE Elsewhere \/ CacheSync
  BY <1>4 DEF Elsewhere, CacheSync, ListsInOrder, ListInOrder
<1>5. CASE OthersWrite
  <2>1. ListInOrder(cr')
    <3>1. CASE cr'.exists
      BY <3>1, <1>5 DEF OthersWrite, WrittenByOthers, ListsInOrder, ListInOrder
    <3>2. CASE ~cr'.exists
      BY <1>2, <1>5, <3>2 DEF OthersWrite, WrittenByOthers
    <3>3. QED BY <3>1, <3>2
  <2>2. QED BY <1>5, <2>1 DEF OthersWrite, ListsInOrder, ListInOrder
<1>6. CASE ReconcileBegins
  <2>1. /\ inst'.deleting = cache.deleting
        /\ inst'.status.jobs = cache.status.jobs
    BY <1>1, <1>6 DEF ReconcileBegins, Object, Status
  <2>2. QED BY <1>6, <2>1 DEF ReconcileBegins, ListsInOrder, ListInOrder
<1>7. CASE HandlerGoesOn
  BY <1>7 DEF HandlerGoesOn, ListsInOrder, ListInOrder
<1>8. CASE ReconcileEnds
  BY <1>3, <1>8 DEF ReconcileEnds, ListsInOrder, ListInOrder
<1>9. CASE AddFinalizer
  <2>1. cr'.status = cr.status /\ cr'.deleting = cr.deleting
    BY <1>1, <1>9, FinalizerWrites DEF Object
  <2>2. QED BY <1>9, <2>1, FinalizerWrites DEF ListsInOrder, ListInOrder
<1>10. CASE RemoveFinalizer
  <2>1. inst'.status = cr.status /\ inst'.deleting = cr.deleting
    BY <1>1, <1>10, FinalizerWrites DEF Object
  <2>2. QED
    BY <1>3, <1>10, <2>1, FinalizerWrites DEF ListsInOrder, ListInOrder
<1>11. CASE SaveStatus
  <2>1. /\ cr' = [cr EXCEPT !.status = inst.status] /\ cr.exists
        /\ cache' = cache /\ inst' = Gone
    BY <1>11 DEF SaveStatus, OwnWrite, EndReconcile
  <2>2. cr'.status = inst.status /\ cr'.deleting = cr.deleting
    BY <1>1, <2>1 DEF Object
  <2>3. ListInOrder(cr')
    BY <2>1, <2>2 DEF DeletionSeen, ListsInOrder, ListInOrder
  <2>4. QED BY <1>3, <2>1, <2>3 DEF ListsInOrder, ListInOrder
<1>12. QED
  BY <1>4, <1>5, <1>6, <1>7, <1>8, <1>9, <1>10, <1>11, ObjectSteps

(* Either the jobs go on without a new one, or the new one is alone. *)
LEMMA JobsGoOnOrLaunch ==
  ASSUME Kept, [Next]_vars
  PROVE  NoneLaunched \/ \E type \in JobTypes : Launches(type)
<1>1. aap \in Seq(AAPJob) /\ infra \in BOOLEAN
  BY DEF Kept, Parts, Scalars
<1>2. ASSUME NEW j \in DOMAIN aap, JobEnds(j) PROVE NoneLaunched
  BY <1>1, <1>2, JobsEnd
<1>3. ASSUME JobsStay PROVE NoneLaunched
  BY <1>3 DEF JobsStay
<1>4. ASSUME NEW j \in DOMAIN aap, PlaybookCreates(j) PROVE NoneLaunched
  BY <1>4 DEF PlaybookCreates, NoneLaunched, Active
<1>5. QED BY <1>1, <1>2, <1>3, <1>4, JobSteps, JobsGoOn

(* Only the last job launched is at work, and the handlers are shown it. *)
LEMMA LastJobStaysTheOnlyOne ==
  ASSUME Kept, HInv, ~blind, ~BeginsBlind, [Next]_vars
  PROVE  LastJobOnly' /\ HandlerSees' /\ PurgedHaveEnded'
<1>1. LastJobOnly /\ HandlerSees /\ PurgedHaveEnded /\ DeletionSeen
  BY DEF HInv
<1>2. CASE NoneLaunched
  <2>1. LastJobOnly' /\ PurgedHaveEnded'
    BY <1>1, <1>2 DEF NoneLaunched, LastJobOnly, PurgedHaveEnded
  <2>2. ASSUME NEW jobs, Shown(jobs) PROVE Shown(jobs)'
    <3>1. /\ aap \in Seq(AAPJob) /\ aap' \in Seq(AAPJob)
          /\ Len(aap') = Len(aap) /\ DOMAIN aap = 1..Len(aap) /\ Len(aap) \in Nat
      BY <1>2, LenProperties DEF Kept, Parts, Scalars, NoneLaunched
    <3>2. aap' # << >> <=> aap # << >>
      BY <3>1, EmptySeq
    <3>3. aap # << >> => aap'[Len(aap)].type = aap[Len(aap)].type
      <4>1. aap # << >> => Len(aap) \in DOMAIN aap
        BY <3>1, EmptySeq
      <4>2. QED BY <1>2, <4>1 DEF NoneLaunched
    <3>4. QED BY <2>2, <3>1, <3>2, <3>3 DEF Shown
  <2>3. pc' \in LaunchSteps => Shown(inst'.status.jobs)
    <3>1. CASE pc = "idle"
      <4>1. pc' \in {"idle", "save", "finalizer", "update", "deprovision"}
        BY <3>1, ObjectSteps, <1>1, FinalizerWrites
           DEF Elsewhere, OthersWrite, ReconcileBegins, FirstStep,
           HandlerGoesOn, ReconcileEnds, CacheSync, AddFinalizer,
           RemoveFinalizer, SaveStatus, StatusToSave
      <4>2. QED BY <3>1, <4>1 DEF BeginsBlind, LaunchSteps
    <3>2. CASE pc # "idle" /\ pc' \in LaunchSteps
      <4>1. /\ pc \in LaunchSteps
            /\ inst'.status.jobs = inst.status.jobs
        BY <1>1, <3>2, ObjectSteps, FinalizerWrites
           DEF Elsewhere, OthersWrite, ReconcileBegins, HandlerGoesOn,
           ReconcileEnds, CacheSync, SaveStatus, EndReconcile, LaunchSteps
      <4>2. QED BY <1>1, <4>1 DEF HandlerSees
    <3>3. QED BY <3>1, <3>2
  <2>4. HandlerSees'
    BY <2>2, <2>3 DEF HandlerSees
  <2>5. QED BY <2>1, <2>4
<1>3. ASSUME NEW type \in JobTypes, Launches(type)
      PROVE  LastJobOnly' /\ HandlerSees' /\ PurgedHaveEnded'
  <2>1. NoneActive /\ AAPJobsOfType(aap, "deprovision") = {}
    BY <1>3, LaunchedAlone
  <2> DEFINE n == Len(aap) + 1
  <2>2. /\ Len(aap') = n /\ DOMAIN aap' = DOMAIN aap \cup {n}
        /\ aap'[n].purged = FALSE
        /\ \A j \in DOMAIN aap : aap'[j] = aap[j]
    BY <1>3, LaunchAdds DEF Launches
  <2>3. LastJobOnly'
    BY <2>1, <2>2 DEF LastJobOnly, NoneActive, AAPJobsOfType, Active
  <2>4. PurgedHaveEnded'
    BY <1>1, <2>2 DEF PurgedHaveEnded, Active
  <2>5. HandlerSees'
    BY <1>3 DEF Launches, HandlerSees, LaunchSteps
  <2>6. QED BY <2>3, <2>4, <2>5
<1>4. QED BY <1>2, <1>3, JobsGoOnOrLaunch

(* A job AAP has forgotten has ended, whatever the controller sees. *)
LEMMA PurgedStayEnded ==
  ASSUME Kept, PurgedHaveEnded, [Next]_vars
  PROVE  PurgedHaveEnded'
<1>1. CASE NoneLaunched
  BY <1>1 DEF NoneLaunched, PurgedHaveEnded
<1>2. ASSUME NEW type \in JobTypes, Launches(type) PROVE PurgedHaveEnded'
  BY <1>2, LaunchAdds DEF Launches, PurgedHaveEnded, Active
<1>3. QED BY <1>1, <1>2, JobsGoOnOrLaunch

(* The resource is held from before the first job until after the last. *)
LEMMA StaysHeldForJobs ==
  ASSUME Kept, HInv, ~blind, ~handed, ~HandsOver, [Next]_vars
  PROVE  HeldForJobs'
<1>1. /\ cr \in Object /\ cache \in Object /\ inst \in Object
      /\ aap \in Seq(AAPJob) /\ aap' \in Seq(AAPJob) /\ infra \in BOOLEAN
      /\ ReleaseJustified /\ DeletionSeen /\ HeldForJobs
      /\ Deprovisioned => Deprovisioned'
  BY DEF Kept, Parts, Scalars, Sane, HInv
<1>2. Gone.fins = {}
  BY DEF Gone, NewObject
<1>3. "base" \in cr.fins /\ "base" \notin cr'.fins => Deprovisioned
  <2>1. CASE RemoveFinalizer
    BY <1>1, <2>1 DEF RemoveFinalizer, ReleaseJustified, HandsOver
  <2>2. CASE AddFinalizer
    BY <1>1, <2>2, FinalizerWrites DEF Object
  <2>3. CASE SaveStatus
    BY <1>1, <2>3 DEF SaveStatus, OwnWrite, Object
  <2>4. CASE ~RemoveFinalizer /\ ~AddFinalizer /\ ~SaveStatus
    BY <1>1, <2>4, ObjectSteps DEF Elsewhere, OthersWrite, WrittenByOthers,
       ReconcileBegins, HandlerGoesOn, ReconcileEnds, CacheSync
  <2>5. QED BY <2>1, <2>2, <2>3, <2>4
<1>5. ASSUME NEW o \in {cache', inst'}, "base" \in o.fins
      PROVE  "base" \in cr'.fins \/ Deprovisioned'
  <2>1. \/ "base" \in cr'.fins
        \/ \E x \in {cr, cache, inst} : "base" \in x.fins
    <3>1. CASE ReconcileBegins
      <4>1. inst'.fins = cache.fins
        BY <1>1, <3>1 DEF ReconcileBegins, Object
      <4>2. QED BY <1>5, <3>1, <4>1 DEF ReconcileBegins
    <3>2. CASE AddFinalizer
      BY <1>1, <3>2, FinalizerWrites DEF Object
    <3>3. CASE RemoveFinalizer
      <4>1. inst'.fins = cr.fins \ {"base"}
        BY <1>1, <3>3, FinalizerWrites DEF Object
      <4>2. QED BY <1>1, <1>5, <3>3, <4>1, FinalizerWrites
    <3>4. CASE SaveStatus
      BY <1>2, <1>5, <3>4 DEF SaveStatus, OwnWrite, EndReconcile
    <3>5. CASE ~ReconcileBegins /\ ~AddFinalizer /\ ~RemoveFinalizer /\ ~SaveStatus
      BY <1>1, <1>2, <1>5, <3>5, ObjectSteps DEF Elsewhere, OthersWrite,
         HandlerGoesOn, ReconcileEnds, CacheSync
    <3>6. QED BY <3>1, <3>2, <3>3, <3>4, <3>5
  <2>2. QED BY <1>1, <1>3, <2>1 DEF HeldForJobs
<1>6. "base" \notin cr'.fins => Deprovisioned' \/ aap' = << >>
  <2>1. SUFFICES ASSUME "base" \notin cr'.fins, ~Deprovisioned' PROVE aap' = << >>
    OBVIOUS
  <2>2. "base" \notin cr.fins /\ aap = << >>
    BY <1>1, <1>3, <2>1 DEF HeldForJobs
  <2>3. CASE NoneLaunched
    BY <1>1, <2>2, <2>3, EmptySeq DEF NoneLaunched
  <2>4. ASSUME NEW type \in JobTypes, Launches(type) PROVE FALSE
    BY <1>1, <2>1, <2>2, <2>4, LaunchedAlone DEF HeldForJobs
  <2>5. QED BY <2>3, <2>4, JobsGoOnOrLaunch
<1>7. aap' = << >> => ~infra'
  <2>1. SUFFICES ASSUME aap' = << >> PROVE ~infra'
    OBVIOUS
  <2>2. CASE NoneLaunched
    <3>1. aap = << >> /\ DOMAIN aap = {}
      BY <1>1, <2>1, <2>2, EmptySeq DEF NoneLaunched
    <3>2. ~infra /\ infra' = infra
      BY <1>1, <3>1, JobSteps DEF HeldForJobs, CancelProvisionJob, Launches
    <3>3. QED BY <3>2
  <2>3. ASSUME NEW type \in JobTypes, Launches(type) PROVE FALSE
    BY <2>1, <2>3, LaunchAdds DEF Launches
  <2>4. QED BY <2>2, <2>3, JobsGoOnOrLaunch
<1>8. QED BY <1>5, <1>6, <1>7 DEF HeldForJobs

(* After the deprovision job only a cancelled job brings a machine back. *)
LEMMA NothingComesBack ==
  ASSUME Kept, HInv, ~blind, ~Strays, Deprovisioned => ~infra, [Next]_vars
  PROVE  Deprovisioned' => ~infra'
<1>1. aap \in Seq(AAPJob) /\ infra \in BOOLEAN /\ LastJobOnly
  BY DEF Kept, Parts, Scalars, HInv
<1>2. CASE JobsStay
  BY <1>2 DEF JobsStay, NoneLaunched, Deprovisioned
<1>3. ASSUME NEW j \in DOMAIN aap, JobEnds(j)
      PROVE  Deprovisioned' => ~infra'
  <2>1. /\ NoneLaunched
        /\ \A k \in DOMAIN aap : k # j => aap'[k] = aap[k]
        /\ IF aap[j].type = "deprovision" /\ aap'[j].status = "successful"
           THEN infra' = FALSE ELSE infra' = infra
    BY <1>1, <1>3, JobsEnd
  <2>2. QED BY <2>1 DEF NoneLaunched, Deprovisioned
<1>4. ASSUME NEW j \in DOMAIN aap, PlaybookCreates(j)
      PROVE  Deprovisioned' => ~infra'
  <2>1. aap' = aap /\ ~infra /\ infra'
    BY <1>4 DEF PlaybookCreates
  <2>2. PICK k \in DOMAIN aap : aap[k].type = "provision" /\ Active(k)
    BY <2>1 DEF Strays, Active, AAPActive
  <2>3. \A i \in DOMAIN aap : aap[i].type # "deprovision"
    BY <1>1, <2>2 DEF LastJobOnly
  <2>4. QED BY <2>1, <2>3 DEF Deprovisioned
<1>5. ASSUME NEW type \in JobTypes, Launches(type)
      PROVE  Deprovisioned' => ~infra'
  <2> DEFINE n == Len(aap) + 1
  <2>1. /\ DOMAIN aap' = DOMAIN aap \cup {n} /\ aap'[n].status = "pending"
        /\ \A j \in DOMAIN aap : aap'[j] = aap[j]
        /\ infra' = infra
    BY <1>5, LaunchAdds DEF Launches
  <2>2. QED BY <2>1 DEF Deprovisioned
<1>6. QED BY <1>1, <1>2, <1>3, <1>4, <1>5, JobSteps, JobsGoOn

(* Before the first job everything is in order. *)
LEMMA HInvInit == HInit => HInv
<1> SUFFICES ASSUME HInit PROVE HInv
  OBVIOUS
<1>1. /\ aap = << >> /\ DOMAIN aap = {} /\ ~infra /\ pc = "idle"
      /\ lag = "none" /\ cr = NewObject /\ cache = NewObject /\ inst = Gone
  BY EmptySeq DEF HInit, Init
<1>2. /\ NewObject.exists /\ ~NewObject.deleting /\ NewObject.fins = {}
      /\ ~Gone.deleting /\ Gone.fins = {}
  BY DEF Gone, NewObject
<1>3. \A o \in {cr, cache, inst} : ListInOrder(o)
  <2>1. << >> = NewObject.status.jobs /\ << >> = Gone.status.jobs
    BY DEF Gone, NewObject, NoStatus
  <2>2. JobsOfType(<< >>, "deprovision") = {}
    BY EmptySeq DEF JobsOfType
  <2>3. QED BY <1>1, <2>1, <2>2 DEF ListInOrder
<1>4. DeletionSeen
  BY <1>1, <1>2 DEF DeletionSeen
<1>5. LastJobOnly /\ PurgedHaveEnded /\ HandlerSees
  BY <1>1 DEF LastJobOnly, PurgedHaveEnded, HandlerSees, LaunchSteps
<1>6. HeldForJobs
  BY <1>1, <1>2 DEF HeldForJobs
<1>7. QED BY <1>1, <1>3, <1>4, <1>5, <1>6 DEF HInv

(* Every step keeps the invariant. *)
LEMMA HInvNext == IInv /\ HInv /\ [HNext]_hvars => HInv'
<1> SUFFICES ASSUME IInv, HInv, [HNext]_hvars PROVE HInv'
  OBVIOUS
<1>1. [Next]_vars
  BY DEF HNext, hvars
<1>2. Kept
  BY <1>1, KeptHolds
<1>3. DeletionSeen /\ ListsInOrder /\ PurgedHaveEnded
  BY DEF HInv, ListsInOrder
<1>4. DeletionSeen' /\ ListsInOrder' /\ PurgedHaveEnded'
  BY <1>1, <1>2, <1>3, DeletionStaysSeen, ListsStayInOrder, PurgedStayEnded
<1>6. CASE UNCHANGED hvars
  BY <1>6 DEF HInv, hvars, history, vars, ListInOrder, DeletionSeen,
     PurgedHaveEnded, LastJobOnly, HandlerSees, HeldForJobs, Active, Shown,
     Deprovisioned
<1>7. CASE HNext
  <2>1. /\ ~blind' => ~blind /\ ~BeginsBlind
        /\ ~strayed' => ~strayed /\ ~Strays
        /\ ~handed' => ~handed /\ ~HandsOver
    BY <1>7 DEF HNext
  <2>2. ~blind' => LastJobOnly' /\ HandlerSees'
    BY <1>1, <1>2, <2>1, LastJobStaysTheOnlyOne
  <2>3. ~blind' /\ ~handed' => HeldForJobs'
    BY <1>1, <1>2, <2>1, StaysHeldForJobs
  <2>4. ~blind' /\ ~strayed' => (Deprovisioned' => ~infra')
    BY <1>1, <1>2, <2>1, NothingComesBack DEF HInv
  <2>5. QED BY <1>4, <2>2, <2>3, <2>4 DEF HInv, ListsInOrder
<1>8. QED BY <1>6, <1>7

-----------------------------------------------------------------------------
(* One job at a time, and nothing left behind *)

(* A behavior with its history is a behavior. *)
LEMMA HistoryOfABehavior == HSpec => Spec
<1>1. HInit => Init
  BY DEF HInit
<1>2. [HNext]_hvars => [Next]_vars
  BY DEF HNext, hvars
<1>3. QED BY <1>1, <1>2, PTL DEF HSpec, Spec

(***************************************************************************)
(* The inductive invariant: only the last job launched can be at work, a   *)
(* handler that may launch one is shown it in its list, and the resource   *)
(* is held as long as a job is, up to the history variables each part      *)
(* names and whatever the faults.                                          *)
(***************************************************************************)
THEOREM HistoryInvariantHolds == HSpec => []HInv
BY HistoryOfABehavior, InvariantHolds, HInvInit, HInvNext, PTL DEF HSpec

(***************************************************************************)
(* Two jobs work on a resource at once only after a handler began without  *)
(* the record of the last launch, whatever faults, errors, conflicts and   *)
(* management states there are.                                            *)
(***************************************************************************)
THEOREM OneJobAtATime == HSpec => []SerialJobs
<1>1. HInv => SerialJobs
  BY DEF HInv, SerialJobs, LastJobOnly, AtMostOneActiveJob
<1>2. QED BY <1>1, HistoryInvariantHolds, PTL

(***************************************************************************)
(* A resource that is gone has left no provision job behind and no virtual *)
(* machine but one that a cancelled job created, unless it was handed over *)
(* or a handler began without the record of the last launch.               *)
(***************************************************************************)
THEOREM NothingOrphaned == HSpec => []NothingLeft
<1>1. IInv /\ HInv => NothingLeft
  <2>1. SUFFICES ASSUME IInv, HInv, ~blind, ~handed, ~cr.exists
                 PROVE  /\ \A j \in DOMAIN aap :
                             aap[j].type = "provision" => ~Active(j)
                        /\ infra => strayed
    BY DEF NothingLeft
  <2>2. /\ LastJobOnly /\ HeldForJobs
        /\ ~strayed => (Deprovisioned => ~infra)
        /\ "base" \notin cr.fins
    BY <2>1 DEF HInv, DeletionSeen
  <2>3. CASE aap = << >>
    <3>1. DOMAIN aap = {} /\ ~infra
      BY <2>2, <2>3, EmptySeq DEF HeldForJobs
    <3>2. QED BY <3>1
  <2>4. CASE Deprovisioned
    <3>1. PICK k \in DOMAIN aap : aap[k].type = "deprovision"
      BY <2>4 DEF Deprovisioned
    <3>2. \A j \in DOMAIN aap : aap[j].type = "provision" => ~Active(j)
      BY <2>2, <3>1 DEF LastJobOnly
    <3>3. QED BY <2>2, <2>4, <3>2
  <2>5. QED BY <2>2, <2>3, <2>4 DEF HeldForJobs
<1>2. QED
  BY <1>1, HistoryInvariantHolds, HistoryOfABehavior, InvariantHolds, PTL

-----------------------------------------------------------------------------
(* The refinement *)

(* The job at work, when there is at most one. *)
WorkKnown ==
  /\ NoneActive => Work = "none"
  /\ \A j \in DOMAIN aap : Active(j) => Work = aap[j].type

(* Work is the type of the active job, or none. *)
LEMMA WorkIsTheActiveJob == AtMostOneActiveJob => WorkKnown
<1> SUFFICES ASSUME AtMostOneActiveJob PROVE WorkKnown
  OBVIOUS
<1>1. NoneActive => Work = "none"
  BY DEF NoneActive, Work
<1>2. ASSUME NEW j \in DOMAIN aap, Active(j) PROVE Work = aap[j].type
  <2>1. \A k \in DOMAIN aap : Active(k) <=> k = j
    BY <1>2 DEF AtMostOneActiveJob
  <2> DEFINE c == CHOOSE i \in DOMAIN aap : Active(i)
  <2>2. c \in DOMAIN aap /\ Active(c)
    BY <1>2
  <2>3. c = j
    BY <2>1, <2>2
  <2>4. Work = aap[c].type
    BY <1>2, <2>1 DEF Work
  <2>5. QED BY <2>3, <2>4
<1>3. QED BY <1>1, <1>2 DEF WorkKnown

(* The stage, from the jobs of AAP. *)
StageKnown ==
  /\ Deprovisioned => Stage = "clean"
  /\ ~Deprovisioned /\ AAPJobsOfType(aap, "deprovision") # {}
       => Stage = "leaving"
  /\ ~Deprovisioned /\ AAPJobsOfType(aap, "deprovision") = {}
       => Stage = "serving"

(* The three cases of Stage. *)
LEMMA StageIs == StageKnown
BY DEF StageKnown, Stage, AAPJobsOfType

(* Jobs that stay what they are leave the work and the stage alone. *)
LEMMA SameWork ==
  ASSUME JobsStay, AtMostOneActiveJob, AtMostOneActiveJob'
  PROVE  Work' = Work /\ Stage' = Stage
<1>1. WorkKnown /\ WorkKnown' /\ StageKnown /\ StageKnown'
  BY WorkIsTheActiveJob, StageIs, PTL
<1>2. Work' = Work
  <2>1. CASE NoneActive
    <3>1. NoneActive'
      BY <2>1 DEF NoneActive, JobsStay, NoneLaunched
    <3>2. QED BY <1>1, <2>1, <3>1 DEF WorkKnown
  <2>2. CASE ~NoneActive
    <3>1. PICK j \in DOMAIN aap : Active(j)
      BY <2>2 DEF NoneActive
    <3>2. QED BY <1>1, <3>1 DEF WorkKnown, JobsStay, NoneLaunched
  <2>3. QED BY <2>1, <2>2
<1>3. AAPJobsOfType(aap', "deprovision") = AAPJobsOfType(aap, "deprovision")
  BY DEF AAPJobsOfType, JobsStay, NoneLaunched
<1>4. Deprovisioned' <=> Deprovisioned
  BY DEF Deprovisioned, JobsStay, NoneLaunched
<1>5. Stage' = Stage
  BY <1>1, <1>3, <1>4 DEF StageKnown
<1>6. QED BY <1>2, <1>5

(* As long as the conditions of the promise hold, what Provisioning allows. *)
LEMMA PromisedStep ==
  ASSUME ~blind, ~strayed, ~handed, ~blind', ~strayed', ~handed',
         P!Promised \/ UNCHANGED <<Work, infra, Stage, Held>>
  PROVE  [P!Next]_(P!vars)
BY DEF P!Next, P!vars

(* What others write is a deletion, or cannot be seen. *)
LEMMA HeldByOthers ==
  ASSUME WrittenByOthers
  PROVE  Held' = Held \/ (Held = "no" /\ Held' = "over")
BY DEF WrittenByOthers, Held

(* A write of the resource takes hold of it or lets it go. *)
LEMMA HeldStep ==
  ASSUME aap' = aap, infra' = infra,
         \/ Held' = Held
         \/ Held = "no" /\ Held' \in {"yes", "over"}
         \/ Held = "yes" /\ Held' = "over" /\ Stage = "clean"
  PROVE  P!Promised \/ UNCHANGED <<Work, infra, Stage, Held>>
<1>1. Work' = Work /\ Stage' = Stage
  BY DEF Work, Stage, Deprovisioned, Active
<1>2. QED BY <1>1 DEF P!Promised, P!Hold, P!Release

(* The end of a job is the end of the work, done or not. *)
LEMMA EndRefines ==
  ASSUME aap \in Seq(AAPJob), infra \in BOOLEAN, Held' = Held,
         LastJobOnly, LastJobOnly', NEW j \in DOMAIN aap, JobEnds(j)
  PROVE  P!Promised
<1>1. /\ NoneLaunched /\ Active(j) /\ ~Active(j)'
      /\ \A k \in DOMAIN aap : k # j => aap'[k] = aap[k]
      /\ IF aap[j].type = "deprovision" /\ aap'[j].status = "successful"
         THEN infra' = FALSE ELSE infra' = infra
  BY JobsEnd
<1>2. AtMostOneActiveJob /\ AtMostOneActiveJob'
  BY DEF LastJobOnly, AtMostOneActiveJob
<1>3. WorkKnown /\ WorkKnown' /\ StageKnown /\ StageKnown'
  BY <1>2, WorkIsTheActiveJob, StageIs, PTL
<1>4. aap[j] \in AAPJob
  BY LenProperties, ElementOfSeq
<1>5. Work = aap[j].type /\ Work # "none"
  BY <1>1, <1>3, <1>4 DEF WorkKnown, AAPJob, JobTypes
<1>6. Work' = "none"
  <2>1. NoneActive'
    BY <1>1, <1>2 DEF NoneActive, NoneLaunched, AtMostOneActiveJob, Active
  <2>2. QED BY <1>3, <2>1 DEF WorkKnown
<1>7. ~Deprovisioned
  <2>1. \A k \in DOMAIN aap : aap[k].type = "deprovision" => k = j
    BY <1>1 DEF LastJobOnly
  <2>2. aap[j].status # "successful"
    BY <1>1 DEF Active, AAPActive
  <2>3. QED BY <2>1, <2>2 DEF Deprovisioned
<1>8. CASE aap[j].type = "deprovision" /\ aap'[j].status = "successful"
  <2>1. Deprovisioned'
    BY <1>1, <1>8 DEF Deprovisioned, NoneLaunched
  <2>2. Stage' = "clean" /\ infra' = FALSE
    BY <1>1, <1>3, <1>8, <2>1 DEF StageKnown
  <2>3. QED BY <1>5, <1>6, <1>8, <2>2 DEF P!Promised, P!DeprovisionDone
<1>9. CASE ~(aap[j].type = "deprovision" /\ aap'[j].status = "successful")
  <2>1. ~Deprovisioned'
    BY <1>1, <1>7, <1>9 DEF Deprovisioned, NoneLaunched
  <2>2. AAPJobsOfType(aap', "deprovision") = AAPJobsOfType(aap, "deprovision")
    BY <1>1 DEF AAPJobsOfType, NoneLaunched
  <2>3. Stage' = Stage
    BY <1>3, <1>7, <2>1, <2>2 DEF StageKnown
  <2>4. QED BY <1>1, <1>5, <1>6, <1>9, <2>3 DEF P!Promised, P!End
<1>10. QED BY <1>8, <1>9

(* A provision job creates the virtual machine while it is at work. *)
LEMMA CreationRefines ==
  ASSUME Held' = Held, AtMostOneActiveJob, ~Strays,
         NEW j \in DOMAIN aap, PlaybookCreates(j)
  PROVE  P!Promised
<1>1. ~infra /\ infra' = TRUE /\ aap' = aap
  BY DEF PlaybookCreates
<1>2. PICK k \in DOMAIN aap : aap[k].type = "provision" /\ Active(k)
  BY <1>1 DEF Strays, Active, AAPActive
<1>3. Work = "provision"
  BY <1>2, WorkIsTheActiveJob DEF WorkKnown
<1>4. Work' = Work /\ Stage' = Stage
  BY <1>1 DEF Work, Stage, Deprovisioned, Active
<1>5. QED BY <1>1, <1>3, <1>4 DEF P!Promised, P!CreateVM

(* The launch of a job is the start of its work. *)
LEMMA LaunchRefines ==
  ASSUME Kept, HInv, LastJobOnly', ~blind, ~handed,
         NEW type \in JobTypes, Launches(type)
  PROVE  P!Promised
<1>1. /\ NoneActive /\ AAPJobsOfType(aap, "deprovision") = {}
      /\ type = "provision" => aap = << >>
      /\ "base" \in inst.fins
  BY LaunchedAlone
<1>2. UNCHANGED <<cr, infra>>
  BY DEF Launches
<1>3. ~Deprovisioned /\ "base" \in cr.fins
  <2>1. ~Deprovisioned
    BY <1>1 DEF Deprovisioned, AAPJobsOfType
  <2>2. QED BY <1>1, <2>1 DEF HInv, HeldForJobs
<1>4. Held = "yes" /\ Held' = "yes"
  BY <1>2, <1>3 DEF Held
<1>5. /\ AtMostOneActiveJob /\ AtMostOneActiveJob'
  BY <1>1 DEF LastJobOnly, AtMostOneActiveJob, NoneActive
<1>6. WorkKnown /\ WorkKnown' /\ StageKnown /\ StageKnown'
  BY <1>5, WorkIsTheActiveJob, StageIs, PTL
<1>7. Work = "none" /\ Stage = "serving"
  BY <1>1, <1>3, <1>6 DEF WorkKnown, StageKnown
<1>8. PICK n : /\ DOMAIN aap' = DOMAIN aap \cup {n}
               /\ aap'[n].type = type /\ aap'[n].status = "pending"
               /\ \A j \in DOMAIN aap : aap'[j] = aap[j]
  BY LaunchAdds DEF Launches
<1>9. Work' = type
  <2>1. n \in DOMAIN aap' /\ Active(n)'
    BY <1>8 DEF Active, AAPActive
  <2>2. QED BY <1>6, <1>8, <2>1 DEF WorkKnown
<1>10. ~Deprovisioned'
  BY <1>3, <1>8 DEF Deprovisioned
<1>11. CASE type = "provision"
  <2>1. AAPJobsOfType(aap', "deprovision") = {}
    BY <1>1, <1>8, <1>11 DEF AAPJobsOfType
  <2>2. Stage' = "serving"
    BY <1>6, <1>10, <2>1 DEF StageKnown
  <2>3. QED
    BY <1>2, <1>4, <1>7, <1>9, <1>11, <2>2 DEF P!Promised, P!StartProvision
<1>12. CASE type = "deprovision"
  <2>1. AAPJobsOfType(aap', "deprovision") # {}
    BY <1>8, <1>12 DEF AAPJobsOfType
  <2>2. Stage' = "leaving"
    BY <1>6, <1>10, <2>1 DEF StageKnown
  <2>3. QED
    BY <1>2, <1>4, <1>7, <1>9, <1>12, <2>2 DEF P!Promised, P!StartDeprovision
<1>13. QED BY <1>11, <1>12 DEF JobTypes

(* The controller takes hold of the resource and lets it go. *)
LEMMA FinalizersRefine ==
  ASSUME Kept, HInv, ~HandsOver, AddFinalizer \/ RemoveFinalizer
  PROVE  P!Promised \/ UNCHANGED <<Work, infra, Stage, Held>>
<1>1. /\ cr \in Object /\ DeletionSeen /\ ReleaseJustified
      /\ aap' = aap /\ infra' = infra
  BY FinalizerWrites DEF Kept, Parts, Sane, HInv
<1>2. CASE AddFinalizer
  <2>1. "base" \in cr'.fins /\ cr.exists /\ ~cr.deleting
    BY <1>1, <1>2, FinalizerWrites DEF Object
  <2>2. Held \in {"yes", "no"} /\ Held' = "yes"
    BY <2>1 DEF Held
  <2>3. QED BY <1>1, <2>2, HeldStep
<1>3. CASE RemoveFinalizer
  <2>1. /\ pc = "release" /\ inst' = [cr EXCEPT !.fins = cr.fins \ {"base"}]
        /\ cr' = inst' \/ cr' = Gone
        /\ cr.deleting \/ ~cr.exists
    BY <1>1, <1>3, FinalizerWrites
  <2>2. /\ "base" \notin cr'.fins
        /\ cr'.deleting \/ ~cr'.exists
    BY <1>1, <2>1 DEF Object, Gone, NewObject
  <2>3. Held \in {"yes", "over"} /\ Held' = "over"
    BY <2>1, <2>2 DEF Held
  <2>4. Held = "yes" => Stage = "clean"
    <3>1. Held = "yes" => "base" \in cr.fins
      BY DEF Held
    <3>2. "base" \in cr.fins => Deprovisioned
      BY <1>1, <2>1, <2>2 DEF ReleaseJustified, HandsOver
    <3>3. QED BY <3>1, <3>2, StageIs DEF StageKnown
  <2>5. QED BY <1>1, <2>3, <2>4, HeldStep
<1>4. QED BY <1>2, <1>3

(* Only the steps above, and what others write, change who holds it. *)
LEMMA HeldOtherwise ==
  ASSUME Kept, DeletionSeen, [Next]_vars, ~AddFinalizer, ~RemoveFinalizer
  PROVE  Held' = Held \/ OthersWrite
<1>1. cr \in Object
  BY DEF Kept, Parts, Sane
<1>2. CASE SaveStatus
  <2>1. cr' = [cr EXCEPT !.status = inst.status]
    BY <1>2 DEF SaveStatus, OwnWrite
  <2>2. QED BY <1>1, <2>1 DEF Held, Object
<1>3. CASE ~SaveStatus
  <2>1. cr' = cr \/ OthersWrite
    BY <1>3, ObjectSteps DEF Elsewhere, ReconcileBegins, HandlerGoesOn,
       ReconcileEnds, CacheSync
  <2>2. QED BY <2>1 DEF Held
<1>4. QED BY <1>2, <1>3

(***************************************************************************)
(* As long as the conditions hold, every step is one of the abstract       *)
(* specification or cannot be seen there.                                  *)
(***************************************************************************)
LEMMA SoundStepRefines ==
  ASSUME Kept, HInv, HInv', [Next]_vars, ~blind, ~handed, ~blind',
         ~Strays, ~HandsOver
  PROVE  P!Promised \/ UNCHANGED <<Work, infra, Stage, Held>>
<1>1. /\ aap \in Seq(AAPJob) /\ infra \in BOOLEAN /\ DeletionSeen
      /\ LastJobOnly /\ LastJobOnly'
  BY DEF Kept, Parts, Scalars, HInv
<1>2. AtMostOneActiveJob /\ AtMostOneActiveJob'
  BY <1>1 DEF LastJobOnly, AtMostOneActiveJob
<1>3. CASE AddFinalizer \/ RemoveFinalizer
  BY <1>3, FinalizersRefine
<1>4. CASE OthersWrite
  <2>1. aap' = aap /\ infra' = infra /\ WrittenByOthers
    BY <1>4 DEF OthersWrite
  <2>2. QED BY <2>1, HeldByOthers, HeldStep
<1>5. ASSUME NEW type \in JobTypes, Launches(type) PROVE P!Promised
  BY <1>1, <1>5, LaunchRefines
<1>6. CASE Held' = Held
  <2>1. ASSUME NEW j \in DOMAIN aap, JobEnds(j) PROVE P!Promised
    BY <1>1, <1>6, <2>1, EndRefines
  <2>2. ASSUME NEW j \in DOMAIN aap, PlaybookCreates(j) PROVE P!Promised
    BY <1>2, <1>6, <2>2, CreationRefines
  <2>3. ASSUME JobsStay PROVE UNCHANGED <<Work, infra, Stage, Held>>
    BY <1>2, <1>6, <2>3, SameWork DEF JobsStay
  <2>4. QED BY <1>1, <1>5, <2>1, <2>2, <2>3, JobSteps, JobsGoOn
<1>7. QED BY <1>1, <1>3, <1>4, <1>6, HeldOtherwise

(* A step after which a condition has failed is one of them, too. *)
LEMMA NextRefines ==
  ASSUME IInv, HInv, HInv', [HNext]_hvars
  PROVE  [P!Next]_(P!vars)
<1>1. [Next]_vars
  BY DEF HNext, hvars
<1>2. Kept
  BY <1>1, KeptHolds
<1>3. CASE blind' \/ strayed' \/ handed'
  BY <1>3 DEF P!Next, P!Fail
<1>4. CASE ~blind' /\ ~strayed' /\ ~handed' /\ HNext
  <2>1. /\ ~blind /\ ~strayed /\ ~Strays /\ ~handed /\ ~HandsOver
    BY <1>4 DEF HNext
  <2>2. P!Promised \/ UNCHANGED <<Work, infra, Stage, Held>>
    BY <1>1, <1>2, <1>4, <2>1, SoundStepRefines
  <2>3. QED BY <1>4, <2>1, <2>2, PromisedStep
<1>5. CASE UNCHANGED hvars
  <2>1. /\ UNCHANGED <<Work, infra, Stage, Held, blind, strayed, handed>>
    BY <1>5 DEF hvars, history, vars, Work, Stage, Held, Deprovisioned, Active
  <2>2. QED BY <2>1 DEF P!vars
<1>6. QED BY <1>3, <1>4, <1>5

(* A new resource is one that nothing works on. *)
LEMMA InitRefines == HInit => P!Init
<1> SUFFICES ASSUME HInit PROVE P!Init
  OBVIOUS
<1>1. DOMAIN aap = {} /\ infra = FALSE
  BY EmptySeq DEF HInit, Init
<1>2. NoneActive /\ ~Deprovisioned /\ AAPJobsOfType(aap, "deprovision") = {}
  BY <1>1 DEF NoneActive, Deprovisioned, AAPJobsOfType
<1>3. AtMostOneActiveJob
  BY <1>1 DEF AtMostOneActiveJob
<1>4. Work = "none" /\ Stage = "serving"
  BY <1>2, <1>3, WorkIsTheActiveJob, StageIs DEF WorkKnown, StageKnown
<1>5. Held = "no"
  BY DEF HInit, Init, Held, NewObject
<1>6. ~blind /\ ~strayed /\ ~handed
  BY DEF HInit
<1>7. QED BY <1>1, <1>4, <1>5, <1>6 DEF P!Init

(***************************************************************************)
(* The controller, the API server and AAP implement module Provisioning:   *)
(* every step is one of its steps or cannot be seen there, whatever the    *)
(* faults, until a handler begins without the record of the last launch, a *)
(* cancelled job creates a virtual machine or a manual resource is given   *)
(* up.                                                                     *)
(***************************************************************************)
THEOREM ControllerProvisions == HSpec => Provisions
<1>1. IInv /\ HInv /\ HInv' /\ [HNext]_hvars => [P!Next]_(P!vars)
  BY NextRefines
<1>2. QED
  BY <1>1, InitRefines, InvariantHolds, HistoryOfABehavior,
     HistoryInvariantHolds, PTL DEF HSpec, Provisions, P!Spec

-----------------------------------------------------------------------------
(* No wake-up is lost: the invariant *)

(* The reconcile under way will be followed by no other that is called for
   already: it has to do all that is to be done. *)
LastTurn == pc # "idle" /\ ~queued /\ lag = "none"

SameButStatus(o, p) ==
  /\ o.exists = p.exists /\ o.deleting = p.deleting /\ o.fins = p.fins
  /\ o.spec = p.spec /\ o.annot = p.annot /\ o.mgmt = p.mgmt

(* Storing the local status is an event, since it differs from the stored. *)
WillBeStored(o) ==
  ~o.deleting /\ "base" \in o.fins /\ ~old.tenantRef /\ o.status.tenantRef

(* Then the local copy is that of the stored resource, and the steps of the
   handlers are those for it, to the end. *)
CopyIsCurrent ==
  LastTurn =>
    /\ cr.exists /\ cr.mgmt # "unmanaged"
    /\ SameButStatus(inst, cr)
    /\ old = cr.status
    /\ pc = "finalizer" => ~cr.deleting /\ "base" \notin cr.fins
    /\ pc \in {"update", "provision"} => ~cr.deleting /\ "base" \in cr.fins
    /\ pc = "update" => inst.status.tenantRef = old.tenantRef
    /\ pc \in {"deprovision", "cancel", "release"} =>
         cr.deleting /\ "base" \in cr.fins
    /\ pc = "save" => NothingToDo(inst) \/ WillBeStored(inst)

RestInv ==
  /\ lag = "none" => cache = cr
  /\ RestsWhenDone
  /\ CopyIsCurrent

(* What there is to do depends on the jobs of the status only. *)
LEMMA SameToDo ==
  ASSUME NEW o, NEW p, SameButStatus(o, p), o.status.jobs = p.status.jobs
  PROVE  NothingToDo(o) <=> NothingToDo(p)
BY DEF SameButStatus, NothingToDo, Provisioned, InSync

(* The latest job is the one that precedes no other. *)
LEMMA LatestIs ==
  ASSUME NEW jobs \in Seq(JobStatus), NEW type,
         NEW p \in JobsOfType(jobs, type),
         \A k \in JobsOfType(jobs, type) : Before(jobs, k, p)
  PROVE  FindLatestJobByType(jobs, type) = p
<1> DEFINE q == FindLatestJobByType(jobs, type)
<1>1. /\ DOMAIN jobs = 1..Len(jobs) /\ Len(jobs) \in Nat
      /\ \A k \in DOMAIN jobs : jobs[k] \in JobStatus
  BY LenProperties, ElementOfSeq
<1>2. \A k \in DOMAIN jobs : k \in Nat /\ jobs[k].ts \in Nat
  BY <1>1 DEF JobStatus
<1>3. q # 0
  BY FindLatestResult
<1>4. /\ q \in JobsOfType(jobs, type) /\ jobs[p].ts <= jobs[q].ts
      /\ p < q => jobs[p].ts < jobs[q].ts
  BY <1>3, LatestIsFirstOfTheLatest
<1> HIDE DEF q
<1>5. q \in DOMAIN jobs /\ p \in DOMAIN jobs /\ Before(jobs, q, p)
  BY <1>4 DEF JobsOfType
<1>6. q \in Nat /\ p \in Nat /\ jobs[p].ts \in Nat /\ jobs[q].ts \in Nat
  BY <1>2, <1>5
<1>7. q = p
  BY <1>4, <1>5, <1>6 DEF Before
<1>8. QED BY <1>7 DEF q

(* Recording a state of the latest job makes a latest job of that state, even
   if the ID of the job were that of others. *)
LEMMA LatestOfWithState ==
  ASSUME NEW jobs \in Seq(JobStatus), NEW type, NEW state \in JobStates,
         FindLatestJobByType(jobs, type) # 0
  PROVE  LET p   == FindLatestJobByType(jobs, type)
             new == WithState(jobs, p, state)
             q   == FindLatestJobByType(new, type)
         IN  /\ q # 0 /\ new[q].state = state /\ new[q].id = jobs[p].id
<1> DEFINE p   == FindLatestJobByType(jobs, type)
           job == [jobs[p] EXCEPT !.state = state]
           k   == findJobByID(jobs, jobs[p].id)
           new == WithState(jobs, p, state)
           q   == FindLatestJobByType(new, type)
<1>1. /\ DOMAIN jobs = 1..Len(jobs) /\ Len(jobs) \in Nat
      /\ \A n \in DOMAIN jobs : jobs[n] \in JobStatus
  BY LenProperties, ElementOfSeq
<1>2. \A n \in DOMAIN jobs : n \in Nat /\ jobs[n].ts \in Nat
  BY <1>1 DEF JobStatus
<1>3. /\ p \in DOMAIN jobs /\ jobs[p] \in JobStatus /\ jobs[p].type = type
      /\ \A n \in JobsOfType(jobs, type) :
           /\ jobs[n].ts <= jobs[p].ts
           /\ n < p => jobs[n].ts < jobs[p].ts
  BY FindLatestResult, LatestIsFirstOfTheLatest
<1>4. /\ job \in JobStatus /\ job.id = jobs[p].id /\ job.state = state
      /\ job.type = type /\ job.ts = jobs[p].ts
  BY <1>3 DEF JobStatus
<1>5. k \in DOMAIN jobs /\ jobs[k].id = jobs[p].id /\ k # 0
  BY <1>3, FindByIDResult
<1> HIDE DEF p, job, k
<1>6. k <= p
  <2>1. k \in {i \in DOMAIN jobs : jobs[i].id = jobs[p].id}
    BY <1>5
  <2>2. PICK m \in {i \in DOMAIN jobs : jobs[i].id = jobs[p].id} :
               \A n \in {i \in DOMAIN jobs : jobs[i].id = jobs[p].id} : m <= n
    BY <1>2, <2>1, LeastNatural
  <2>3. \A n \in {i \in DOMAIN jobs : jobs[i].id = jobs[p].id} : k <= n
    BY <2>2, <2>1 DEF k, findJobByID
  <2>4. QED BY <1>3, <2>3
<1>7. new = [jobs EXCEPT ![k] = job]
  BY <1>4, <1>5 DEF new, WithState, updateJob, job, k
<1>8. /\ new \in Seq(JobStatus) /\ DOMAIN new = DOMAIN jobs /\ new[k] = job
      /\ \A n \in DOMAIN jobs : n # k => new[n] = jobs[n]
  BY <1>1, <1>4, <1>5, <1>7, ExceptSeq, LenProperties
<1> HIDE DEF new
<1>9. k \in JobsOfType(new, type)
  BY <1>4, <1>5, <1>8 DEF JobsOfType
<1>10. ASSUME NEW n \in JobsOfType(new, type) PROVE Before(new, n, k)
  <2>1. CASE n = k
    BY <1>2, <1>3, <1>4, <1>5, <1>8, <2>1 DEF Before
  <2>2. CASE n # k
    <3>1. n \in DOMAIN jobs /\ new[n] = jobs[n] /\ n \in JobsOfType(jobs, type)
      BY <1>8, <2>2 DEF JobsOfType
    <3>2. jobs[n].ts <= jobs[p].ts /\ (n < p => jobs[n].ts < jobs[p].ts)
      BY <1>3, <3>1
    <3>3. QED BY <1>2, <1>3, <1>4, <1>5, <1>6, <1>8, <3>1, <3>2 DEF Before
  <2>3. QED BY <2>1, <2>2
<1>11. q = k
  BY <1>8, <1>9, <1>10, LatestIs
<1>12. QED BY <1>4, <1>5, <1>8, <1>11 DEF p, new

(* An event on its way or in the queue: nothing is claimed. *)
LEMMA RestByWakeUp ==
  ASSUME queued' \/ lag' # "none", lag' = "none" => cache' = cr',
         queued' \in BOOLEAN
  PROVE  RestInv'
BY DEF RestInv, RestsWhenDone, Resting, CopyIsCurrent, LastTurn

(* Nor is anything else said of AAP than of the variables of the others. *)
LEMMA RestUntouched ==
  ASSUME RestInv, UNCHANGED <<apiVars, queued, pc, inst, old, tenant>>
  PROVE  RestInv'
BY DEF RestInv, RestsWhenDone, Resting, CopyIsCurrent, LastTurn, apiVars,
   SameButStatus, WillBeStored, NothingToDo, Provisioned, InSync

(* What the proofs of the steps need to know of the types. *)
Typed ==
  /\ cr \in Object /\ cache \in Object /\ inst \in Object
  /\ inst.status.jobs \in Seq(JobStatus)
  /\ old \in Status /\ queued \in BOOLEAN
  /\ lag \in {"none", "foreign", "own"}

(* A reconcile begins with a turn that finds nothing to do, or with a copy of
   the resource that fits the handler. *)
LEMMA ReconcileRests ==
  ASSUME Typed, RestInv, Reconcile
  PROVE  RestInv'
<1>1. /\ pc = "idle" /\ queued' = FALSE
      /\ UNCHANGED <<cr, cache, lag, tenant>>
      /\ lag = "none" => cache = cr
  BY DEF Reconcile, apiVars, RestInv
<1>2. CASE lag # "none"
  BY <1>1, <1>2 DEF RestInv, RestsWhenDone, Resting, CopyIsCurrent, LastTurn
<1>3. CASE lag = "none" /\ (~cr.exists \/ cr.mgmt = "unmanaged")
  <2>1. NothingToDo(cr)' /\ pc' = "idle"
    BY <1>1, <1>3 DEF Reconcile, NothingToDo
  <2>2. QED BY <1>1, <2>1 DEF RestInv, RestsWhenDone, CopyIsCurrent, LastTurn
<1>4. CASE lag = "none" /\ cr.exists /\ cr.mgmt # "unmanaged"
  <2>1. /\ inst' = [cr EXCEPT !.status.phase = InitialPhase(cr)]
        /\ old' = cr.status /\ pc' = FirstStep(cr)
    BY <1>1, <1>4 DEF Reconcile
  <2>2. /\ SameButStatus(inst', cr') /\ pc' # "idle"
        /\ inst'.status.tenantRef = old'.tenantRef
    BY <1>1, <2>1 DEF SameButStatus, Typed, Object, Status, FirstStep
  <2>3. /\ pc' = "finalizer" => ~cr.deleting /\ "base" \notin cr.fins
        /\ pc' = "update" => ~cr.deleting /\ "base" \in cr.fins
        /\ pc' = "deprovision" => cr.deleting /\ "base" \in cr.fins
        /\ pc' = "save" => cr.deleting /\ "base" \notin cr.fins
        /\ pc' \in {"finalizer", "update", "deprovision", "save"}
    <3>1. cr.deleting \in BOOLEAN
      BY DEF Typed, Object
    <3>2. QED BY <2>1, <3>1 DEF FirstStep
  <2>4. pc' = "save" => NothingToDo(inst)'
    BY <1>1, <2>2, <2>3 DEF SameButStatus, NothingToDo
  <2>5. CopyIsCurrent'
    BY <1>1, <1>4, <2>1, <2>2, <2>3, <2>4 DEF CopyIsCurrent
  <2>6. QED BY <1>1, <2>2, <2>5 DEF RestInv, RestsWhenDone, Resting
<1>5. QED BY <1>2, <1>3, <1>4

(* The end of a reconcile that has stored its status, or need not. *)
LEMMA SavingRests ==
  ASSUME Typed, RestInv, NothingToSave \/ SaveStatus
  PROVE  RestInv'
<1>1. pc = "save" /\ pc' = "idle" /\ UNCHANGED <<queued, tenant, cache>>
  BY DEF NothingToSave, SaveStatus, StatusToSave, EndReconcile, OwnWrite, apiVars
<1>2. /\ lag' = "none" => lag = "none" /\ cr' = cr
      /\ lag = "none" => cache = cr
  BY DEF NothingToSave, SaveStatus, OwnWrite, apiVars, RestInv
<1>3. CASE queued \/ lag' # "none"
  BY <1>1, <1>2, <1>3, RestByWakeUp DEF Typed
<1>4. CASE ~queued /\ lag' = "none"
  <2>1. LastTurn /\ cr' = cr
    BY <1>1, <1>2, <1>4 DEF LastTurn
  <2>2. /\ SameButStatus(inst, cr) /\ old = cr.status
        /\ NothingToDo(inst) \/ WillBeStored(inst)
    BY <1>1, <2>1 DEF RestInv, CopyIsCurrent
  <2>3. inst.status = cr.status
    <3>1. CASE NothingToSave
      BY <2>2, <3>1 DEF NothingToSave
    <3>2. CASE SaveStatus
      <4>1. cr' = [cr EXCEPT !.status = inst.status]
        BY <3>2 DEF SaveStatus, OwnWrite
      <4>2. QED BY <2>1, <4>1 DEF Typed, Object
    <3>3. QED BY <3>1, <3>2
  <2>4. NothingToDo(inst)
    BY <2>2, <2>3 DEF WillBeStored
  <2>5. NothingToDo(cr)
    BY <2>2, <2>3, <2>4, SameToDo
  <2>6. NothingToDo(cr)'
    BY <1>1, <2>1, <2>5 DEF NothingToDo
  <2>7. QED BY <1>1, <1>2, <2>6 DEF RestInv, RestsWhenDone, CopyIsCurrent, LastTurn
<1>5. QED BY <1>3, <1>4

(* A step on the way that queues nothing leads to a step that fits. *)
LEMMA HandlerStepRests ==
  ASSUME Typed, RestInv, pc # "idle", pc' # "idle",
         UNCHANGED <<apiVars, old, tenant>>,
         queued' \in BOOLEAN, queued => queued',
         LastTurn /\ ~queued' =>
           /\ SameButStatus(inst', inst)
           /\ pc' \notin {"finalizer", "update"}
           /\ pc' = "provision" => ~cr.deleting /\ "base" \in cr.fins
           /\ pc' \in {"deprovision", "cancel", "release"} =>
                cr.deleting /\ "base" \in cr.fins
           /\ pc' = "save" => (NothingToDo(inst) \/ WillBeStored(inst))'
  PROVE  RestInv'
<1>1. CASE queued' \/ lag # "none"
  BY <1>1, RestByWakeUp DEF RestInv, apiVars
<1>2. CASE ~queued' /\ lag = "none"
  <2>1. LastTurn /\ UNCHANGED <<cr, cache, lag>>
    BY <1>2 DEF LastTurn, apiVars, Typed
  <2>2. /\ cr.exists /\ cr.mgmt # "unmanaged"
        /\ SameButStatus(inst, cr) /\ old = cr.status
    BY <2>1 DEF RestInv, CopyIsCurrent
  <2>3. SameButStatus(inst', cr')
    BY <1>2, <2>1, <2>2 DEF SameButStatus
  <2>4. CopyIsCurrent'
    BY <1>2, <2>1, <2>2, <2>3 DEF CopyIsCurrent
  <2>5. QED BY <2>1, <2>4 DEF RestInv, RestsWhenDone, Resting
<1>3. QED BY <1>1, <1>2

(* The steps of a reconcile that no provider takes part in. *)
LEMMA CommonStepRests ==
  ASSUME Typed, RestInv,
         \/ Reconcile \/ AddFinalizer \/ FinalizerUpdateFails
         \/ CreateTenant \/ HandleUpdate \/ HandleUpdateFails
         \/ RemoveFinalizer \/ NothingToSave \/ SaveStatus \/ SaveStatusFails
  PROVE  RestInv'
<1>1. CASE Reconcile
  BY <1>1, ReconcileRests
<1>2. CASE NothingToSave \/ SaveStatus
  BY <1>2, SavingRests
<1>3. CASE FinalizerUpdateFails \/ HandleUpdateFails \/ SaveStatusFails
  <2>1. queued' = TRUE /\ UNCHANGED apiVars
    BY <1>3 DEF FinalizerUpdateFails, HandleUpdateFails, SaveStatusFails
  <2>2. QED BY <2>1, RestByWakeUp DEF RestInv, apiVars
<1>4. CASE AddFinalizer \/ RemoveFinalizer
  <2>1. UNCHANGED <<queued, cache>> /\ pc \in {"finalizer", "release"}
    BY <1>4 DEF AddFinalizer, RemoveFinalizer, OwnWrite
  <2>2. cr' # cr => lag' = "own"
    BY <1>4 DEF AddFinalizer, RemoveFinalizer, OwnWrite
  <2>3. CASE queued \/ lag' # "none"
    <3>1. lag' = "none" => cr' = cr /\ lag = "none"
      BY <1>4, <2>2 DEF AddFinalizer, RemoveFinalizer, OwnWrite
    <3>2. QED BY <2>1, <2>3, <3>1, RestByWakeUp DEF RestInv, Typed
  <2>4. CASE ~queued /\ lag' = "none"
    <3>1. cr' = cr /\ LastTurn
      BY <1>4, <2>1, <2>2, <2>4 DEF AddFinalizer, RemoveFinalizer, OwnWrite, LastTurn
    <3>2. CASE AddFinalizer
      <4>1. "base" \notin cr.fins /\ cr' = [cr EXCEPT !.fins = cr.fins \cup {"base"}]
        BY <3>1, <3>2 DEF RestInv, CopyIsCurrent, AddFinalizer, OwnWrite
      <4>2. QED BY <3>1, <4>1 DEF Typed, Object
    <3>3. CASE RemoveFinalizer
      <4> DEFINE new == [cr EXCEPT !.fins = cr.fins \ {"base"}]
      <4>1. "base" \in cr.fins /\ cr' = Settle(new)
        BY <3>1, <3>3 DEF RestInv, CopyIsCurrent, RemoveFinalizer, OwnWrite
      <4>2. "base" \notin new.fins /\ "base" \notin Gone.fins
        BY DEF Typed, Object, Gone, NewObject
      <4>3. QED BY <3>1, <4>1, <4>2 DEF Settle
    <3>4. QED BY <1>4, <3>2, <3>3
  <2>5. QED BY <2>3, <2>4
<1>5. CASE CreateTenant
  <2>1. /\ UNCHANGED <<apiVars, old>> /\ pc = "update" /\ pc' = "save"
        /\ inst' = [inst EXCEPT !.status.tenantRef = TRUE]
        /\ queued' = (queued \/ tenant = "absent")
        /\ tenant # "absent" => tenant' = tenant /\ ~inst.status.tenantRef
    BY <1>5 DEF CreateTenant
  <2>2. CASE tenant = "absent"
    BY <2>1, <2>2, RestByWakeUp DEF RestInv, apiVars
  <2>3. CASE tenant # "absent"
    <3>1. SameButStatus(inst', inst) /\ inst'.status.tenantRef
      BY <2>1 DEF SameButStatus, Typed, Object, Status
    <3>2. LastTurn => WillBeStored(inst)'
      <4>1. SUFFICES ASSUME LastTurn PROVE WillBeStored(inst)'
        OBVIOUS
      <4>2. /\ ~cr.deleting /\ "base" \in cr.fins /\ SameButStatus(inst, cr)
            /\ old.tenantRef = inst.status.tenantRef
        BY <2>1, <4>1 DEF RestInv, CopyIsCurrent
      <4>3. QED BY <2>1, <2>3, <3>1, <4>2 DEF WillBeStored, SameButStatus
    <3>3. queued' = queued /\ queued' \in BOOLEAN
      BY <2>1, <2>3 DEF Typed
    <3>4. QED BY <2>1, <2>3, <3>1, <3>2, <3>3, HandlerStepRests
  <2>4. QED BY <2>2, <2>3
<1>6. CASE HandleUpdate
  <2>1. /\ UNCHANGED <<apiVars, queued, old, tenant>>
        /\ pc = "update" /\ pc' \in {"save", "provision"}
    BY <1>6 DEF HandleUpdate
  <2>2. SameButStatus(inst', inst) /\ inst'.status.jobs = inst.status.jobs
    BY <1>6 DEF HandleUpdate, SameButStatus, Typed, Object, Status
  <2>3. LastTurn => ~inst.deleting /\ "base" \in inst.fins
    BY <2>1 DEF RestInv, CopyIsCurrent, SameButStatus
  <2>4. ASSUME LastTurn, pc' = "save" PROVE NothingToDo(inst)'
    <3>1. tenant # "ready" \/ Provisioned(inst)
      BY <1>6, <2>4 DEF HandleUpdate, NothingToProvision, Provisioned
    <3>2. NothingToDo(inst)
      BY <2>3, <2>4, <3>1 DEF NothingToDo
    <3>3. QED BY <2>1, <2>2, <3>2 DEF NothingToDo, SameButStatus, Provisioned, InSync
  <2>5. LastTurn /\ pc' = "provision" => ~cr.deleting /\ "base" \in cr.fins
    BY <2>1 DEF RestInv, CopyIsCurrent
  <2>6. QED BY <2>1, <2>2, <2>4, <2>5, HandlerStepRests DEF Typed
<1>7. QED BY <1>1, <1>2, <1>3, <1>4, <1>5, <1>6

(* Any step that only queues the key, whatever it computes. *)
LEMMA RequeueRests ==
  ASSUME RestInv, UNCHANGED apiVars, queued' = TRUE
  PROVE  RestInv'
BY RestByWakeUp DEF RestInv, apiVars

(* Writes of others bring an event. *)
LEMMA ForeignWriteRests ==
  ASSUME NEW new, ForeignWrite(new), queued' \in BOOLEAN
  PROVE  RestInv'
BY RestByWakeUp DEF ForeignWrite

(* handleProvisioning and handleDeprovisioning with the AAP provider. *)
LEMMA ProviderStepRests ==
  ASSUME Typed, RestInv,
         \/ SkipProvisioning \/ TriggerProvision \/ TriggerProvisionFails
         \/ PollProvision \/ PollProvisionFails
         \/ SkipDeprovisioning \/ TriggerDeprovision \/ TriggerDeprovisionFails
         \/ ProvisionStillActive \/ CancelProvisionJob \/ CancelProvisionJobFails
         \/ PollDeprovision \/ PollDeprovisionFails
  PROVE  RestInv'
<1>1. CASE \/ TriggerProvision \/ TriggerProvisionFails \/ PollProvisionFails
           \/ TriggerDeprovision \/ TriggerDeprovisionFails
           \/ CancelProvisionJob \/ CancelProvisionJobFails
           \/ PollDeprovisionFails
  <2>1. queued' = TRUE /\ UNCHANGED apiVars
    BY <1>1 DEF TriggerProvision, TriggerProvisionFails, PollProvisionFails,
       TriggerDeprovision, TriggerDeprovisionFails, CancelProvisionJob,
       CancelProvisionJobFails, PollDeprovisionFails, RequeueAndSave
  <2>2. QED BY <2>1, RequeueRests
<1>2. SameButStatus(inst, inst)
  BY DEF SameButStatus
<1>3. CASE SkipProvisioning
  <2>1. /\ UNCHANGED <<apiVars, queued, inst, old, tenant>>
        /\ pc = "provision" /\ pc' = "save" /\ inst.mgmt = "manual"
    BY <1>3 DEF SkipProvisioning
  <2>2. LastTurn => NothingToDo(inst)
    BY <2>1 DEF RestInv, CopyIsCurrent, SameButStatus, NothingToDo
  <2>3. LastTurn => NothingToDo(inst)'
    BY <2>1, <2>2 DEF NothingToDo
  <2>4. QED BY <1>2, <2>1, <2>3, HandlerStepRests DEF Typed
<1>4. CASE PollProvision
  <2> DEFINE jobs  == inst.status.jobs
             p     == FindLatestJobByType(jobs, "provision")
             state == JobState(jobs[p].id)
  <2>1. /\ UNCHANGED <<apiVars, old, tenant>> /\ pc = "provision" /\ pc' = "save"
        /\ queued' = (queued \/ ~IsTerminal(state))
        /\ p # 0 /\ jobs[p].id # NoJobID /\ Found(jobs[p].id)
    BY <1>4 DEF PollProvision, NeedsTrigger
  <2>2. SameButStatus(inst', inst) /\ inst'.status.jobs = WithState(jobs, p, state)
    BY <1>4 DEF PollProvision, SameButStatus, Typed, Object, Status
  <2>3. ASSUME LastTurn, ~queued' PROVE NothingToDo(inst)'
    <3>1. IsTerminal(state) /\ state \in JobStates
      BY <2>1, <2>3 DEF IsTerminal, JobStates
    <3>2. LET new == WithState(jobs, p, state)
              q   == FindLatestJobByType(new, "provision")
          IN  q # 0 /\ new[q].state = state /\ new[q].id = jobs[p].id
      BY <2>1, <3>1, LatestOfWithState DEF Typed
    <3>3. Provisioned(inst')
      BY <2>1, <2>2, <3>1, <3>2 DEF Provisioned, NeedsTrigger
    <3>4. ~inst'.deleting /\ "base" \in inst'.fins
      BY <2>1, <2>2, <2>3 DEF RestInv, CopyIsCurrent, SameButStatus
    <3>5. QED BY <3>3, <3>4 DEF NothingToDo, Provisioned, InSync
  <2>4. queued' \in BOOLEAN /\ (queued => queued')
    BY <2>1 DEF Typed
  <2>5. QED BY <2>1, <2>2, <2>3, <2>4, HandlerStepRests
<1>5. CASE SkipDeprovisioning \/ ProvisionStillActive
  <2>1. /\ UNCHANGED <<apiVars, queued, inst, old, tenant>>
        /\ pc = "deprovision" /\ pc' \in {"release", "cancel"}
    BY <1>5 DEF SkipDeprovisioning, ProvisionStillActive, DeprovisionTriggerable
  <2>2. LastTurn => cr.deleting /\ "base" \in cr.fins
    BY <2>1 DEF RestInv, CopyIsCurrent
  <2>3. QED BY <1>2, <2>1, <2>2, HandlerStepRests DEF Typed
<1>6. CASE PollDeprovision
  <2>1. /\ UNCHANGED <<apiVars, old, tenant>>
        /\ pc = "deprovision" /\ pc' \in {"release", "save"}
        /\ pc' = "save" => queued' = TRUE
        /\ pc' = "release" => queued' = queued
        /\ SameButStatus(inst', inst)
    BY <1>6 DEF PollDeprovision, SameButStatus, Typed, Object
  <2>2. CASE pc' = "save"
    BY <2>1, <2>2, RequeueRests
  <2>3. CASE pc' = "release"
    <3>1. LastTurn => cr.deleting /\ "base" \in cr.fins
      BY <2>1 DEF RestInv, CopyIsCurrent
    <3>2. QED BY <2>1, <2>3, <3>1, HandlerStepRests DEF Typed
  <2>4. QED BY <2>1, <2>2, <2>3
<1>7. QED BY <1>1, <1>3, <1>4, <1>5, <1>6

(* Crashes, the informer, users, the other controllers, AAP. *)
LEMMA EnvironmentRests ==
  ASSUME Typed, RestInv,
         \/ CacheSync \/ Crash \/ UserStep \/ FeedbackAddsFinalizer
         \/ FeedbackRemovesFinalizer \/ TenantChanges
         \/ \E j \in DOMAIN aap : AAPStep(j)
         \/ UNCHANGED vars
  PROVE  RestInv'
<1>1. CASE CacheSync \/ Crash
  BY <1>1, RestByWakeUp DEF CacheSync, Crash
<1>2. CASE TenantChanges
  BY <1>2, RequeueRests DEF TenantChanges
<1>3. CASE \/ UserStep \/ FeedbackAddsFinalizer \/ FeedbackRemovesFinalizer
           \/ \E j \in DOMAIN aap : PlaybookAnnotates(j)
  <2>1. (\E new : ForeignWrite(new)) /\ queued' = queued
    BY <1>3 DEF UserStep, UserEditsSpec, UserSetsManagementState, UserDeletes,
       FeedbackAddsFinalizer, FeedbackRemovesFinalizer, PlaybookAnnotates
  <2>2. QED BY <2>1, ForeignWriteRests DEF Typed
<1>4. CASE \/ \E j \in DOMAIN aap : \/ JobStarts(j) \/ PlaybookCreates(j)
                                    \/ JobEnds(j) \/ JobPurged(j)
           \/ UNCHANGED vars
  BY <1>4, RestUntouched DEF JobStarts, PlaybookCreates, JobEnds, JobPurged,
     ctrlVars, vars, apiVars
<1>5. QED BY <1>1, <1>2, <1>3, <1>4 DEF AAPStep

LEMMA RestInit == Init => RestInv
BY DEF Init, RestInv, RestsWhenDone, Resting, CopyIsCurrent, LastTurn

LEMMA RestNext == IInv /\ RestInv /\ [Next]_vars => RestInv'
<1>1. IInv => Typed
  BY DEF IInv, TypeOK, Typed, Object, Status
<1>2. QED
  BY <1>1, CommonStepRests, ProviderStepRests, EnvironmentRests
     DEF Next, ControllerStep

(***************************************************************************)
(* The controller rests only when nothing is left to do, under every       *)
(* combination of faults: no return of Reconcile without a requeue relies  *)
(* on an event that may not come.                                          *)
(***************************************************************************)
THEOREM ControllerRestsWhenDone == Spec => []RestsWhenDone
<1>1. RestInv => RestsWhenDone
  BY DEF RestInv
<1>2. QED BY <1>1, RestInit, RestNext, InvariantHolds, PTL DEF Spec

=============================================================================
