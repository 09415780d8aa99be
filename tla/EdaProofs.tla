------------------------------ MODULE EdaProofs ------------------------------
(***************************************************************************)
(* Proofs about Eda: no webhook is repeated too early, the numbers of the  *)
(* listed jobs are distinct whatever is trimmed, and the resource is       *)
(* released only when no playbook holds it, and the controller waits only  *)
(* when it has nothing left to do; for every history size, every interval  *)
(* and bound, and every combination of faults.                             *)
(***************************************************************************)
EXTENDS Eda, ComputeInstanceProofs, WebhookClientProofs

-----------------------------------------------------------------------------
(* Numbers of jobs *)

(***************************************************************************)
(* The largest number of a list exists: take the shortest prefix of the    *)
(* list that has none.                                                     *)
(***************************************************************************)
LEMMA LargestNumber ==
  ASSUME NEW jobs \in Seq(JobStatus)
  PROVE  /\ generateEDAJobID(jobs) \in Nat \ {NoJobID}
         /\ \A i \in DOMAIN jobs : jobs[i].id # generateEDAJobID(jobs)
<1> DEFINE IDs(n) == {0} \cup {jobs[i].id : i \in 1..n}
           Largest(n) == \E x \in IDs(n) : \A y \in IDs(n) : x >= y
           Bad == {n \in 0..Len(jobs) : ~Largest(n)}
<1>1. /\ Len(jobs) \in Nat /\ DOMAIN jobs = 1..Len(jobs)
      /\ \A i \in DOMAIN jobs : jobs[i].id \in Nat
  <2>1. Len(jobs) \in Nat /\ DOMAIN jobs = 1..Len(jobs)
    BY LenProperties
  <2>2. \A i \in DOMAIN jobs : jobs[i] \in JobStatus
    BY <2>1, ElementOfSeq
  <2>3. QED BY <2>1, <2>2 DEF JobStatus
<1>2. \A n \in 0..Len(jobs) : IDs(n) \subseteq Nat
  BY <1>1
<1>3. Bad = {}
  <2>1. SUFFICES ASSUME Bad # {} PROVE FALSE
    OBVIOUS
  <2>2. Bad \subseteq Nat
    BY <1>1
  <2>3. PICK n \in Bad : \A m \in Bad : n <= m
    <3> HIDE DEF Bad
    <3>1. QED BY <2>1, <2>2, LeastNatural
  <2>4. n \in 0..Len(jobs) /\ ~Largest(n)
    BY <2>3
  <2>5. n # 0
    <3>1. IDs(0) = {0}
      OBVIOUS
    <3>2. Largest(0)
      BY <3>1
    <3>3. QED BY <3>2, <2>4
  <2>6. n - 1 \in 0..Len(jobs) /\ ~(n <= n - 1) /\ n \in DOMAIN jobs
    BY <1>1, <2>4, <2>5
  <2>7. Largest(n - 1)
    <3>1. n - 1 \notin Bad
      <4> HIDE DEF Bad
      <4>1. QED BY <2>3, <2>6
    <3>2. QED BY <3>1, <2>6
  <2> DEFINE new == jobs[n].id
  <2>8. IDs(n) = IDs(n - 1) \cup {new}
    BY <2>4, <2>5, <1>1
  <2>9. PICK x \in IDs(n - 1) : \A y \in IDs(n - 1) : x >= y
    BY <2>7
  <2>10. x \in Nat /\ new \in Nat /\ IDs(n - 1) \subseteq Nat
    BY <1>1, <1>2, <2>6, <2>9
  <2>11. ~(\E z \in IDs(n) : \A y \in IDs(n) : z >= y)
    BY <2>4
  <2> HIDE DEF IDs, new
  <2>12. CASE x >= new
    BY <2>8, <2>9, <2>10, <2>11, <2>12
  <2>13. CASE ~(x >= new)
    <3>1. \A y \in IDs(n - 1) : new >= y
      BY <2>9, <2>10, <2>13
    <3>2. \A y \in IDs(n) : new >= y
      BY <3>1, <2>8, <2>10
    <3>3. new \in IDs(n)
      BY <2>8
    <3>4. QED BY <3>2, <3>3, <2>11
  <2>14. QED BY <2>12, <2>13
<1> DEFINE S == {0} \cup {jobs[i].id : i \in DOMAIN jobs}
<1>4. \E x \in S : \A y \in S : x >= y
  <2>1. Len(jobs) \in 0..Len(jobs)
    BY <1>1
  <2>2. Largest(Len(jobs))
    <3> HIDE DEF Largest
    <3>1. QED BY <1>3, <2>1
  <2>3. S = IDs(Len(jobs))
    BY <1>1
  <2>4. QED BY <2>2, <2>3
<1>5. S \subseteq Nat
  BY <1>1
<1>6. generateEDAJobID(jobs) = Max(S) + 1
  BY DEF generateEDAJobID
<1>7. \A i \in DOMAIN jobs : jobs[i].id \in S
  OBVIOUS
<1> HIDE DEF S
<1>8. Max(S) = CHOOSE x \in S : \A y \in S : x >= y
  BY Zenon DEF Max
<1>9. Max(S) \in S /\ \A y \in S : Max(S) >= y
  BY <1>4, <1>8, Zenon
<1> DEFINE largest == Max(S)
<1>10. largest \in Nat /\ generateEDAJobID(jobs) = largest + 1
  BY <1>5, <1>6, <1>9
<1>11. \A i \in DOMAIN jobs : jobs[i].id \in Nat /\ largest >= jobs[i].id
  BY <1>5, <1>7, <1>9
<1> HIDE DEF largest
<1>12. QED BY <1>10, <1>11 DEF NoJobID

(* A job list that may be stored. *)
GoodList(jobs) ==
  /\ jobs \in Seq(JobStatus)
  /\ Len(jobs) <= MaxJobHistory
  /\ DistinctIDs(jobs)

(* Another state of a job leaves the numbers alone. *)
LEMMA WithStateKeepsIDs ==
  ASSUME NEW jobs, GoodList(jobs), NEW p \in DOMAIN jobs, NEW state \in JobStates
  PROVE  GoodList(WithState(jobs, p, state))
<1> DEFINE job == [jobs[p] EXCEPT !.state = state]
           k == findJobByID(jobs, job.id)
           new == updateJob(jobs, job)
<1>1. jobs \in Seq(JobStatus) /\ jobs[p] \in JobStatus
  BY LenProperties, ElementOfSeq DEF GoodList
<1>2. job \in JobStatus
  BY <1>1 DEF JobStatus
<1>3. new \in Seq(JobStatus) /\ Len(new) = Len(jobs)
  BY <1>1, <1>2, UpdateJobResult
<1>4. k # 0 => k \in DOMAIN jobs /\ jobs[k].id = job.id
  BY <1>1, FindByIDResult
<1>5. new = IF k = 0 THEN jobs ELSE [jobs EXCEPT ![k] = job]
  BY DEF updateJob
<1> HIDE DEF job, k
<1>6. DOMAIN new = DOMAIN jobs /\ \A i \in DOMAIN jobs : new[i].id = jobs[i].id
  BY <1>4, <1>5
<1>7. DistinctIDs(new)
  BY <1>6 DEF GoodList, DistinctIDs
<1>8. QED BY <1>3, <1>7 DEF GoodList, WithState, job

(* A job without a number, or with a new one, may be added. *)
LEMMA AppendKeepsIDs ==
  ASSUME NEW jobs, GoodList(jobs), NEW job \in JobStatus,
         job.id # NoJobID => \A i \in DOMAIN jobs : jobs[i].id # job.id
  PROVE  GoodList(appendJob(jobs, job))
<1> DEFINE all == Append(jobs, job)
           new == appendJob(jobs, job)
<1>1. jobs \in Seq(JobStatus)
  BY DEF GoodList
<1>2. new \in Seq(JobStatus) /\ Len(new) <= MaxJobHistory
  BY <1>1, AppendJobResult
<1>3. /\ DOMAIN jobs = 1..Len(jobs) /\ Len(jobs) \in Nat
      /\ MaxJobHistory \in Nat \ {0}
  BY <1>1, LenProperties, MaxJobHistoryAssumption
<1>4. /\ all \in Seq(JobStatus) /\ Len(all) = Len(jobs) + 1
      /\ \A i \in 1..Len(jobs) : all[i] = jobs[i]
      /\ all[Len(jobs) + 1] = job
  BY <1>1, AppendProperties
<1> HIDE DEF all
<1>5. DOMAIN all = 1..Len(all)
  BY <1>4, LenProperties
<1>6. DistinctIDs(all)
  BY <1>3, <1>4, <1>5 DEF GoodList, DistinctIDs
<1>7. CASE Len(all) > MaxJobHistory
  <2> DEFINE m == Len(all) - MaxJobHistory + 1
             kept == SubSeq(all, m, Len(all))
  <2>1. m \in 1..Len(all) /\ Len(all) - m + 1 = MaxJobHistory
    BY <1>3, <1>4, <1>7
  <2>2. \A i \in m..Len(all) : all[i] \in JobStatus
    BY <1>4, <1>5, <2>1, ElementOfSeq
  <2> HIDE DEF m
  <2>3. /\ kept \in Seq(JobStatus) /\ Len(kept) = MaxJobHistory
        /\ \A i \in 1..MaxJobHistory : kept[i] = all[m + i - 1]
    BY <1>3, <1>4, <2>1, <2>2, SubSeqProperties
  <2>4. DOMAIN kept = 1..MaxJobHistory
    BY <2>3, LenProperties
  <2>5. new = kept
    BY <1>7 DEF appendJob, all, m
  <2> HIDE DEF kept, new
  <2>6. \A i \in 1..MaxJobHistory : m + i - 1 \in DOMAIN all
    BY <1>3, <1>5, <2>1
  <2>7. \A i, j \in 1..MaxJobHistory : m + i - 1 = m + j - 1 => i = j
    BY <2>1, <1>3
  <2>8. DistinctIDs(new)
    BY <1>6, <2>3, <2>4, <2>5, <2>6, <2>7 DEF DistinctIDs
  <2>9. QED BY <1>2, <2>8 DEF GoodList, new
<1>8. CASE ~(Len(all) > MaxJobHistory)
  <2>1. new = all
    BY <1>8 DEF appendJob, all
  <2>2. QED BY <1>2, <1>6, <2>1 DEF GoodList
<1>9. QED BY <1>7, <1>8

-----------------------------------------------------------------------------
(* Objects *)

(* A version of the resource that may be stored, cached or worked on. *)
Listed(o) == o \in Object /\ GoodList(o.status.jobs)

(* A new resource has no job, one that is gone neither. *)
LEMMA NewListed == Listed(NewObject) /\ Listed(Gone) /\ NoStatus \in Status
<1>1. << >> \in Seq(JobStatus) /\ Len(<< >>) = 0 /\ DOMAIN << >> = {}
  BY EmptySeq
<1>2. GoodList(<< >>)
  BY <1>1, MaxJobHistoryAssumption DEF GoodList, DistinctIDs
<1>3. NoStatus \in Status /\ NoStatus.jobs = << >>
  BY <1>1 DEF NoStatus, Status, Phases
<1>4. /\ NewObject \in Object /\ NewObject.status = NoStatus
      /\ Gone \in Object /\ Gone.status = NoStatus
  BY <1>3 DEF NewObject, Gone, Object
<1>5. QED BY <1>2, <1>3, <1>4 DEF Listed

(* What the steps write into a resource. *)
LEMMA ListedWrites ==
  ASSUME NEW o, Listed(o)
  PROVE  /\ \A jobs : GoodList(jobs) => Listed([o EXCEPT !.status.jobs = jobs])
         /\ \A phase \in Phases : Listed([o EXCEPT !.status.phase = phase])
         /\ \A x : Listed(x) => Listed([o EXCEPT !.status = x.status])
         /\ Listed([o EXCEPT !.status.tenantRef = TRUE])
         /\ \A f \in SUBSET {"base", "feedback", "aap"} : Listed([o EXCEPT !.fins = f])
         /\ \A n \in Nat : Listed([o EXCEPT !.annot = n])
         /\ Listed([o EXCEPT !.deleting = TRUE])
         /\ Listed(Settle(o))
<1>1. o \in Object /\ o.status \in Status /\ GoodList(o.status.jobs)
  BY DEF Listed, Object
<1>2. \A jobs : GoodList(jobs) => jobs \in Seq(JobStatus)
  BY DEF GoodList
<1>3. Listed(Settle(o))
  BY NewListed DEF Settle
<1>4. \A jobs : GoodList(jobs) => Listed([o EXCEPT !.status.jobs = jobs])
  BY <1>1, <1>2 DEF Listed, Object, Status
<1>5. \A phase \in Phases : Listed([o EXCEPT !.status.phase = phase])
  BY <1>1 DEF Listed, Object, Status
<1>6. \A x : Listed(x) => Listed([o EXCEPT !.status = x.status])
  BY <1>1 DEF Listed, Object
<1>7. Listed([o EXCEPT !.status.tenantRef = TRUE])
  BY <1>1 DEF Listed, Object, Status
<1>8. /\ \A f \in SUBSET {"base", "feedback", "aap"} : Listed([o EXCEPT !.fins = f])
      /\ \A n \in Nat : Listed([o EXCEPT !.annot = n])
      /\ Listed([o EXCEPT !.deleting = TRUE])
  BY <1>1 DEF Listed, Object
<1>9. QED BY <1>3, <1>4, <1>5, <1>6, <1>7, <1>8

(* The job of an accepted webhook gets a number no listed job has. *)
LEMMA RecordListed ==
  ASSUME Listed(inst), NEW type \in JobTypes, NEW state \in JobStates,
         RecordEDAJob(type, state)
  PROVE  Listed(inst')
<1> DEFINE jobs == inst.status.jobs
           id == generateEDAJobID(jobs)
<1>1. GoodList(jobs) /\ jobs \in Seq(JobStatus)
  BY DEF Listed, GoodList
<1>2. PICK now \in Now(jobs) :
        inst' = [inst EXCEPT !.status.jobs =
                   appendJob(jobs, [id |-> id, type |-> type, state |-> state,
                                    block |-> FALSE, ts |-> now])]
  BY DEF RecordEDAJob
<1>3. now \in Nat
  BY <1>1, NowIsNatural
<1>4. id \in Nat /\ \A i \in DOMAIN jobs : jobs[i].id # id
  BY <1>1, LargestNumber
<1> HIDE DEF id, jobs
<1> DEFINE job == [id |-> id, type |-> type, state |-> state,
                   block |-> FALSE, ts |-> now]
<1>5. job \in JobStatus /\ job.id = id
  BY <1>3, <1>4 DEF JobStatus
<1> HIDE DEF job
<1>6. GoodList(appendJob(jobs, job))
  BY <1>1, <1>4, <1>5, AppendKeepsIDs
<1>7. inst' = [inst EXCEPT !.status.jobs = appendJob(jobs, job)]
  BY <1>2 DEF job, jobs
<1>8. QED BY <1>6, <1>7, ListedWrites

(* A failed attempt is recorded without a number. *)
LEMMA FailureListed ==
  ASSUME Listed(inst),
         RecordNewJob(inst.status.jobs, NoJobID, "provision", "Failed")
  PROVE  Listed(inst')
<1> DEFINE jobs == inst.status.jobs
<1>1. GoodList(jobs) /\ jobs \in Seq(JobStatus)
  BY DEF Listed, GoodList
<1>2. PICK now \in Now(jobs) :
        inst' = [inst EXCEPT !.status.jobs =
                   appendJob(jobs, [id |-> NoJobID, type |-> "provision",
                                    state |-> "Failed",
                                    block |-> "provision" = "deprovision",
                                    ts |-> now])]
  BY DEF RecordNewJob
<1>3. now \in Nat /\ ("provision" = "deprovision") \in BOOLEAN
  BY <1>1, NowIsNatural
<1> HIDE DEF jobs
<1> DEFINE job == [id |-> NoJobID, type |-> "provision", state |-> "Failed",
                   block |-> "provision" = "deprovision", ts |-> now]
<1>4. job \in JobStatus /\ job.id = NoJobID
  BY <1>3 DEF JobStatus, JobTypes, JobStates, NoJobID
<1> HIDE DEF job
<1>5. GoodList(appendJob(jobs, job))
  BY <1>1, <1>4, AppendKeepsIDs
<1>6. inst' = [inst EXCEPT !.status.jobs = appendJob(jobs, job)]
  BY <1>2 DEF job, jobs
<1>7. QED BY <1>5, <1>6, ListedWrites

(* Polling a job records another state of it. *)
LEMMA PolledListed ==
  ASSUME Listed(inst), NEW type, NEW state \in JobStates,
         ~NeedsTrigger(inst.status.jobs, type)
  PROVE  LET jobs == inst.status.jobs
             p    == FindLatestJobByType(jobs, type)
         IN  Listed([inst EXCEPT !.status.jobs = WithState(jobs, p, state)])
<1> DEFINE jobs == inst.status.jobs
           p    == FindLatestJobByType(jobs, type)
<1>1. GoodList(jobs) /\ jobs \in Seq(JobStatus)
  BY DEF Listed, GoodList
<1>2. p # 0
  BY DEF NeedsTrigger
<1>3. p \in DOMAIN jobs
  BY <1>1, <1>2, FindLatestResult
<1>4. GoodList(WithState(jobs, p, state))
  BY <1>1, <1>3, WithStateKeepsIDs
<1>5. QED BY <1>4, ListedWrites

-----------------------------------------------------------------------------
(* The steps *)

(* The invariant in the parts its proof is laid out in. *)
EdaParts ==
  /\ Listed(cr) /\ Listed(cache) /\ Listed(inst)
  /\ Scalars
  /\ ClientInv
  /\ lives \in Nat /\ asked \in BOOLEAN /\ heir \in BOOLEAN
  /\ FinalizersKnown

LEMMA EdaInvParts == EdaInv <=> EdaParts
BY DEF EdaInv, EdaTypeOK, JobIDsDistinct, EdaParts, Listed, GoodList, Scalars,
   TypeOK, ClientInv, Object, Status

LEMMA EdaInvInit == EdaInit => EdaInv
<1> SUFFICES ASSUME EdaInit PROVE EdaParts
  BY EdaInvParts
<1>1. Listed(cr) /\ Listed(cache) /\ Listed(inst) /\ old \in Status
  BY NewListed DEF EdaInit, Init
<1>2. aap \in Seq(AAPJob)
  BY EmptySeq DEF EdaInit, Init
<1>3. Scalars
  BY <1>1, <1>2 DEF EdaInit, Init, Scalars, Steps, JobStates
<1>4. ClientInv
  BY ClientInvInit DEF EdaInit
<1>5. FinalizersKnown
  BY DEF EdaInit, Init, FinalizersKnown, NewObject, Gone
<1>6. QED BY <1>1, <1>3, <1>4, <1>5 DEF EdaParts, EdaInit

(* The playbooks at work keep their types. *)
LEMMA PlaybooksTyped ==
  ASSUME aap \in Seq(AAPJob), inst \in Object, EdaNext
  PROVE  aap' \in Seq(AAPJob)
<1>1. CASE aap' = aap
  BY <1>1
<1>2. CASE \E type \in JobTypes : Launch(type)
  BY <1>2, LaunchExtends
<1>3. ASSUME NEW j \in DOMAIN aap, NEW s \in AAPActive, aap' = [aap EXCEPT ![j].status = s]
      PROVE  aap' \in Seq(AAPJob)
  <2> DEFINE job == [aap[j] EXCEPT !.status = s]
  <2>1. aap[j] \in AAPJob /\ j \in 1..Len(aap)
    BY LenProperties, ElementOfSeq
  <2>2. job \in AAPJob
    BY <2>1 DEF AAPJob
  <2>3. aap' = [aap EXCEPT ![j] = job]
    BY <1>3
  <2> HIDE DEF job
  <2>4. QED BY <2>1, <2>2, <2>3, ExceptSeq
<1>4. ASSUME NEW j \in DOMAIN aap, aap' = RemoveAt(aap, j)
      PROVE  aap' \in Seq(AAPJob)
  <2>1. Len(aap) \in Nat /\ j \in 1..Len(aap) /\ j \in Nat
    BY LenProperties
  <2>2. RemoveAt(aap, j) = SubSeq(aap, 1, j - 1) \o SubSeq(aap, j + 1, Len(aap))
    BY DEF RemoveAt
  <2>3. \A i \in 1..Len(aap) : aap[i] \in AAPJob
    BY ElementOfSeq
  <2>4. SubSeq(aap, 1, j - 1) \in Seq(AAPJob)
    BY <2>1, <2>3, SubSeqProperties
  <2>5. SubSeq(aap, j + 1, Len(aap)) \in Seq(AAPJob)
    BY <2>1, <2>3, SubSeqProperties
  <2>6. QED BY <1>4, <2>2, <2>4, <2>5, ConcatProperties
<1>5. CASE EdaControllerStep
  <2>1. CASE EdaProviderStep
    BY <1>1, <1>2, <2>1 DEF EdaProviderStep, SendCreate, CreateLimited,
       CreateFails, PollCreate, SkipDelete, SendDelete, DeleteLimited,
       DeleteFails, PollDelete, aapVars, JobTypes
  <2>2. CASE CommonStep \/ StoreStatus
    BY <1>1, <2>2 DEF CommonStep, Reconcile, AddFinalizer, FinalizerUpdateFails,
       CreateTenant, HandleUpdate, HandleUpdateFails, RemoveFinalizer,
       NothingToSave, StoreStatus, SaveStatus, SaveStatusFails, aapVars
  <2>3. QED BY <1>5, <2>1, <2>2 DEF EdaControllerStep
<1>6. CASE CacheSync \/ UserDeletes \/ TenantChanges \/ UserCreates \/ Restart
           \/ TimePasses \/ FeedbackStep
  BY <1>1, <1>6 DEF CacheSync, UserDeletes, TenantChanges, UserCreates, Restart,
     TimePasses, FeedbackStep, FeedbackAddsFinalizer, FeedbackRemovesFinalizer,
     vars, aapVars
<1>7. ASSUME NEW j \in DOMAIN aap, PlaybookStep(j)
      PROVE  aap' \in Seq(AAPJob)
  BY <1>1, <1>3, <1>4, <1>7 DEF PlaybookStep, PlaybookHolds, PlaybookProvisions,
     PlaybookAnnotates, ProvisionEnds, PlaybookRemoves, DeprovisionEnds, Drop,
     AAPActive, aapVars
<1>8. QED BY <1>5, <1>6, <1>7 DEF EdaNext

(* Every step calls the client once, or leaves it alone. *)
LEMMA ClientKept ==
  ASSUME ClientInv, [EdaNext]_edaVars
  PROVE  ClientInv'
<1>1. CASE UNCHANGED clientVars
  BY <1>1 DEF clientVars, ClientInv, ClientTypeOK
<1>2. CASE \E url \in Urls : ClientStep(url)
  BY <1>2, ClientInvStep
<1>3. CASE EdaProviderStep
  BY <1>1, <1>2, <1>3 DEF EdaProviderStep, SendCreate, CreateLimited, CreateFails,
     PollCreate, SkipDelete, SendDelete, DeleteLimited, DeleteFails, PollDelete,
     others, ClientStep, Urls
<1>4. CASE Restart \/ TimePasses
  BY <1>2, <1>4 DEF Restart, TimePasses, ClientStep, Urls
<1>5. CASE UNCHANGED others \/ StoreStatus \/ UserCreates \/ UNCHANGED edaVars
  BY <1>1, <1>5 DEF others, StoreStatus, UserCreates, edaVars
<1>6. QED BY <1>3, <1>4, <1>5 DEF EdaNext, EdaControllerStep

(* What the controller knows of the finalizers stays true. *)
LEMMA FinalizersStep ==
  ASSUME cr \in Object, cache \in Object, inst \in Object, FinalizersKnown,
         [EdaNext]_edaVars
  PROVE  FinalizersKnown'
<1> USE DEF FinalizersKnown, Object, apiVars, ctrlVars, aapVars
<1>1. CASE EdaProviderStep
  <2>1. UNCHANGED <<cr, cache, lag, fresh>>
    BY <1>1 DEF EdaProviderStep, SendCreate, CreateLimited, CreateFails,
       PollCreate, SkipDelete, SendDelete, DeleteLimited, DeleteFails, PollDelete
  <2>2. ASSUME NEW x, inst' = [inst EXCEPT !.status.jobs = x]
        PROVE  inst'.fins = inst.fins
    BY <2>2
  <2>3. inst'.fins = inst.fins
    BY <1>1, <2>2 DEF EdaProviderStep, SendCreate, CreateLimited, CreateFails,
       PollCreate, SkipDelete, SendDelete, DeleteLimited, DeleteFails, PollDelete,
       RecordEDAJob, RecordNewJob
  <2>4. pc # "save" /\ (pc' = "release" => "aap" \notin inst.fins)
    BY <1>1 DEF EdaProviderStep, SendCreate, CreateLimited, CreateFails,
       PollCreate, SkipDelete, SendDelete, DeleteLimited, DeleteFails, PollDelete,
       HasAAPFinalizer, RequeueAndSave, ProvisionTriggerable,
       DeprovisionTriggerable
  <2>5. QED BY <2>1, <2>3, <2>4
<1>2. CASE Reconcile
  <2>1. CASE UNCHANGED <<pc, inst, old, fresh, reply>>
    BY <1>2, <2>1 DEF Reconcile
  <2>2. CASE ~UNCHANGED <<pc, inst, old, fresh, reply>>
    <3>1. /\ inst' = [cache EXCEPT !.status.phase = InitialPhase(cache)]
          /\ fresh' = (lag = "none") /\ pc' = FirstStep(cache)
          /\ cache.exists /\ UNCHANGED <<cr, cache, lag>>
      BY <1>2, <2>2 DEF Reconcile
    <3>2. inst'.fins = cache.fins
      BY <3>1
    <3>3. pc' # "release"
      BY <3>1 DEF FirstStep
    <3>4. QED BY <3>1, <3>2, <3>3
  <2>3. QED BY <2>1, <2>2
<1>3. CASE AddFinalizer
  BY <1>3 DEF AddFinalizer, OwnWrite
<1>4. CASE RemoveFinalizer
  BY <1>4 DEF RemoveFinalizer, OwnWrite, Settle, Gone, NewObject
<1>5. CASE \/ FinalizerUpdateFails \/ CreateTenant \/ HandleUpdate
           \/ HandleUpdateFails
  BY <1>5 DEF FinalizerUpdateFails, CreateTenant, HandleUpdate,
     HandleUpdateFails
<1>6. CASE NothingToSave \/ StoreStatus \/ SaveStatusFails \/ Restart
  BY <1>6 DEF NothingToSave, StoreStatus, SaveStatus, SaveStatusFails, Restart,
     OwnWrite, EndReconcile
<1>7. CASE CacheSync \/ TenantChanges
  BY <1>7 DEF CacheSync, TenantChanges
<1>8. CASE UserDeletes \/ UserCreates \/ FeedbackStep
  BY <1>8 DEF UserDeletes, UserCreates, FeedbackStep, FeedbackAddsFinalizer,
     FeedbackRemovesFinalizer, ForeignWrite, Settle, Gone, NewObject
<1>9. ASSUME NEW j \in DOMAIN aap, PlaybookStep(j) PROVE FinalizersKnown'
  BY <1>9 DEF PlaybookStep, PlaybookHolds, PlaybookProvisions,
     PlaybookAnnotates, ProvisionEnds, PlaybookRemoves, DeprovisionEnds, Drop,
     HasAAPFinalizer, ForeignWrite, Settle, Gone, NewObject
<1>10. CASE TimePasses \/ UNCHANGED edaVars
  BY <1>10 DEF TimePasses, edaVars, vars
<1>11. QED BY <1>1, <1>2, <1>3, <1>4, <1>5, <1>6, <1>7, <1>8, <1>9, <1>10
           DEF EdaNext, EdaControllerStep, CommonStep

(* The parts of the invariant that a step of the provider can disturb. *)
LEMMA ProviderStepKeeps ==
  ASSUME EdaParts, aap' \in Seq(AAPJob), EdaProviderStep
  PROVE  Listed(cr') /\ Listed(cache') /\ Listed(inst') /\ Scalars'
<1>1. UNCHANGED <<cr, cache, lag, old, fresh, reply, infra, tenant>>
  BY DEF EdaProviderStep, SendCreate, CreateLimited, CreateFails, PollCreate,
     SkipDelete, SendDelete, DeleteLimited, DeleteFails, PollDelete, apiVars,
     aapVars
<1>2. /\ queued' \in BOOLEAN /\ pc' \in {"save", "release"}
      /\ errs' = errs \/ errs' = errs + 1
  BY DEF EdaProviderStep, SendCreate, CreateLimited, CreateFails, PollCreate,
     SkipDelete, SendDelete, DeleteLimited, DeleteFails, PollDelete,
     RequeueAndSave, TransientError, EdaParts, Scalars
<1>3. Scalars'
  BY <1>1, <1>2 DEF EdaParts, Scalars, Steps
<1>4. Listed(inst')
  <2>1. Listed(inst)
    BY DEF EdaParts
  <2>2. CASE SendCreate \/ SendDelete
    BY <2>1, <2>2, RecordListed DEF SendCreate, SendDelete, JobTypes, JobStates
  <2>3. CASE CreateFails
    BY <2>1, <2>3, FailureListed DEF CreateFails
  <2>4. CASE PollCreate \/ PollDelete
    BY <2>1, <2>4, PolledListed DEF PollCreate, PollDelete, JobStates
  <2>5. CASE CreateLimited \/ SkipDelete \/ DeleteLimited \/ DeleteFails
    BY <2>1, <2>5 DEF CreateLimited, SkipDelete, DeleteLimited, DeleteFails
  <2>6. QED BY <2>2, <2>3, <2>4, <2>5 DEF EdaProviderStep
<1>5. QED BY <1>1, <1>3, <1>4 DEF EdaParts

(* The end of a reconcile. *)
LEMMA EndTyped ==
  ASSUME EndReconcile
  PROVE  /\ Listed(inst') /\ old' \in Status /\ fresh' \in BOOLEAN
         /\ reply' \in JobStates /\ pc' \in Steps
BY NewListed DEF EndReconcile, JobStates, Steps

(* The finalizers a resource may have. *)
LEMMA FinalizersTyped ==
  ASSUME NEW o, Listed(o)
  PROVE  /\ o.fins \cup {"base"} \in SUBSET {"base", "feedback", "aap"}
         /\ o.fins \cup {"aap"} \in SUBSET {"base", "feedback", "aap"}
         /\ o.fins \cup {"feedback"} \in SUBSET {"base", "feedback", "aap"}
         /\ o.fins \ {"base"} \in SUBSET {"base", "feedback", "aap"}
         /\ o.fins \ {"aap"} \in SUBSET {"base", "feedback", "aap"}
         /\ o.fins \in SUBSET {"base", "feedback", "aap"}
         /\ o.status \in Status
BY DEF Listed, Object

(* Those that any step of the controller without the provider can. *)
LEMMA CommonStepKeeps ==
  ASSUME EdaParts, CommonStep \/ SaveStatus
  PROVE  Listed(cr') /\ Listed(cache') /\ Listed(inst') /\ Scalars'
<1>1. Listed(cr) /\ Listed(cache) /\ Listed(inst) /\ Scalars
  BY DEF EdaParts
<1>2. CASE Reconcile
  <2>1. CASE UNCHANGED <<pc, inst, old, fresh, reply>>
    BY <1>1, <1>2, <2>1 DEF Reconcile, Scalars, apiVars, aapVars
  <2>2. CASE ~UNCHANGED <<pc, inst, old, fresh, reply>>
    <3>1. /\ inst' = [cache EXCEPT !.status.phase = InitialPhase(cache)]
          /\ old' = cache.status /\ fresh' = (lag = "none")
          /\ pc' = FirstStep(cache)
          /\ UNCHANGED <<cr, cache, lag, reply, aap, infra, tenant, errs>>
          /\ queued' = FALSE
      BY <1>2, <2>2 DEF Reconcile, apiVars, aapVars
    <3>2. Listed(inst')
      BY <1>1, <3>1, ListedWrites DEF InitialPhase, Phases
    <3>3. Scalars'
      BY <1>1, <3>1, FinalizersTyped DEF Scalars, FirstStep, Steps
    <3>4. QED BY <1>1, <3>1, <3>2, <3>3
  <2>3. QED BY <2>1, <2>2
<1>3. CASE AddFinalizer
  <2> DEFINE new == [cr EXCEPT !.fins = cr.fins \cup {"base"}]
  <2>1. Listed(new)
    BY <1>1, FinalizersTyped, ListedWrites
  <2>2. cr' = new /\ cache' = cache /\ inst' = [inst EXCEPT !.fins = new.fins]
    BY <1>3 DEF AddFinalizer, OwnWrite
  <2>3. Scalars'
    BY <1>1, <1>3 DEF Scalars, AddFinalizer, OwnWrite, aapVars, Steps
  <2> HIDE DEF new
  <2>4. Listed(inst')
    BY <1>1, <2>1, <2>2, FinalizersTyped, ListedWrites
  <2>5. QED BY <1>1, <2>1, <2>2, <2>3, <2>4
<1>4. CASE FinalizerUpdateFails \/ HandleUpdateFails
  <2>1. /\ UNCHANGED <<cr, cache, lag, inst, old, fresh, reply, aap, infra, tenant>>
        /\ pc' = "save" /\ queued' = TRUE
        /\ errs' = errs \/ errs' = errs + 1
    BY <1>4 DEF FinalizerUpdateFails, HandleUpdateFails, TransientError,
       apiVars, aapVars
  <2>2. QED BY <1>1, <2>1 DEF Scalars, Steps
<1>5. CASE CreateTenant
  <2>1. Listed(inst')
    BY <1>1, <1>5, ListedWrites DEF CreateTenant
  <2>2. QED
    BY <1>1, <1>5, <2>1 DEF CreateTenant, Scalars, apiVars, aapVars, Steps
<1>6. CASE HandleUpdate
  <2>1. \/ inst' = inst
        \/ \E phase \in Phases : inst' = [inst EXCEPT !.status.phase = phase]
    BY <1>6 DEF HandleUpdate, Phases
  <2>2. Listed(inst')
    <3>1. ASSUME NEW phase \in Phases
          PROVE  Listed([inst EXCEPT !.status.phase = phase])
      BY <1>1, ListedWrites
    <3>2. QED BY <1>1, <2>1, <3>1
  <2>3. UNCHANGED <<cr, cache, lag, queued, old, fresh, reply, aap, infra, tenant,
                    errs>>
    BY <1>6 DEF HandleUpdate, apiVars, aapVars
  <2>4. pc' \in {"save", "provision"}
    BY <1>6 DEF HandleUpdate
  <2>5. QED BY <1>1, <2>2, <2>3, <2>4 DEF Scalars, Steps
<1>7. CASE RemoveFinalizer
  <2> DEFINE new == [cr EXCEPT !.fins = cr.fins \ {"base"}]
  <2>1. Listed(new)
    BY <1>1, FinalizersTyped, ListedWrites
  <2>2. Listed(Settle(new))
    BY <2>1, ListedWrites
  <2>3. cr' = Settle(new) /\ cache' = cache /\ inst' = new
    BY <1>7 DEF RemoveFinalizer, OwnWrite
  <2>4. Scalars'
    BY <1>1, <1>7 DEF Scalars, RemoveFinalizer, OwnWrite, aapVars, Steps
  <2> HIDE DEF new
  <2>5. QED BY <1>1, <2>1, <2>2, <2>3, <2>4
<1>8. CASE NothingToSave \/ SaveStatus \/ SaveStatusFails
  <2>1. EndReconcile
    BY <1>8 DEF NothingToSave, SaveStatus, SaveStatusFails
  <2>2. /\ cr' \in {cr, [cr EXCEPT !.status = inst.status]} /\ cache' = cache
        /\ lag' \in {"none", "foreign", "own"} /\ queued' \in BOOLEAN
        /\ errs' = errs \/ errs' = errs + 1
        /\ UNCHANGED <<aap, infra, tenant>>
    BY <1>1, <1>8 DEF NothingToSave, SaveStatus, SaveStatusFails, TransientError,
       OwnWrite, apiVars, aapVars, Scalars
  <2>3. Listed([cr EXCEPT !.status = inst.status])
    BY <1>1, ListedWrites
  <2>4. Scalars'
    BY <1>1, <2>1, <2>2, EndTyped DEF Scalars
  <2>5. QED BY <1>1, <2>1, <2>2, <2>3, <2>4, EndTyped
<1>9. QED BY <1>2, <1>3, <1>4, <1>5, <1>6, <1>7, <1>8 DEF CommonStep

(* And those that the others can. *)
LEMMA EnvironmentKeeps ==
  ASSUME EdaParts, aap' \in Seq(AAPJob),
         \/ CacheSync \/ UserDeletes \/ TenantChanges \/ UserCreates \/ Restart
         \/ TimePasses \/ FeedbackStep \/ UNCHANGED edaVars
         \/ \E j \in DOMAIN aap : PlaybookStep(j)
  PROVE  Listed(cr') /\ Listed(cache') /\ Listed(inst') /\ Scalars'
<1>1. Listed(cr) /\ Listed(cache) /\ Listed(inst) /\ Scalars
  BY DEF EdaParts
<1>2. CASE CacheSync \/ TenantChanges \/ TimePasses \/ UNCHANGED edaVars
  BY <1>1, <1>2 DEF CacheSync, TenantChanges, TimePasses, edaVars, vars, apiVars,
     aapVars, Scalars
<1>3. CASE UserDeletes \/ UserCreates
  <2>1. Listed([cr EXCEPT !.deleting = TRUE])
    BY <1>1, ListedWrites
  <2>2. Listed(Settle([cr EXCEPT !.deleting = TRUE])) /\ Listed(NewObject)
    BY <2>1, ListedWrites, NewListed
  <2>3. QED
    BY <1>1, <1>3, <2>2 DEF UserDeletes, UserCreates, ForeignWrite, aapVars,
       Scalars
<1>4. CASE Restart
  BY <1>1, <1>4, EndTyped DEF Restart, TransientError, aapVars, Scalars
<1>5. ASSUME NEW j \in DOMAIN aap, PlaybookStep(j)
      PROVE  Listed(cr') /\ Listed(cache') /\ Listed(inst') /\ Scalars'
  <2>1. Listed([cr EXCEPT !.fins = cr.fins \cup {"aap"}])
    BY <1>1, FinalizersTyped, ListedWrites
  <2>2. Listed(Settle([cr EXCEPT !.fins = cr.fins \ {"aap"}]))
    BY <1>1, FinalizersTyped, ListedWrites
  <2>3. Listed([cr EXCEPT !.annot = aap[j].spec])
    <3>1. aap[j] \in AAPJob
      BY <1>1, LenProperties, ElementOfSeq DEF Scalars
    <3>2. aap[j].spec \in Nat
      BY <3>1 DEF AAPJob
    <3>3. QED BY <1>1, <3>2, ListedWrites
  <2>4. Listed(cr')
    BY <1>1, <1>5, <2>1, <2>2, <2>3 DEF PlaybookStep, PlaybookHolds,
       PlaybookProvisions, PlaybookAnnotates, ProvisionEnds, PlaybookRemoves,
       DeprovisionEnds, ForeignWrite, apiVars
  <2>5. UNCHANGED <<cache, inst, queued, pc, old, reply, tenant, errs>>
    BY <1>5 DEF PlaybookStep, PlaybookHolds, PlaybookProvisions,
       PlaybookAnnotates, ProvisionEnds, PlaybookRemoves, DeprovisionEnds,
       ForeignWrite, apiVars, ctrlVars
  <2>6. /\ lag' \in {"none", "foreign", "own"} /\ fresh' \in BOOLEAN
        /\ infra' \in BOOLEAN
    BY <1>1, <1>5 DEF PlaybookStep, PlaybookHolds, PlaybookProvisions,
       PlaybookAnnotates, ProvisionEnds, PlaybookRemoves, DeprovisionEnds, Drop,
       ForeignWrite, apiVars, ctrlVars, aapVars, Scalars
  <2>7. QED BY <1>1, <2>4, <2>5, <2>6 DEF Scalars
<1>6. CASE FeedbackStep
  <2>1. Listed([cr EXCEPT !.fins = cr.fins \cup {"feedback"}])
    BY <1>1, FinalizersTyped, ListedWrites
  <2>2. QED
    BY <1>1, <1>6, <2>1, NewListed DEF FeedbackStep, FeedbackAddsFinalizer,
       FeedbackRemovesFinalizer, ForeignWrite, aapVars, Scalars
<1>7. QED BY <1>2, <1>3, <1>4, <1>5, <1>6

(* Every step keeps the invariant. *)
LEMMA EdaInvNext == EdaInv /\ [EdaNext]_edaVars => EdaInv'
<1> SUFFICES ASSUME EdaParts, [EdaNext]_edaVars PROVE EdaParts'
  BY EdaInvParts, PTL
<1>1. /\ aap \in Seq(AAPJob) /\ cr \in Object /\ cache \in Object
      /\ inst \in Object /\ FinalizersKnown /\ ClientInv
  BY DEF EdaParts, Listed, Scalars
<1>2. aap' \in Seq(AAPJob)
  BY <1>1, PlaybooksTyped DEF edaVars, vars
<1>3. FinalizersKnown' /\ ClientInv'
  BY <1>1, FinalizersStep, ClientKept
<1>4. lives' \in Nat /\ asked' \in BOOLEAN /\ heir' \in BOOLEAN
  <2>1. lives \in Nat /\ asked \in BOOLEAN /\ heir \in BOOLEAN
    BY DEF EdaParts
  <2>2. CASE EdaProviderStep
    BY <2>1, <2>2 DEF EdaProviderStep, SendCreate, CreateLimited, CreateFails,
       PollCreate, SkipDelete, SendDelete, DeleteLimited, DeleteFails,
       PollDelete, others
  <2>3. CASE UserCreates
    <3>1. lives' \in Nat
      BY <2>1, <2>3 DEF UserCreates
    <3>2. asked' \in BOOLEAN /\ heir' \in BOOLEAN
      BY <2>3, Zenon DEF UserCreates
    <3>3. QED BY <3>1, <3>2
  <2>4. CASE Restart \/ TimePasses \/ UNCHANGED others \/ UNCHANGED edaVars
    BY <2>1, <2>4 DEF Restart, TimePasses, others, edaVars
  <2>5. CASE StoreStatus
    <3>1. UNCHANGED <<lives, asked>>
      BY <2>5 DEF StoreStatus
    <3>2. heir' = (heir \/ (inst.deleting /\ ~cr.deleting))
      BY <2>5 DEF StoreStatus
    <3>3. heir' \in BOOLEAN
      BY <3>2, Zenon
    <3>4. QED BY <2>1, <3>1, <3>3
  <2>6. QED BY <2>2, <2>3, <2>4, <2>5 DEF EdaNext, EdaControllerStep
<1>5. Listed(cr') /\ Listed(cache') /\ Listed(inst') /\ Scalars'
  BY <1>2, ProviderStepKeeps, CommonStepKeeps, EnvironmentKeeps
     DEF EdaNext, EdaControllerStep, StoreStatus
<1>6. QED BY <1>3, <1>4, <1>5 DEF EdaParts

-----------------------------------------------------------------------------
(* What is proved of every behaviour *)

(***************************************************************************)
(* The inductive invariant of the controller with the EDA provider: under  *)
(* stale caches, restarts, lost webhooks and resources that come back.     *)
(***************************************************************************)
THEOREM EdaInvariantHolds == EdaSpec => []EdaInv
BY EdaInvInit, EdaInvNext, PTL DEF EdaSpec

(***************************************************************************)
(* generateEDAJobID and appendJob together never give two listed jobs the  *)
(* same number.                                                            *)
(***************************************************************************)
THEOREM NumbersDistinct == EdaSpec => []JobIDsDistinct
<1>1. EdaInv => JobIDsDistinct
  BY DEF EdaInv
<1>2. QED BY <1>1, EdaInvariantHolds, PTL

(***************************************************************************)
(* TriggerWebhook repeats no request that is younger than the interval.    *)
(***************************************************************************)
THEOREM WebhookNotRepeated == EdaSpec => []RequestRemembered
<1>1. EdaInv => RequestRemembered
  BY ClientInvRemembers DEF EdaInv
<1>2. QED BY <1>1, EdaInvariantHolds, PTL

(***************************************************************************)
(* handleDelete removes the base finalizer only when that of the playbook  *)
(* is not there: the resourceVersion it writes with is the one it looked   *)
(* at.                                                                     *)
(***************************************************************************)
THEOREM ReleasedOnlyByPlaybook == EdaSpec => ReleasedByPlaybook
<1> DEFINE Safe == "base" \in cr.fins /\ "base" \notin cr'.fins
                     => "aap" \notin cr.fins
<1>1. ASSUME EdaInv, EdaNext PROVE Safe
  <2> SUFFICES ASSUME "base" \in cr.fins, "base" \notin cr'.fins
               PROVE  "aap" \notin cr.fins
    OBVIOUS
  <2>1. cr \in Object /\ FinalizersKnown
    BY <1>1 DEF EdaInv, EdaTypeOK, TypeOK
  <2>2. CASE RemoveFinalizer
    BY <2>1, <2>2 DEF RemoveFinalizer, FinalizersKnown
  <2>3. CASE EdaProviderStep
    BY <2>3 DEF EdaProviderStep, SendCreate, CreateLimited, CreateFails,
       PollCreate, SkipDelete, SendDelete, DeleteLimited, DeleteFails,
       PollDelete, apiVars
  <2>4. CASE (CommonStep \/ StoreStatus) /\ ~RemoveFinalizer
    BY <2>1, <2>4 DEF CommonStep, Reconcile, AddFinalizer, FinalizerUpdateFails,
       CreateTenant, HandleUpdate, HandleUpdateFails, NothingToSave, StoreStatus,
       SaveStatus, SaveStatusFails, OwnWrite, apiVars, Object
  <2>5. CASE \/ CacheSync \/ UserDeletes \/ TenantChanges \/ UserCreates
             \/ Restart \/ TimePasses \/ FeedbackStep
    BY <2>1, <2>5 DEF CacheSync, UserDeletes, TenantChanges, UserCreates,
       Restart, TimePasses, FeedbackStep, FeedbackAddsFinalizer,
       FeedbackRemovesFinalizer, vars, apiVars, ForeignWrite, Settle, Object,
       FinalizersKnown
  <2>6. ASSUME NEW j \in DOMAIN aap, PlaybookStep(j) PROVE FALSE
    BY <2>1, <2>6 DEF PlaybookStep, PlaybookHolds, PlaybookProvisions,
       PlaybookAnnotates, ProvisionEnds, PlaybookRemoves, DeprovisionEnds,
       ForeignWrite, Settle, apiVars, Object
  <2>7. QED BY <1>1, <2>2, <2>3, <2>4, <2>5, <2>6 DEF EdaNext, EdaControllerStep
<1>2. EdaInv /\ [EdaNext]_edaVars => [Safe]_edaVars
  BY <1>1
<1>3. QED BY <1>2, EdaInvariantHolds, PTL DEF EdaSpec, ReleasedByPlaybook

-----------------------------------------------------------------------------
(* No wake-up is lost *)

(* EdaInv types what the proofs about ComputeInstance need typed. *)
LEMMA EdaTyped == EdaInv => Typed
BY DEF EdaInv, EdaTypeOK, TypeOK, Typed, Object, Status

(* The provider asks for another turn whenever a webhook is sent, limited or
   not answered, and polls until the finalizer of the playbook has gone. *)
LEMMA EdaProviderRests ==
  ASSUME Typed, RestInv, EdaProviderStep
  PROVE  RestInv'
<1>1. CASE \/ SendCreate \/ CreateLimited \/ CreateFails \/ PollCreate
           \/ SendDelete \/ DeleteLimited \/ DeleteFails
  <2>1. queued' = TRUE /\ UNCHANGED apiVars
    BY <1>1 DEF SendCreate, CreateLimited, CreateFails, PollCreate, SendDelete,
       DeleteLimited, DeleteFails, RequeueAndSave
  <2>2. QED BY <2>1, RequeueRests
<1>2. CASE SkipDelete \/ PollDelete
  <2>1. /\ UNCHANGED <<apiVars, old, tenant>>
        /\ pc = "deprovision" /\ pc' \in {"release", "save"}
        /\ pc' = "save" => queued' = TRUE
        /\ pc' = "release" => queued' = queued
        /\ SameButStatus(inst', inst)
    BY <1>2 DEF SkipDelete, PollDelete, DeprovisionTriggerable, SameButStatus,
       Typed, Object
  <2>2. CASE pc' = "save"
    BY <2>1, <2>2, RequeueRests
  <2>3. CASE pc' = "release"
    <3>1. LastTurn => cr.deleting /\ "base" \in cr.fins
      BY <2>1 DEF RestInv, CopyIsCurrent
    <3>2. QED BY <2>1, <2>3, <3>1, HandlerStepRests DEF Typed
  <2>4. QED BY <2>1, <2>2, <2>3
<1>3. QED BY <1>1, <1>2 DEF EdaProviderStep

(* Restarts, users, the informer, the tenant, the feedback controller and the
   playbooks. *)
LEMMA EdaEnvironmentRests ==
  ASSUME Typed, RestInv,
         \/ CacheSync \/ UserDeletes \/ TenantChanges \/ UserCreates
         \/ Restart \/ TimePasses \/ FeedbackStep
         \/ \E j \in DOMAIN aap : PlaybookStep(j)
         \/ UNCHANGED edaVars
  PROVE  RestInv'
<1>1. CASE CacheSync \/ Restart
  BY <1>1, RestByWakeUp DEF CacheSync, Restart
<1>2. CASE TenantChanges
  BY <1>2, RequeueRests DEF TenantChanges
<1>3. ASSUME NEW j \in DOMAIN aap, PlaybookStep(j) PROVE RestInv'
  <2>1. /\ UNCHANGED <<queued, pc, inst, old, tenant>>
        /\ UNCHANGED apiVars \/ \E new : ForeignWrite(new)
    BY <1>3 DEF PlaybookStep, PlaybookHolds, PlaybookProvisions,
       PlaybookAnnotates, ProvisionEnds, PlaybookRemoves, DeprovisionEnds,
       ctrlVars
  <2>2. QED BY <2>1, RestUntouched, ForeignWriteRests DEF Typed
<1>4. CASE UserDeletes \/ UserCreates \/ FeedbackStep
  <2>1. (\E new : ForeignWrite(new)) /\ queued' = queued
    BY <1>4 DEF UserDeletes, UserCreates, FeedbackStep, FeedbackAddsFinalizer,
       FeedbackRemovesFinalizer
  <2>2. QED BY <2>1, ForeignWriteRests DEF Typed
<1>5. CASE TimePasses \/ UNCHANGED edaVars
  BY <1>5, RestUntouched DEF TimePasses, edaVars, vars, apiVars
<1>6. QED BY <1>1, <1>2, <1>3, <1>4, <1>5

LEMMA EdaRestNext == EdaInv /\ RestInv /\ [EdaNext]_edaVars => RestInv'
BY EdaTyped, EdaProviderRests, CommonStepRests, EdaEnvironmentRests
   DEF EdaNext, EdaControllerStep, CommonStep, StoreStatus

(***************************************************************************)
(* With the EDA provider, too, the controller rests only when nothing is   *)
(* left to do: the rate limit, failing webhooks, restarts and a resource   *)
(* created again under its name lose no work.                              *)
(***************************************************************************)
THEOREM EdaRestsWhenDone == EdaSpec => []RestsWhenDone
<1>1. EdaInit => RestInv
  BY RestInit DEF EdaInit
<1>2. RestInv => RestsWhenDone
  BY DEF RestInv
<1>3. QED
  BY <1>1, <1>2, EdaRestNext, EdaInvariantHolds, PTL DEF EdaSpec

=============================================================================
