-------------------------- MODULE JobHistoryProofs --------------------------
(***************************************************************************)
(* What the helpers of JobHistory return, for job lists of any length.     *)
(***************************************************************************)
EXTENDS JobHistory, SequenceTheorems, WellFoundedInduction, TLAPS

(* A set of natural numbers that is not empty has a least element: where   *)
(* the scans of findJobByID and FindLatestJobByType stop.                  *)
LEMMA LeastNatural ==
  ASSUME NEW I, I \subseteq Nat, I # {}
  PROVE  \E i \in I : \A k \in I : i <= k
<1>1. PICK i \in I : \A k \in I : ~(<<k, i>> \in OpToRel(<, Nat))
  BY NatLessThanWellFounded, WFMin, Zenon
<1>2. ASSUME NEW k \in I PROVE i <= k
  <2>1. ~(k < i)
    BY <1>1, Zenon DEF OpToRel
  <2>2. QED BY <2>1
<1>3. QED BY <1>2

(* An interval is its last element and those before it. *)
LEMMA LastOfInterval ==
  ASSUME NEW n \in Nat, n # 0
  PROVE  1..n = 1..(n - 1) \cup {n}
OBVIOUS

(* Job i is later than job k, or of the same second and listed before it. *)
Before(jobs, k, i) == \/ jobs[k].ts < jobs[i].ts
                      \/ jobs[k].ts = jobs[i].ts /\ i <= k

(* Of two jobs one comes before the other, and the order is transitive. *)
LEMMA BeforeOrder ==
  ASSUME NEW jobs, NEW i \in Nat, NEW k \in Nat, NEW n \in Nat,
         jobs[i].ts \in Nat, jobs[k].ts \in Nat, jobs[n].ts \in Nat
  PROVE  /\ i <= n => jobs[i].ts < jobs[n].ts \/ Before(jobs, n, i)
         /\ Before(jobs, k, i) /\ jobs[i].ts < jobs[n].ts
              => Before(jobs, k, n)
BY DEF Before

(***************************************************************************)
(* The scan of FindLatestJobByType has a winner among any number of jobs.  *)
(* The proof takes the shortest prefix whose jobs in I have none: its last *)
(* job wins, or the winner of the prefix before it does.                   *)
(***************************************************************************)
LEMMA WinnerExists ==
  ASSUME NEW jobs \in Seq(JobStatus), NEW I \in SUBSET DOMAIN jobs, I # {}
  PROVE  \E i \in I : \A k \in I : Before(jobs, k, i)
<1> DEFINE Prefix(n) == I \cap 1..n
           Wins(n) == \E i \in Prefix(n) : \A k \in Prefix(n) : Before(jobs, k, i)
           Bad == {n \in Nat : Prefix(n) # {} /\ ~Wins(n)}
<1>1. /\ Len(jobs) \in Nat /\ DOMAIN jobs = 1..Len(jobs)
      /\ \A k \in DOMAIN jobs : jobs[k] \in JobStatus
  BY LenProperties, ElementOfSeq
<1>2. I \subseteq Nat /\ \A k \in I : jobs[k].ts \in Nat
  BY <1>1 DEF JobStatus
<1>3. Bad = {}
  <2>1. SUFFICES ASSUME Bad # {} PROVE FALSE
    OBVIOUS
  <2>2. PICK n \in Bad : \A m \in Bad : n <= m
    BY <2>1, LeastNatural
  <2>3. n \in Nat /\ Prefix(n) # {} /\ ~Wins(n)
    BY <2>2
  <2>4. n # 0 /\ n - 1 \in Nat
    BY <2>3, <1>2
  <2>5. n - 1 \notin Bad
    <3> HIDE DEF Bad
    <3>1. ~(n <= n - 1)
      BY <2>3
    <3>2. QED BY <3>1, <2>2
  <2>6. Prefix(n) = Prefix(n - 1) \cup (I \cap {n})
    <3>1. 1..n = 1..(n - 1) \cup {n}
      BY <2>3, <2>4, LastOfInterval
    <3>2. QED BY <3>1, Zenon
  <2>7. n \in I
    <3>1. ASSUME n \notin I PROVE FALSE
      <4>1. Prefix(n) = Prefix(n - 1)
        BY <2>6, <3>1
      <4>2. QED BY <4>1, <2>3, <2>4, <2>5
    <3>2. QED BY <3>1
  <2>8. CASE Prefix(n - 1) = {}
    <3>1. Prefix(n) = {n}
      BY <2>6, <2>7, <2>8
    <3>2. Before(jobs, n, n)
      BY <2>3 DEF Before
    <3>3. QED BY <3>1, <3>2, <2>3
  <2>9. CASE Prefix(n - 1) # {}
    <3>1. PICK b \in Prefix(n - 1) : \A k \in Prefix(n - 1) : Before(jobs, k, b)
      BY <2>4, <2>5, <2>9
    <3>2. b \in I /\ b \in Nat /\ b <= n
      BY <3>1, <2>3, <2>4, <1>2
    <3>3. jobs[b].ts \in Nat /\ jobs[n].ts \in Nat
      BY <3>2, <2>7, <1>2
    <3>4. CASE jobs[b].ts < jobs[n].ts
      <4>1. ASSUME NEW k \in Prefix(n - 1) PROVE Before(jobs, k, n)
        <5>1. jobs[k].ts \in Nat
          BY <1>2
        <5>2. k \in Nat /\ Before(jobs, k, b)
          BY <3>1, <1>2
        <5>3. QED BY <5>1, <5>2, <3>2, <3>3, <3>4, <2>3, BeforeOrder
      <4>2. Before(jobs, n, n)
        BY <2>3 DEF Before
      <4>3. QED BY <4>1, <4>2, <2>6, <2>7, <2>3
    <3>5. CASE ~(jobs[b].ts < jobs[n].ts)
      <4>1. Before(jobs, n, b)
        BY <3>2, <3>5, <3>3, <2>3, BeforeOrder
      <4>2. b \in Prefix(n)
        BY <3>1, <2>6
      <4>3. QED BY <4>1, <4>2, <3>1, <2>6, <2>3
    <3>6. QED BY <3>4, <3>5
  <2>10. QED BY <2>8, <2>9
<1>4. Prefix(Len(jobs)) = I
  BY <1>1
<1>5. Wins(Len(jobs))
  BY <1>1, <1>3, <1>4
<1>6. QED BY <1>4, <1>5

(* FindLatestJobByType returns a job of the type, unless there is none. *)
LEMMA FindLatestResult ==
  ASSUME NEW jobs \in Seq(JobStatus), NEW type
  PROVE  LET p == FindLatestJobByType(jobs, type)
         IN  /\ p = 0 <=> JobsOfType(jobs, type) = {}
             /\ p # 0 => /\ p \in DOMAIN jobs
                         /\ jobs[p] \in JobStatus
                         /\ jobs[p].type = type
<1> DEFINE I == JobsOfType(jobs, type)
           p == FindLatestJobByType(jobs, type)
<1>1. DOMAIN jobs = 1..Len(jobs) /\ \A k \in DOMAIN jobs : jobs[k] \in JobStatus
  BY LenProperties, ElementOfSeq
<1>2. CASE I = {}
  BY <1>2 DEF FindLatestJobByType
<1>3. CASE I # {}
  <2>1. I \in SUBSET DOMAIN jobs
    BY DEF JobsOfType
  <2>2. \E i \in I : \A k \in I : Before(jobs, k, i)
    BY <1>3, <2>1, WinnerExists
  <2>3. p = CHOOSE i \in I : \A k \in I : Before(jobs, k, i)
    BY <1>3 DEF FindLatestJobByType, Before
  <2>4. p \in I
    BY <2>2, <2>3
  <2>5. p \in DOMAIN jobs /\ jobs[p].type = type
    BY <2>4 DEF JobsOfType
  <2>6. QED BY <1>1, <1>3, <2>5
<1>4. QED BY <1>2, <1>3

(* findJobByID returns a job with the ID, unless there is none. *)
LEMMA FindByIDResult ==
  ASSUME NEW jobs \in Seq(JobStatus), NEW id
  PROVE  LET i == findJobByID(jobs, id)
         IN  /\ i # 0 => i \in DOMAIN jobs /\ jobs[i].id = id
             /\ (\E k \in DOMAIN jobs : jobs[k].id = id) => i # 0
<1> DEFINE I == {k \in DOMAIN jobs : jobs[k].id = id}
<1>1. DOMAIN jobs = 1..Len(jobs) /\ Len(jobs) \in Nat
  BY LenProperties
<1>2. CASE I = {}
  BY <1>2 DEF findJobByID
<1>3. CASE I # {}
  <2>1. \E i \in I : \A k \in I : i <= k
    <3>1. I \subseteq Nat
      BY <1>1
    <3> HIDE DEF I
    <3>2. QED BY <3>1, <1>3, LeastNatural
  <2>2. findJobByID(jobs, id) = CHOOSE i \in I : \A k \in I : i <= k
    BY <1>3 DEF findJobByID
  <2>3. findJobByID(jobs, id) \in I
    BY <2>1, <2>2
  <2>4. QED BY <1>1, <2>3
<1>4. QED BY <1>2, <1>3

-----------------------------------------------------------------------------
(* updateJob keeps the list as long as it was, and changes one job of it. *)
LEMMA UpdateJobResult ==
  ASSUME NEW jobs \in Seq(JobStatus), NEW job \in JobStatus
  PROVE  /\ updateJob(jobs, job) \in Seq(JobStatus)
         /\ Len(updateJob(jobs, job)) = Len(jobs)
         /\ \A i \in DOMAIN updateJob(jobs, job) :
              \/ updateJob(jobs, job)[i] = job
              \/ i \in DOMAIN jobs /\ updateJob(jobs, job)[i] = jobs[i]
<1> DEFINE i == findJobByID(jobs, job.id)
<1>1. DOMAIN jobs = 1..Len(jobs)
  BY LenProperties
<1>2. CASE i = 0
  BY <1>2 DEF updateJob
<1>3. CASE i # 0
  <2>1. i \in 1..Len(jobs)
    BY <1>1, <1>3, FindByIDResult
  <2>2. updateJob(jobs, job) = [jobs EXCEPT ![i] = job]
    BY <1>3 DEF updateJob
  <2> HIDE DEF i
  <2>3. /\ [jobs EXCEPT ![i] = job] \in Seq(JobStatus)
        /\ Len([jobs EXCEPT ![i] = job]) = Len(jobs)
        /\ \A j \in 1..Len(jobs) :
             [jobs EXCEPT ![i] = job][j] = IF j = i THEN job ELSE jobs[j]
    BY <2>1, ExceptSeq
  <2>4. DOMAIN [jobs EXCEPT ![i] = job] = 1..Len(jobs)
    BY <1>1
  <2>5. QED BY <1>1, <2>2, <2>3, <2>4
<1>4. QED BY <1>2, <1>3

(* appendJob never keeps more than MaxJobHistory jobs, the new one or old ones. *)
LEMMA AppendJobResult ==
  ASSUME NEW jobs \in Seq(JobStatus), NEW job \in JobStatus
  PROVE  /\ appendJob(jobs, job) \in Seq(JobStatus)
         /\ Len(appendJob(jobs, job)) <= MaxJobHistory
         /\ \A i \in DOMAIN appendJob(jobs, job) :
              \/ appendJob(jobs, job)[i] = job
              \/ \E k \in DOMAIN jobs : appendJob(jobs, job)[i] = jobs[k]
<1> DEFINE all == Append(jobs, job)
<1>1. /\ DOMAIN jobs = 1..Len(jobs) /\ Len(jobs) \in Nat
      /\ MaxJobHistory \in Nat \ {0}
  BY LenProperties, MaxJobHistoryAssumption
<1>2. /\ all \in Seq(JobStatus) /\ Len(all) = Len(jobs) + 1
      /\ DOMAIN all = 1..Len(all)
      /\ \A i \in DOMAIN all : all[i] = job \/ (i \in DOMAIN jobs /\ all[i] = jobs[i])
  <2>1. /\ all \in Seq(JobStatus) /\ Len(all) = Len(jobs) + 1
        /\ \A i \in 1..Len(jobs) : all[i] = jobs[i]
        /\ all[Len(jobs) + 1] = job
    BY AppendProperties
  <2> HIDE DEF all
  <2>2. DOMAIN all = 1..Len(all)
    BY <2>1, LenProperties
  <2>3. QED BY <2>1, <2>2, <1>1
<1> HIDE DEF all
<1>3. CASE Len(all) > MaxJobHistory
  <2> DEFINE m == Len(all) - MaxJobHistory + 1
             kept == SubSeq(all, m, Len(all))
  <2>1. m \in 1..Len(all) /\ Len(all) - m + 1 = MaxJobHistory
    BY <1>1, <1>2, <1>3
  <2>2. \A i \in m..Len(all) : all[i] \in JobStatus
    BY <1>2, <2>1, ElementOfSeq
  <2> HIDE DEF m
  <2>3. /\ kept \in Seq(JobStatus) /\ Len(kept) = MaxJobHistory
        /\ \A i \in 1..MaxJobHistory : kept[i] = all[m + i - 1]
    BY <1>1, <1>2, <2>1, <2>2, SubSeqProperties
  <2>4. DOMAIN kept = 1..MaxJobHistory
    BY <2>3, LenProperties
  <2>5. ASSUME NEW i \in 1..MaxJobHistory PROVE m + i - 1 \in DOMAIN all
    BY <1>1, <1>2, <2>1
  <2>6. appendJob(jobs, job) = kept
    BY <1>3 DEF appendJob, all, m
  <2> HIDE DEF kept
  <2>7. QED BY <1>1, <1>2, <2>3, <2>4, <2>5, <2>6
<1>4. CASE ~(Len(all) > MaxJobHistory)
  <2>1. appendJob(jobs, job) = all
    BY <1>4 DEF appendJob, all
  <2>2. QED BY <1>1, <1>2, <1>4, <2>1
<1>5. QED BY <1>3, <1>4

-----------------------------------------------------------------------------
(* The scan of FindLatestJobByType, which replaces its candidate only by a   *)
(* strictly later job, returns the first of the jobs with the latest         *)
(* timestamp.                                                                *)
THEOREM LatestIsFirstOfTheLatest ==
  ASSUME NEW jobs \in Seq(JobStatus), NEW type,
         FindLatestJobByType(jobs, type) # 0
  PROVE  LET p == FindLatestJobByType(jobs, type)
         IN  /\ p \in JobsOfType(jobs, type)
             /\ \A k \in JobsOfType(jobs, type) :
                  /\ jobs[k].ts <= jobs[p].ts
                  /\ k < p => jobs[k].ts < jobs[p].ts
<1> DEFINE I == JobsOfType(jobs, type)
           p == FindLatestJobByType(jobs, type)
<1>1. /\ DOMAIN jobs = 1..Len(jobs) /\ Len(jobs) \in Nat
      /\ \A k \in DOMAIN jobs : jobs[k] \in JobStatus
  BY LenProperties, ElementOfSeq
<1>2. I # {} /\ I \in SUBSET DOMAIN jobs
  BY DEF FindLatestJobByType, JobsOfType
<1>3. p = CHOOSE i \in I : \A k \in I : Before(jobs, k, i)
  BY <1>2 DEF FindLatestJobByType, Before
<1>4. p \in I /\ \A k \in I : Before(jobs, k, p)
  BY <1>2, <1>3, WinnerExists
<1>5. \A k \in I : k \in Nat /\ jobs[k].ts \in Nat
  BY <1>1, <1>2 DEF JobStatus
<1> HIDE DEF p, I
<1>6. ASSUME NEW k \in I
      PROVE  jobs[k].ts <= jobs[p].ts /\ (k < p => jobs[k].ts < jobs[p].ts)
  BY <1>4, <1>5 DEF Before
<1>7. QED BY <1>4, <1>6 DEF p, I

(* What handleProvisioning and handleDeprovisioning count on when they record *)
(* a job and look for it in the next reconcile: a job appended with a later   *)
(* timestamp than those before it survives the trimming and is the latest of  *)
(* its type.  Of two jobs of one second the first one is the latest.       *)
THEOREM RecordedJobIsLatest ==
  ASSUME NEW jobs \in Seq(JobStatus), NEW job \in JobStatus,
         \A k \in DOMAIN jobs : jobs[k].ts < job.ts
  PROVE  LET all == appendJob(jobs, job)
         IN  all[FindLatestJobByType(all, job.type)] = job
<1> DEFINE long == Append(jobs, job)
           all == appendJob(jobs, job)
           p == FindLatestJobByType(all, job.type)
<1>1. /\ all \in Seq(JobStatus)
      /\ \A i \in DOMAIN all :
           all[i] = job \/ \E k \in DOMAIN jobs : all[i] = jobs[k]
  BY AppendJobResult
<1>2. /\ long \in Seq(JobStatus) /\ Len(long) = Len(jobs) + 1
      /\ long[Len(jobs) + 1] = job /\ Len(jobs) \in Nat
      /\ MaxJobHistory \in Nat \ {0}
  BY AppendProperties, LenProperties, MaxJobHistoryAssumption
<1>3. all = IF Len(long) > MaxJobHistory
            THEN SubSeq(long, Len(long) - MaxJobHistory + 1, Len(long))
            ELSE long
  BY DEF appendJob
<1> HIDE DEF long
<1>4. Len(all) \in Nat \ {0} /\ all[Len(all)] = job
  <2>1. CASE Len(long) > MaxJobHistory
    <3> DEFINE m == Len(long) - MaxJobHistory + 1
    <3>1. m \in 1..Len(long) /\ Len(long) - m + 1 = MaxJobHistory
          /\ m + MaxJobHistory - 1 = Len(long)
      BY <1>2, <2>1
    <3>2. \A i \in m..Len(long) : long[i] \in JobStatus
      BY <1>2, <3>1, ElementOfSeq
    <3> HIDE DEF m
    <3>3. /\ Len(SubSeq(long, m, Len(long))) = MaxJobHistory
          /\ \A i \in 1..MaxJobHistory :
               SubSeq(long, m, Len(long))[i] = long[m + i - 1]
      BY <1>2, <3>1, <3>2, SubSeqProperties
    <3>4. all = SubSeq(long, m, Len(long))
      BY <1>3, <2>1 DEF m
    <3>5. MaxJobHistory \in 1..MaxJobHistory
      BY <1>2
    <3>6. all[MaxJobHistory] = long[Len(long)]
      BY <3>1, <3>3, <3>4, <3>5
    <3>7. QED BY <1>2, <3>3, <3>4, <3>6
  <2>2. CASE ~(Len(long) > MaxJobHistory)
    BY <1>2, <1>3, <2>2
  <2>3. QED BY <2>1, <2>2
<1> HIDE DEF all
<1>5. Len(all) \in DOMAIN all
  BY <1>1, <1>4, LenProperties
<1>6. Len(all) \in JobsOfType(all, job.type)
  BY <1>4, <1>5 DEF JobsOfType
<1>7. p # 0
  BY <1>1, <1>6, FindLatestResult
<1>8. /\ p \in JobsOfType(all, job.type)
      /\ \A k \in JobsOfType(all, job.type) : all[k].ts <= all[p].ts
  BY <1>1, <1>7, LatestIsFirstOfTheLatest
<1>9. p \in DOMAIN all /\ job.ts <= all[p].ts
  BY <1>4, <1>6, <1>8 DEF JobsOfType
<1> HIDE DEF p
<1>10. CASE all[p] = job
  BY <1>10 DEF all, p
<1>11. CASE \E k \in DOMAIN jobs : all[p] = jobs[k]
  <2>1. PICK k \in DOMAIN jobs : all[p] = jobs[k]
    BY <1>11
  <2>2. jobs[k] \in JobStatus
    BY ElementOfSeq, LenProperties
  <2>3. jobs[k].ts < job.ts /\ jobs[k].ts \in Nat /\ job.ts \in Nat
    BY <2>2 DEF JobStatus
  <2>4. QED BY <1>9, <2>1, <2>3
<1>12. QED BY <1>1, <1>9, <1>10, <1>11

=============================================================================
