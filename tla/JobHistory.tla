----------------------------- MODULE JobHistory -----------------------------
(***************************************************************************)
(* The job list kept in a ComputeInstance's status (api/v1alpha1/          *)
(* job_types.go) and the helpers of the controller that read and write it. *)
(*                                                                         *)
(* A job ID is a natural number: 0 is the empty ID of a job that could not *)
(* be triggered, the others number the launches of the provider.  A        *)
(* timestamp is the rank of the second in which the job was recorded:      *)
(* metav1.Time is stored with second granularity, and only the order of    *)
(* timestamps is ever looked at.                                           *)
(***************************************************************************)
EXTENDS Naturals, Sequences

CONSTANT MaxJobHistory   \* jobs kept in status.jobs (CLOUDKIT_MAX_JOB_HISTORY)

ASSUME MaxJobHistoryAssumption == MaxJobHistory \in Nat \ {0}

NoJobID == 0             \* the empty JobID

JobTypes == {"provision", "deprovision"}

JobStates == {"Pending", "Waiting", "Running", "Succeeded", "Failed",
              "Canceled", "Unknown"}

JobStatus == [id : Nat, type : JobTypes, state : JobStates,
              block : BOOLEAN, ts : Nat]

IsTerminal(state) == state \in {"Succeeded", "Failed", "Canceled"}

IsSuccessful(state) == state = "Succeeded"

JobsOfType(jobs, type) == {i \in DOMAIN jobs : jobs[i].type = type}

(***************************************************************************)
(* Position of the latest job of a type, 0 when there is none.  The scan   *)
(* of the code replaces its candidate only by a job with a strictly later  *)
(* timestamp, so that the first of several jobs of one second wins.        *)
(***************************************************************************)
FindLatestJobByType(jobs, type) ==
  LET I == JobsOfType(jobs, type)
  IN  IF I = {} THEN 0
      ELSE CHOOSE i \in I : \A k \in I : \/ jobs[k].ts < jobs[i].ts
                                         \/ jobs[k].ts = jobs[i].ts /\ i <= k

(* Position of the first job with this ID, 0 when there is none. *)
findJobByID(jobs, id) ==
  LET I == {i \in DOMAIN jobs : jobs[i].id = id}
  IN  IF I = {} THEN 0 ELSE CHOOSE i \in I : \A k \in I : i <= k

(* Replace the job with the ID of job; a job that is not there is ignored. *)
updateJob(jobs, job) ==
  LET i == findJobByID(jobs, job.id)
  IN  IF i = 0 THEN jobs ELSE [jobs EXCEPT ![i] = job]

(* Mutant: the bound is checked before the new job is counted. *)
appendJobThenTrimLate(jobs, job) ==
  LET all == Append(jobs, job)
  IN  IF Len(jobs) > MaxJobHistory
      THEN SubSeq(all, Len(all) - MaxJobHistory + 1, Len(all))
      ELSE all

(* Append a job and keep the last MaxJobHistory ones. *)
appendJob(jobs, job) ==
  LET all == Append(jobs, job)
  IN  IF Len(all) > MaxJobHistory
      THEN SubSeq(all, Len(all) - MaxJobHistory + 1, Len(all))
      ELSE all

(* The job to trigger is missing, or the last attempt left no job ID. *)
NeedsTrigger(jobs, type) ==
  LET i == FindLatestJobByType(jobs, type)
  IN  i # 0 => jobs[i].id = NoJobID

=============================================================================
