------------------------- MODULE ComputeInstanceHistory -------------------------
(***************************************************************************)
(* What module ComputeInstance promises about jobs and virtual machines,   *)
(* and on which conditions.  The handlers of the controller decide by the  *)
(* job list of their local copy alone: whether a job is to be launched,    *)
(* polled or cancelled.  Three history variables say when that list, AAP   *)
(* or a person has let them down; they restrict nothing.                   *)
(*                                                                         *)
(* A handler begins without the record of the last launch when             *)
(*   - the cache has not seen the status write that recorded it,           *)
(*   - that write failed, or the operator was restarted before it,         *)
(*   - AAP launched the job but its reply was lost, or                     *)
(*   - the record has the timestamp of a failed attempt before it, which   *)
(*     FindLatestJobByType then takes for the latest: a failed launch is   *)
(*     retried at once, and timestamps are stored in seconds.              *)
(***************************************************************************)
EXTENDS ComputeInstance

VARIABLES
  blind,    \* a handler began without the record of the last launch
  strayed,  \* tasks of a cancelled provision job created the virtual machine
  handed    \* the controller let go of a resource that is managed manually

history == <<blind, strayed, handed>>
hvars   == <<vars, history>>

(* The list shows the last job AAP launched as the latest one of its type. *)
Shown(jobs) ==
  LET last == Len(aap)
      i    == FindLatestJobByType(jobs, aap[last].type)
  IN  aap # << >> => i # 0 /\ jobs[i].id = last

(* A handler begins, and its list does not show the last launch. *)
BeginsBlind ==
  /\ pc = "idle" /\ pc' \in {"finalizer", "update", "deprovision"}
  /\ ~Shown(inst'.status.jobs)

(* The virtual machine appears while no provision job is running. *)
Strays ==
  /\ ~infra /\ infra'
  /\ \A j \in DOMAIN aap : aap[j].type = "provision" => aap[j].status # "running"

(* The base finalizer goes, on behalf of a manual resource. *)
HandsOver ==
  "base" \in cr.fins /\ "base" \notin cr'.fins /\ inst.mgmt = "manual"

HInit == Init /\ blind = FALSE /\ strayed = FALSE /\ handed = FALSE

HNext ==
  /\ Next
  /\ blind'   = (blind \/ BeginsBlind)
  /\ strayed' = (strayed \/ Strays)
  /\ handed'  = (handed \/ HandsOver)

HSpec == HInit /\ [][HNext]_hvars

-----------------------------------------------------------------------------
(* Safety *)

(***************************************************************************)
(* Two jobs work on a resource at once only after a handler began without  *)
(* the record of the last launch: handleProvisioning never launches a      *)
(* second job, and handleDeprovisioning launches its job only when the     *)
(* provision job has ended, whatever is cancelled, purged or written by    *)
(* others in between.                                                      *)
(***************************************************************************)
SerialJobs == ~blind => AtMostOneActiveJob

(***************************************************************************)
(* A resource that is gone has left no provision job behind, and no        *)
(* virtual machine unless a cancelled job created it, save after a handler *)
(* began without the record of the last launch, and save for a resource    *)
(* that was handed over to a person.                                       *)
(***************************************************************************)
NothingLeft ==
  ~blind /\ ~handed /\ ~cr.exists =>
    /\ \A j \in DOMAIN aap : aap[j].type = "provision" => ~Active(j)
    /\ infra => strayed

(***************************************************************************)
(* Why they hold.  Only the last job launched can be at work, and a        *)
(* deprovision job is the last one ever.  A handler that may launch a job  *)
(* is shown the last one in its list; a deprovision job is listed only for *)
(* a resource that is being deleted, in every copy of it.                  *)
(***************************************************************************)
LastJobOnly ==
  \A j \in DOMAIN aap : Active(j) \/ aap[j].type = "deprovision" => j = Len(aap)

LaunchSteps == {"finalizer", "update", "provision", "deprovision"}

HandlerSees == pc \in LaunchSteps => Shown(inst.status.jobs)

ListInOrder(o) == JobsOfType(o.status.jobs, "deprovision") # {} => o.deleting

PurgedHaveEnded == \A j \in DOMAIN aap : aap[j].purged => ~Active(j)

(* What a copy knows of the deletion is true, and guides the handler. *)
DeletionSeen ==
  /\ ~cr.exists => cr.fins = {}
  /\ lag = "none" => cache = cr
  /\ \A o \in {cache, inst} : o.deleting => cr.deleting \/ ~cr.exists
  /\ pc \in {"finalizer", "update", "provision"} => ~inst.deleting
  /\ pc \in {"deprovision", "cancel", "release"} => inst.deleting
  /\ pc \in {"update", "provision", "deprovision", "cancel", "release"}
       => "base" \in inst.fins
  /\ pc = "finalizer" /\ fresh => cr.exists /\ ~cr.deleting

(* The resource is not held before the first job and after the last one. *)
HeldForJobs ==
  /\ \A o \in {cache, inst} :
       "base" \in o.fins => "base" \in cr.fins \/ Deprovisioned
  /\ "base" \notin cr.fins => Deprovisioned \/ aap = << >>
  /\ aap = << >> => ~infra

HInv ==
  /\ \A o \in {cr, cache, inst} : ListInOrder(o)
  /\ PurgedHaveEnded
  /\ DeletionSeen
  /\ ~blind => LastJobOnly /\ HandlerSees
  /\ ~blind /\ ~handed => HeldForJobs
  /\ ~blind /\ ~strayed => (Deprovisioned => ~infra)

-----------------------------------------------------------------------------
(* Refinement *)

(* What works on the resource, as far as AAP knows. *)
Work ==
  IF \A j \in DOMAIN aap : ~Active(j) THEN "none"
  ELSE IF \E j \in DOMAIN aap : \A k \in DOMAIN aap : Active(k) <=> k = j
  THEN aap[CHOOSE j \in DOMAIN aap : Active(j)].type
  ELSE "several"

Stage ==
  CASE Deprovisioned -> "clean"
    [] ~Deprovisioned /\ (\E j \in DOMAIN aap : aap[j].type = "deprovision")
         -> "leaving"
    [] OTHER -> "serving"

Held ==
  CASE "base" \in cr.fins -> "yes"
    [] "base" \notin cr.fins /\ cr.exists /\ ~cr.deleting -> "no"
    [] OTHER -> "over"

P == INSTANCE Provisioning
       WITH work <- Work, vm <- infra, stage <- Stage, held <- Held,
            sound <- ~blind /\ ~strayed /\ ~handed

(***************************************************************************)
(* The controller, the API server and AAP together do nothing but what     *)
(* module Provisioning allows: each of their steps is one of its steps or  *)
(* cannot be seen there, as long as no handler began without the record of *)
(* the last launch, no cancelled job created a virtual machine and the     *)
(* resource was not handed over to a person.                               *)
(***************************************************************************)
Provisions == P!Spec

=============================================================================
