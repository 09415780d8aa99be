------------------------------- MODULE Restart -------------------------------
(***************************************************************************)
(* Restart requests of a ComputeInstance, as                               *)
(* internal/controller/computeinstance_restart.go handles them: a user     *)
(* writes a time into spec.restartRequestedAt, the controller deletes the  *)
(* VirtualMachineInstance (VMI), KubeVirt creates it again, and the        *)
(* controller notes the time of the request in status.lastRestartedAt.     *)
(*                                                                         *)
(* The handler runs as a part of handleUpdate, on a copy of the resource   *)
(* read from the informer cache, and its result is stored by               *)
(* updateStatusWithRetry.  The resource is taken to be live and its tenant *)
(* Ready, the states in which handleUpdate gets as far as the restart.     *)
(*                                                                         *)
(* Times are seconds, the granularity in which they are stored.            *)
(***************************************************************************)
EXTENDS Naturals

CONSTANTS
  MaxClock,    \* bound: seconds that pass
  MaxErrors,   \* bound: requests and status writes that fail, restarts of the
               \* operator and VMIs that end by themselves
  Faults       \* what else may happen, a subset of FaultKinds

(***************************************************************************)
(* stale_read  a reconcile starts before the informer cache has seen the   *)
(*             controller's own last status write                          *)
(* crash       the operator restarts at any moment                         *)
(* impatient   the user asks again, or withdraws, while a restart is under *)
(*             way                                                         *)
(* same_second KubeVirt creates a VMI within the second of the request     *)
(***************************************************************************)
FaultKinds == {"stale_read", "crash", "impatient", "same_second"}

ASSUME RestartAssumption ==
  /\ MaxClock \in Nat \ {0}
  /\ MaxErrors \in Nat
  /\ Faults \subseteq FaultKinds

VARIABLES
  cr,       \* spec.restartRequestedAt and the status, in the API server
  cache,    \* the same in the informer cache
  queued,   \* the work queue holds the key of the resource
  pc,       \* step of the reconcile under way, "idle" between reconciles
  inst,     \* the local copy the reconcile works on
  old,      \* the local copy as it was read
  vm,       \* the playbook has created the VirtualMachine
  vmi,      \* the VMI, and when it was created last
  clock,    \* the current second
  errs,     \* failures so far
  killed    \* history: VMIs deleted for each request, counted up to
            \* MaxErrors + 2

ctrlVars == <<queued, pc, inst, old>>
envVars  == <<vm, clock>>
vars     == <<cr, cache, queued, pc, inst, old, vm, vmi, clock, errs, killed>>

-----------------------------------------------------------------------------
(* Types *)

Conditions == {"RestartInProgress", "RestartFailed"}

(* A time that is not set is 0. *)
Resource == [requested : Nat, last : Nat, cond : SUBSET Conditions,
             ref : BOOLEAN]

VMI == [phase : {"absent", "running", "terminating"}, created : Nat]

Steps == {"idle", "check", "perform", "delete", "save"}

NewResource == [requested |-> 0, last |-> 0, cond |-> {}, ref |-> FALSE]

(* Times are not in the future. *)
TypeOK ==
  /\ cr \in Resource /\ cache \in Resource /\ inst \in Resource
  /\ old \in Resource
  /\ \A o \in {cr, cache, inst} : o.requested <= clock /\ o.last <= clock
  /\ queued \in BOOLEAN /\ vm \in BOOLEAN
  /\ pc \in Steps
  /\ vmi \in VMI /\ vmi.created <= clock
  /\ clock \in Nat /\ errs \in Nat
  /\ killed \in [1..MaxClock -> 0..MaxErrors + 2]

Init ==
  /\ cr = NewResource /\ cache = NewResource
  /\ queued = TRUE /\ pc = "idle"
  /\ inst = NewResource /\ old = NewResource
  /\ vm = FALSE /\ vmi = [phase |-> "absent", created |-> 0]
  /\ clock = 1 /\ errs = 0
  /\ killed = [t \in 1..MaxClock |-> 0]

-----------------------------------------------------------------------------
(* The reconcile *)

SameStatus(o, p) == o.last = p.last /\ o.cond = p.cond /\ o.ref = p.ref

Failure == errs < MaxErrors /\ errs' = errs + 1

EndReconcile ==
  pc' = "idle" /\ inst' = NewResource /\ old' = NewResource

(* Mutant: taking the request back forgets the restarts there have been. *)
ClearedWithHistory(o) == [o EXCEPT !.cond = {}, !.last = 0]

(* clearRestartConditions *)
Cleared(o) == [o EXCEPT !.cond = {}]

(* Mutant: one restart is enough. *)
AlreadyProcessedOnce(o) == o.last # 0

(* The request was processed before. *)
AlreadyProcessed(o) == o.last # 0 /\ o.requested <= o.last

(* Mutant: a restart in progress is not waited for. *)
InProgressUnlessPending(o) ==
  "RestartInProgress" \in o.cond /\ AlreadyProcessed(o)

InProgress(o) == "RestartInProgress" \in o.cond

(* The local copy once handleKubeVirtVM has noted the virtual machine. *)
Read == [cache EXCEPT !.ref = @ \/ vm]

(* Reconcile up to the first request of handleRestartRequest. *)
Reconcile ==
  /\ pc = "idle" /\ queued
  /\ ~SameStatus(cache, cr) => "stale_read" \in Faults
  /\ queued' = FALSE
  /\ old' = cache
  /\ \/ /\ Read.requested = 0
        /\ inst' = Cleared(Read) /\ pc' = "save"
     \/ /\ Read.requested # 0
        /\ inst' = Read
        /\ pc' = CASE InProgress(Read) -> "check"
                   [] ~InProgress(Read) /\ AlreadyProcessed(Read) -> "save"
                   [] OTHER -> "perform"
  /\ UNCHANGED <<cr, cache, envVars, vmi, errs, killed>>

(* Mutant: any VMI that is there counts as the new one. *)
CompletedByAny(o) == o.ref /\ vmi.phase # "absent"

(* The VMI was created after the request. *)
Completed(o) ==
  o.ref /\ vmi.phase # "absent" /\ vmi.created > o.requested

(* checkRestartCompletion; while it is not complete, nothing is requeued. *)
CheckRestartCompletion ==
  /\ pc = "check"
  /\ inst' = IF Completed(inst)
             THEN [Cleared(inst) EXCEPT !.last = inst.requested] ELSE inst
  /\ pc' = "save"
  /\ UNCHANGED <<cr, cache, queued, old, envVars, vmi, errs, killed>>

(* performRestart up to the request that deletes the VMI. *)
PerformRestart ==
  /\ pc = "perform"
  /\ \/ /\ ~inst.ref
        /\ inst' = [inst EXCEPT !.cond = @ \cup {"RestartFailed"}]
        /\ pc' = "save"
     \/ /\ inst.ref /\ vmi.phase = "absent"
        /\ inst' = [inst EXCEPT !.cond = @ \cup {"RestartInProgress"}]
        /\ pc' = "save"
     \/ /\ inst.ref /\ vmi.phase # "absent"
        /\ pc' = "delete" /\ UNCHANGED inst
  /\ UNCHANGED <<cr, cache, queued, old, envVars, vmi, errs, killed>>

(* Reading the VMI fails: the key is requeued. *)
ReadVMIFails ==
  /\ pc \in {"check", "perform"} /\ inst.ref
  /\ Failure
  /\ pc' = "save" /\ queued' = TRUE
  /\ UNCHANGED <<cr, cache, inst, old, envVars, vmi, killed>>

(* The VMI of that name is deleted; one that is gone is as good. *)
DeleteVMI ==
  /\ pc = "delete"
  /\ IF vmi.phase = "running"
     THEN /\ vmi' = [vmi EXCEPT !.phase = "terminating"]
          /\ killed' = [killed EXCEPT ![inst.requested] =
                        IF @ < MaxErrors + 2 THEN @ + 1 ELSE @]
     ELSE UNCHANGED <<vmi, killed>>
  /\ inst' = [inst EXCEPT !.cond = {"RestartInProgress"}]
  /\ pc' = "save"
  /\ UNCHANGED <<cr, cache, queued, old, envVars, errs>>

DeleteVMIFails ==
  /\ pc = "delete"
  /\ Failure
  /\ inst' = [inst EXCEPT !.cond = @ \cup {"RestartFailed"}]
  /\ pc' = "save" /\ queued' = TRUE
  /\ UNCHANGED <<cr, cache, old, envVars, vmi, killed>>

NothingToSave ==
  /\ pc = "save" /\ SameStatus(inst, old)
  /\ EndReconcile
  /\ UNCHANGED <<cr, cache, queued, envVars, vmi, errs, killed>>

(* updateStatusWithRetry succeeds when the cache it reads is up to date. *)
SaveStatus ==
  /\ pc = "save" /\ ~SameStatus(inst, old)
  /\ cache = cr
  /\ cr' = [inst EXCEPT !.requested = cr.requested]
  /\ EndReconcile
  /\ UNCHANGED <<cache, queued, envVars, vmi, errs, killed>>

(* It gives up after its last conflict, and at any other error at once. *)
SaveStatusFails ==
  /\ pc = "save" /\ ~SameStatus(inst, old)
  /\ Failure
  /\ queued' = TRUE
  /\ EndReconcile
  /\ UNCHANGED <<cr, cache, envVars, vmi, killed>>

(* The operator restarts with a new cache and looks at every resource. *)
Crash ==
  /\ "crash" \in Faults
  /\ pc # "idle"
  /\ Failure
  /\ EndReconcile
  /\ cache' = cr /\ queued' = TRUE
  /\ UNCHANGED <<cr, envVars, vmi, killed>>

(* The informer delivers the latest version and enqueues the key. *)
CacheSync ==
  /\ cache # cr
  /\ cache' = cr /\ queued' = TRUE
  /\ UNCHANGED <<cr, pc, inst, old, envVars, vmi, errs, killed>>

-----------------------------------------------------------------------------
(* User, playbook and KubeVirt *)

(* No restart is under way, as far as the status says. *)
Settled == cr.requested = 0 \/ cr.last = cr.requested

RequestRestart ==
  /\ clock < MaxClock
  /\ clock > cr.requested /\ clock > cr.last
  /\ Settled \/ "impatient" \in Faults
  /\ cr' = [cr EXCEPT !.requested = clock]
  /\ UNCHANGED <<cache, ctrlVars, envVars, vmi, errs, killed>>

WithdrawRequest ==
  /\ cr.requested # 0
  /\ Settled \/ "impatient" \in Faults
  /\ cr' = [cr EXCEPT !.requested = 0]
  /\ UNCHANGED <<cache, ctrlVars, envVars, vmi, errs, killed>>

(* The controller watches virtual machines: every change of theirs, and of
   their VMI, which they report in their status, enqueues the resource. *)
PlaybookCreatesVM ==
  /\ ~vm /\ vm' = TRUE
  /\ queued' = TRUE
  /\ UNCHANGED <<cr, cache, pc, inst, old, vmi, clock, errs, killed>>

KubeVirtCreatesVMI ==
  /\ vm /\ vmi.phase = "absent"
  /\ clock = cr.requested => "same_second" \in Faults
  /\ vmi' = [phase |-> "running", created |-> clock]
  /\ queued' = TRUE
  /\ UNCHANGED <<cr, cache, pc, inst, old, envVars, errs, killed>>

VMIDisappears ==
  /\ vmi.phase = "terminating"
  /\ vmi' = [vmi EXCEPT !.phase = "absent"]
  /\ queued' = TRUE
  /\ UNCHANGED <<cr, cache, pc, inst, old, envVars, errs, killed>>

(* The guest shuts down or the node fails. *)
VMIEnds ==
  /\ vmi.phase = "running"
  /\ Failure
  /\ vmi' = [vmi EXCEPT !.phase = "absent"]
  /\ queued' = TRUE
  /\ UNCHANGED <<cr, cache, pc, inst, old, envVars, killed>>

Tick ==
  /\ clock < MaxClock
  /\ clock' = clock + 1
  /\ UNCHANGED <<cr, cache, ctrlVars, vm, vmi, errs, killed>>

-----------------------------------------------------------------------------
ControllerStep ==
  \/ Reconcile \/ CheckRestartCompletion \/ PerformRestart \/ ReadVMIFails
  \/ DeleteVMI \/ DeleteVMIFails
  \/ NothingToSave \/ SaveStatus \/ SaveStatusFails

KubeVirtStep ==
  PlaybookCreatesVM \/ KubeVirtCreatesVMI \/ VMIDisappears

Next ==
  \/ ControllerStep
  \/ KubeVirtStep
  \/ VMIEnds
  \/ Crash
  \/ CacheSync
  \/ RequestRestart
  \/ WithdrawRequest
  \/ Tick

Spec == Init /\ [][Next]_vars

(* Nothing is assumed of the user; errors are bounded. *)
Fairness ==
  /\ WF_vars(ControllerStep)
  /\ WF_vars(KubeVirtStep)
  /\ WF_vars(CacheSync)
  /\ WF_vars(Tick)

FairSpec == Spec /\ Fairness

-----------------------------------------------------------------------------
(* Properties *)

(***************************************************************************)
(* When the status says that the request of some second was served, the    *)
(* VMI really was created after that second - however often conflicts,     *)
(* restarts of the operator and further requests come in between.          *)
(***************************************************************************)
RestartIsTrue == cr.last # 0 => vmi.created > cr.last

(***************************************************************************)
(* Why it holds: the cache and the local copy say nothing untrue either,   *)
(* since the one is the source of the other and that one of the status.    *)
(***************************************************************************)
TrueCopies ==
  \A o \in {cr, cache, inst} : o.last # 0 => vmi.created > o.last

(***************************************************************************)
(* status.lastRestartedAt never goes back: a status computed from an older *)
(* copy does not overwrite a later completion, which would restart the     *)
(* machine again.                                                          *)
(***************************************************************************)
LastNeverGoesBack == [][cr'.last >= cr.last]_vars

(***************************************************************************)
(* Why it holds when a reconcile sees the status it stored: a copy carries *)
(* no request that is later than the current one, no completion later than *)
(* its request, and the local copy no completion older than the stored.    *)
(***************************************************************************)
InOrder ==
  /\ \A o \in {cr, cache, inst} : o.requested = 0 \/ o.last <= o.requested
  /\ cr.requested # 0 => /\ cache.requested <= cr.requested
                         /\ inst.requested <= cr.requested
                         /\ inst.last <= cr.requested
  /\ pc # "idle" => cr.last <= inst.last
  /\ pc \in {"check", "perform", "delete"} => inst.requested # 0

(***************************************************************************)
(* One request costs the user's machine one VMI, and another one at most   *)
(* for every failure that keeps the status from being stored.              *)
(***************************************************************************)
AtMostOneRestart == \A t \in 1..MaxClock : killed[t] <= 1 + errs

(***************************************************************************)
(* checkRestartCompletion asks for no other turn, so that what becomes of  *)
(* the VMI is all that brings the controller back: when it waits and the   *)
(* cache has seen everything, no VMI is running that a request has yet to  *)
(* replace - for a user who waits, and times that tell the VMIs apart.     *)
(***************************************************************************)
Resting == pc = "idle" /\ ~queued /\ cache = cr

RestsWhenDone ==
  Resting => cr.requested = 0 \/ cr.last >= cr.requested \/ vmi.phase # "running"

(***************************************************************************)
(* "The controller will execute the restart if this timestamp is greater   *)
(* than status.lastRestartedAt": a request is eventually served, unless it *)
(* is withdrawn or replaced by another one.                                *)
(***************************************************************************)
RequestServed ==
  \A t \in 1..MaxClock :
    cr.requested = t ~> cr.last >= t \/ cr.requested # t

=============================================================================
