---------------------------- MODULE RestartProofs ----------------------------
(***************************************************************************)
(* The safety theorems about restart requests: a restart the status notes  *)
(* has taken place, whatever goes wrong; the note never goes back as long  *)
(* as a reconcile sees the status it has stored itself; and then a user    *)
(* who waits loses one VMI to a request and one to each failure at most;   *)
(* and no request is left unserved by a controller that rests.             *)
(***************************************************************************)
EXTENDS Restart, TLAPS

(* The initial resource and the end of a reconcile are well-typed. *)
LEMMA NewResourceTyped ==
  NewResource \in Resource /\ NewResource.requested = 0 /\ NewResource.last = 0
BY DEF NewResource, Resource, Conditions

(***************************************************************************)
(* What the steps make of each variable.                                   *)
(***************************************************************************)
LEMMA MovesOfStore ==
  [Next]_vars =>
    /\ \/ cr' \in {cr, [inst EXCEPT !.requested = cr.requested],
                   [cr EXCEPT !.requested = 0]}
       \/ cr' = [cr EXCEPT !.requested = clock] /\ clock > cr.last
    /\ cache' \in {cache, cr}
    /\ old' \in {old, cache, NewResource}
BY DEF Next, ControllerStep, KubeVirtStep, Reconcile, CheckRestartCompletion,
   PerformRestart, ReadVMIFails, DeleteVMI, DeleteVMIFails, NothingToSave,
   SaveStatus, SaveStatusFails, Crash, CacheSync, RequestRestart,
   WithdrawRequest, PlaybookCreatesVM, KubeVirtCreatesVMI, VMIDisappears,
   VMIEnds, Tick, vars, ctrlVars, envVars, EndReconcile, Failure

LEMMA MovesOfEnvironment ==
  [Next]_vars =>
    /\ vmi' \in {vmi, [vmi EXCEPT !.phase = "absent"],
                 [vmi EXCEPT !.phase = "terminating"],
                 [phase |-> "running", created |-> clock]}
    /\ clock' \in {clock, clock + 1}
    /\ errs' \in {errs, errs + 1}
BY DEF Next, ControllerStep, KubeVirtStep, Reconcile, CheckRestartCompletion,
   PerformRestart, ReadVMIFails, DeleteVMI, DeleteVMIFails, NothingToSave,
   SaveStatus, SaveStatusFails, Crash, CacheSync, RequestRestart,
   WithdrawRequest, PlaybookCreatesVM, KubeVirtCreatesVMI, VMIDisappears,
   VMIEnds, Tick, vars, ctrlVars, envVars, EndReconcile, Failure

LEMMA OnlyDeletionsCount ==
  [Next]_vars =>
    \/ killed' = killed
    \/ /\ DeleteVMI
       /\ killed' = [killed EXCEPT ![inst.requested] =
                       IF @ < MaxErrors + 2 THEN @ + 1 ELSE @]
BY DEF Next, ControllerStep, KubeVirtStep, Reconcile, CheckRestartCompletion,
   PerformRestart, ReadVMIFails, DeleteVMI, DeleteVMIFails, NothingToSave,
   SaveStatus, SaveStatusFails, Crash, CacheSync, RequestRestart,
   WithdrawRequest, PlaybookCreatesVM, KubeVirtCreatesVMI, VMIDisappears,
   VMIEnds, Tick, vars, ctrlVars, envVars, EndReconcile, Failure

LEMMA MovesOfReconcile ==
  inst \in Resource /\ [Next]_vars =>
    \/ inst' \in {inst, Read, Cleared(Read), NewResource}
    \/ \E c \in SUBSET Conditions : inst' = [inst EXCEPT !.cond = c]
    \/ CheckRestartCompletion
BY DEF Next, ControllerStep, KubeVirtStep, Reconcile, CheckRestartCompletion,
   PerformRestart, ReadVMIFails, DeleteVMI, DeleteVMIFails, NothingToSave,
   SaveStatus, SaveStatusFails, Crash, CacheSync, RequestRestart,
   WithdrawRequest, PlaybookCreatesVM, KubeVirtCreatesVMI, VMIDisappears,
   VMIEnds, Tick, vars, ctrlVars, envVars, EndReconcile, Failure,
   Conditions, Resource

LEMMA MovesOfControl ==
  queued \in BOOLEAN /\ vm \in BOOLEAN /\ pc \in Steps /\ [Next]_vars =>
    queued' \in BOOLEAN /\ vm' \in BOOLEAN /\ pc' \in Steps
<1> SUFFICES ASSUME queued \in BOOLEAN, vm \in BOOLEAN, pc \in Steps, [Next]_vars
             PROVE  queued' \in BOOLEAN /\ vm' \in BOOLEAN /\ pc' \in Steps
  OBVIOUS
<1>1. queued' = queued \/ queued' = TRUE \/ queued' = FALSE
  BY DEF Next, ControllerStep, KubeVirtStep, Reconcile, CheckRestartCompletion,
     PerformRestart, ReadVMIFails, DeleteVMI, DeleteVMIFails, NothingToSave,
     SaveStatus, SaveStatusFails, Crash, CacheSync, RequestRestart,
     WithdrawRequest, PlaybookCreatesVM, KubeVirtCreatesVMI, VMIDisappears,
     VMIEnds, Tick, vars, ctrlVars, envVars, EndReconcile, Failure
<1>2. vm' = vm \/ vm' = TRUE
  BY DEF Next, ControllerStep, KubeVirtStep, Reconcile, CheckRestartCompletion,
     PerformRestart, ReadVMIFails, DeleteVMI, DeleteVMIFails, NothingToSave,
     SaveStatus, SaveStatusFails, Crash, CacheSync, RequestRestart,
     WithdrawRequest, PlaybookCreatesVM, KubeVirtCreatesVMI, VMIDisappears,
     VMIEnds, Tick, vars, ctrlVars, envVars, EndReconcile, Failure
<1>3. pc' = pc \/ pc' \in Steps
  BY DEF Next, ControllerStep, KubeVirtStep, Reconcile, CheckRestartCompletion,
     PerformRestart, ReadVMIFails, DeleteVMI, DeleteVMIFails, NothingToSave,
     SaveStatus, SaveStatusFails, Crash, CacheSync, RequestRestart,
     WithdrawRequest, PlaybookCreatesVM, KubeVirtCreatesVMI, VMIDisappears,
     VMIEnds, Tick, vars, ctrlVars, envVars, EndReconcile, Failure, Steps
<1>4. QED BY <1>1, <1>2, <1>3

(***************************************************************************)
(* The variables keep their types, and no time is in the future.           *)
(***************************************************************************)
LEMMA TypeStep == TypeOK /\ [Next]_vars => TypeOK'
<1> SUFFICES ASSUME TypeOK, [Next]_vars PROVE TypeOK'
  OBVIOUS
<1>1. /\ cr \in Resource /\ cache \in Resource /\ inst \in Resource
      /\ old \in Resource /\ clock \in Nat /\ errs \in Nat
      /\ vmi \in VMI /\ vmi.created <= clock
      /\ \A o \in {cr, cache, inst} : o.requested <= clock /\ o.last <= clock
      /\ killed \in [1..MaxClock -> 0..MaxErrors + 2]
  BY DEF TypeOK
<1>2. queued' \in BOOLEAN /\ vm' \in BOOLEAN /\ pc' \in Steps
  BY MovesOfControl DEF TypeOK
<1>3. /\ clock' \in Nat /\ errs' \in Nat /\ clock <= clock'
      /\ vmi' \in VMI /\ vmi'.created <= clock'
  BY <1>1, MovesOfEnvironment DEF VMI
<1>4. killed' \in [1..MaxClock -> 0..MaxErrors + 2]
  <2>1. CASE inst.requested \notin 1..MaxClock
    BY <1>1, <2>1, OnlyDeletionsCount
  <2>2. CASE inst.requested \in 1..MaxClock
    <3>1. killed[inst.requested] \in 0..MaxErrors + 2
      BY <1>1, <2>2
    <3>2. MaxErrors \in Nat
      BY RestartAssumption
    <3>3. QED BY <1>1, <3>1, <3>2, OnlyDeletionsCount
  <2>3. QED BY <2>1, <2>2
<1>5. cr' \in Resource /\ cr'.requested <= clock /\ cr'.last <= clock
  BY <1>1, MovesOfStore DEF Resource
<1>6. cache' \in Resource /\ cache'.requested <= clock /\ cache'.last <= clock
  BY <1>1, MovesOfStore
<1>7. old' \in Resource
  BY <1>1, MovesOfStore, NewResourceTyped
<1>8. inst' \in Resource /\ inst'.requested <= clock /\ inst'.last <= clock
  <2>1. CASE CheckRestartCompletion
    BY <1>1, <2>1 DEF CheckRestartCompletion, Cleared, Resource
  <2>2. /\ Read \in Resource /\ Cleared(Read) \in Resource
        /\ Read.requested = cache.requested /\ Read.last = cache.last
        /\ Cleared(Read).requested = cache.requested
        /\ Cleared(Read).last = cache.last
    BY <1>1 DEF Read, Cleared, Resource, TypeOK
  <2>3. CASE inst' \in {inst, Read, Cleared(Read), NewResource}
    BY <1>1, <2>2, <2>3, NewResourceTyped
  <2>4. CASE \E c \in SUBSET Conditions : inst' = [inst EXCEPT !.cond = c]
    BY <1>1, <2>4 DEF Resource
  <2>5. QED BY <1>1, <2>1, <2>3, <2>4, MovesOfReconcile
<1>9. \A o \in {cr', cache', inst'} : o.requested <= clock' /\ o.last <= clock'
  <2>1. \A n \in Nat : n <= clock => n <= clock'
    BY <1>1, <1>3
  <2>2. QED BY <1>5, <1>6, <1>8, <2>1 DEF Resource
<1>10. QED BY <1>2, <1>3, <1>4, <1>5, <1>6, <1>7, <1>8, <1>9 DEF TypeOK

(* Type correctness of the restart protocol. *)
THEOREM RestartTypeCorrect == Spec => []TypeOK
<1>1. ASSUME Init PROVE TypeOK
  <2>1. /\ cr \in Resource /\ cache \in Resource /\ inst \in Resource
        /\ old \in Resource
        /\ \A o \in {cr, cache, inst} : o.requested <= clock /\ o.last <= clock
    BY <1>1, NewResourceTyped DEF Init
  <2>2. vmi \in VMI /\ vmi.created <= clock /\ clock \in Nat /\ errs \in Nat
    BY <1>1 DEF Init, VMI
  <2>3. queued \in BOOLEAN /\ vm \in BOOLEAN /\ pc \in Steps
    BY <1>1 DEF Init, Steps
  <2>4. killed \in [1..MaxClock -> 0..MaxErrors + 2]
    BY <1>1, RestartAssumption DEF Init
  <2>5. QED BY <2>1, <2>2, <2>3, <2>4 DEF TypeOK
<1>2. QED BY <1>1, TypeStep, PTL DEF Spec

-----------------------------------------------------------------------------
(* Creation times only grow. *)
LEMMA CreatedGrows == TypeOK /\ [Next]_vars => vmi'.created >= vmi.created
BY MovesOfEnvironment DEF TypeOK, VMI

(* Where the times of completion in the copies come from: from each other, *)
(* or from a completed request.                                            *)
LEMMA SourceOfLast ==
  TypeOK /\ [Next]_vars =>
    /\ cr'.last \in {cr.last, inst.last}
    /\ cache'.last \in {cache.last, cr.last}
    /\ \/ inst'.last \in {inst.last, cache.last, 0}
       \/ /\ pc = "check" /\ Completed(inst)
          /\ inst'.last = inst.requested /\ vmi' = vmi
<1> SUFFICES ASSUME TypeOK, [Next]_vars
    PROVE /\ cr'.last \in {cr.last, inst.last}
          /\ cache'.last \in {cache.last, cr.last}
          /\ \/ inst'.last \in {inst.last, cache.last, 0}
             \/ /\ pc = "check" /\ Completed(inst)
                /\ inst'.last = inst.requested /\ vmi' = vmi
  OBVIOUS
<1>1. cr \in Resource /\ cache \in Resource /\ inst \in Resource
  BY DEF TypeOK
<1>2. cr'.last \in {cr.last, inst.last} /\ cache'.last \in {cache.last, cr.last}
  BY <1>1, MovesOfStore DEF Resource
<1>3. CASE CheckRestartCompletion
  BY <1>1, <1>2, <1>3 DEF CheckRestartCompletion, Cleared, Resource
<1>4. CASE ~CheckRestartCompletion
  <2>1. Read.last = cache.last /\ Cleared(Read).last = cache.last
    BY <1>1 DEF Read, Cleared, Resource
  <2>2. inst'.last \in {inst.last, cache.last, 0}
    BY <1>1, <1>4, <2>1, MovesOfReconcile DEF Resource, NewResource
  <2>3. QED BY <1>2, <2>2
<1>5. QED BY <1>3, <1>4

(***************************************************************************)
(* A restart that status.lastRestartedAt notes has taken place: the VMI    *)
(* was created after the request, whichever faults there are.              *)
(***************************************************************************)
THEOREM NotedRestartsTookPlace == Spec => []RestartIsTrue
<1>1. Init => TrueCopies
  BY DEF Init, TrueCopies, NewResource
<1>2. TypeOK /\ TrueCopies /\ [Next]_vars => TrueCopies'
  <2> SUFFICES ASSUME TypeOK, TrueCopies, [Next]_vars PROVE TrueCopies'
    OBVIOUS
  <2>1. /\ cr.last \in Nat /\ cache.last \in Nat /\ inst.last \in Nat
        /\ vmi.created \in Nat /\ inst.requested \in Nat
    BY DEF TypeOK, Resource, VMI
  <2>2. vmi'.created \in Nat /\ vmi'.created >= vmi.created
    BY TypeStep, CreatedGrows DEF TypeOK, VMI
  <2>3. Completed(inst) => vmi.created > inst.requested
    BY DEF Completed
  <2>4. \A n \in Nat : vmi.created > n => vmi'.created > n
    BY <2>1, <2>2
  <2>5. \A n \in {cr.last, cache.last, inst.last} : n # 0 => vmi'.created > n
    BY <2>1, <2>4 DEF TrueCopies
  <2>6. cr'.last # 0 => vmi'.created > cr'.last
    BY <2>5, SourceOfLast
  <2>7. cache'.last # 0 => vmi'.created > cache'.last
    BY <2>5, SourceOfLast
  <2>8. inst'.last # 0 => vmi'.created > inst'.last
    BY <2>3, <2>5, SourceOfLast
  <2>9. QED BY <2>6, <2>7, <2>8 DEF TrueCopies
<1>3. TrueCopies => RestartIsTrue
  BY DEF TrueCopies, RestartIsTrue
<1>4. QED BY <1>1, <1>2, <1>3, RestartTypeCorrect, PTL DEF Spec

-----------------------------------------------------------------------------
(* Every step keeps the order, and none takes the stored completion back. *)
LEMMA OrderStep ==
  ASSUME "stale_read" \notin Faults, TypeOK, InOrder, [Next]_vars
  PROVE  InOrder' /\ cr'.last >= cr.last
<1>1. /\ cr \in Resource /\ cache \in Resource /\ inst \in Resource
      /\ clock \in Nat
      /\ \A o \in {cr, cache, inst} : o.requested <= clock /\ o.last <= clock
  BY DEF TypeOK
<1>2. \A o \in {cr, cache, inst} :
        /\ o.requested \in Nat /\ o.last \in Nat
        /\ o.requested = 0 \/ o.last <= o.requested
  BY <1>1 DEF InOrder, Resource
<1>3. /\ cr.requested # 0 => /\ cache.requested <= cr.requested
                            /\ inst.requested <= cr.requested
                            /\ inst.last <= cr.requested
      /\ pc # "idle" => cr.last <= inst.last
      /\ pc \in {"check", "perform", "delete"} => inst.requested # 0
  BY DEF InOrder
<1>4. CASE Reconcile
  <2>1. /\ Read.requested = cache.requested /\ Read.last = cache.last
        /\ Cleared(Read).requested = cache.requested
        /\ Cleared(Read).last = cache.last
    BY <1>1 DEF Read, Cleared, Resource
  <2>2. /\ inst'.requested = cache.requested /\ inst'.last = cache.last
        /\ pc' \in {"check", "perform", "delete"} => cache.requested # 0
        /\ UNCHANGED <<cr, cache>>
    BY <1>4, <2>1 DEF Reconcile
  <2>3. cache.last = cr.last
    BY <1>4 DEF Reconcile, SameStatus
  <2>4. QED BY <1>2, <1>3, <2>2, <2>3 DEF InOrder
<1>5. CASE CheckRestartCompletion
  <2>1. /\ inst'.requested = inst.requested
        /\ inst'.last \in {inst.last, inst.requested}
        /\ pc = "check" /\ pc' = "save" /\ UNCHANGED <<cr, cache>>
    BY <1>1, <1>5 DEF CheckRestartCompletion, Cleared, Resource
  <2>2. QED BY <1>2, <1>3, <2>1 DEF InOrder
<1>6. CASE PerformRestart \/ ReadVMIFails \/ DeleteVMI \/ DeleteVMIFails
  <2>1. /\ inst'.requested = inst.requested /\ inst'.last = inst.last
        /\ UNCHANGED <<cr, cache>>
    BY <1>1, <1>6 DEF PerformRestart, ReadVMIFails, DeleteVMI, DeleteVMIFails,
       Resource
  <2>2. /\ pc \in {"check", "perform", "delete"}
        /\ pc' \in {"save", "delete"}
    BY <1>6 DEF PerformRestart, ReadVMIFails, DeleteVMI, DeleteVMIFails
  <2>3. QED BY <1>2, <1>3, <2>1, <2>2 DEF InOrder
<1>7. CASE SaveStatus
  <2>1. /\ cr'.requested = cr.requested /\ cr'.last = inst.last
        /\ pc = "save" /\ pc' = "idle" /\ cache' = cache /\ inst' = NewResource
    BY <1>1, <1>7 DEF SaveStatus, EndReconcile, Resource
  <2>2. QED BY <1>2, <1>3, <2>1, NewResourceTyped DEF InOrder
<1>8. CASE NothingToSave \/ SaveStatusFails \/ Crash
  <2>1. /\ cr' = cr /\ cache' \in {cache, cr}
        /\ pc' = "idle" /\ inst' = NewResource
    BY <1>8 DEF NothingToSave, SaveStatusFails, Crash, EndReconcile
  <2>2. QED BY <1>2, <1>3, <2>1, NewResourceTyped DEF InOrder
<1>9. CASE CacheSync
  <2>1. cache' = cr /\ UNCHANGED <<cr, pc, inst>>
    BY <1>9 DEF CacheSync
  <2>2. QED BY <1>2, <1>3, <2>1 DEF InOrder
<1>10. CASE RequestRestart \/ WithdrawRequest
  <2>1. /\ cr'.requested \in {clock, 0} /\ cr'.last = cr.last
        /\ UNCHANGED <<cache, pc, inst>>
    BY <1>1, <1>10 DEF RequestRestart, WithdrawRequest, Resource, ctrlVars
  <2>2. QED BY <1>1, <1>2, <1>3, <2>1 DEF InOrder
<1>11. CASE KubeVirtStep \/ VMIEnds \/ Tick \/ UNCHANGED vars
  <2>1. UNCHANGED <<cr, cache, pc, inst>>
    BY <1>11 DEF KubeVirtStep, PlaybookCreatesVM, KubeVirtCreatesVMI,
       VMIDisappears, VMIEnds, Tick, vars, ctrlVars
  <2>2. QED BY <1>2, <1>3, <2>1 DEF InOrder
<1>12. QED
  BY <1>4, <1>5, <1>6, <1>7, <1>8, <1>9, <1>10, <1>11 DEF Next, ControllerStep

(***************************************************************************)
(* status.lastRestartedAt never goes back, whatever conflicts, crashes and *)
(* further requests there are, as long as no reconcile starts from a cache *)
(* without the status the controller stored last.                          *)
(***************************************************************************)
THEOREM RestartsAreNotForgotten ==
  "stale_read" \notin Faults => (Spec => LastNeverGoesBack)
<1> SUFFICES ASSUME "stale_read" \notin Faults PROVE Spec => LastNeverGoesBack
  OBVIOUS
<1>1. Init => InOrder
  BY DEF Init, InOrder, NewResource
<1>2. TypeOK /\ InOrder /\ [Next]_vars => InOrder'
  BY OrderStep
<1>3. TypeOK /\ InOrder /\ [Next]_vars => [cr'.last >= cr.last]_vars
  BY OrderStep
<1>4. QED BY <1>1, <1>2, <1>3, RestartTypeCorrect, PTL
          DEF Spec, LastNeverGoesBack

-----------------------------------------------------------------------------
(* One VMI for a request *)

(* The request of a copy is not served yet. *)
Unserved(o) == o.requested # 0 /\ o.last < o.requested

(***************************************************************************)
(* Why a request costs one VMI: a user who waits replaces no request that  *)
(* is not served (OneUnserved), so that a restart in progress is that of   *)
(* the stored request (ProgressKnown), and a reconcile that may delete the *)
(* VMI has read that none is in progress (DeletesOnce).                    *)
(***************************************************************************)
OneUnserved ==
  /\ cache.requested # 0 /\ cr.last < cache.requested
       => cr.requested = cache.requested
  /\ pc # "idle" /\ inst.requested # 0 /\ cr.last < inst.requested
       => cr.requested = inst.requested

ProgressKnown ==
  /\ InProgress(cr) => /\ Unserved(cr)
                       /\ cache.requested = cr.requested
                       /\ pc # "idle" => inst.requested = cr.requested
  /\ pc # "idle" /\ InProgress(inst) => Unserved(inst)
  /\ pc = "check" => InProgress(inst)
  /\ pc = "save" /\ InProgress(old) => InProgress(inst) \/ ~Unserved(inst)

DeletesOnce ==
  /\ pc # "idle" => SameStatus(old, cr)
  /\ pc \in {"perform", "delete"} => Unserved(inst) /\ ~InProgress(old)

(* The request deletes no further VMI: it is served, or the restart is noted
   to be in progress, or is about to be. *)
Spent(t) ==
  \/ cr.last >= t
  \/ cr.requested = t /\ InProgress(cr)
  \/ pc = "save" /\ inst.requested = t /\ InProgress(inst)

KillsCounted ==
  \A t \in 1..MaxClock :
    killed[t] <= errs \/ (killed[t] <= 1 + errs /\ Spent(t))

(* The parts together. *)
CalmInv == OneUnserved /\ ProgressKnown /\ DeletesOnce

(* The controller sees its own status, the user waits for a restart. *)
Patient == Faults \cap {"stale_read", "impatient"} = {}

(* Every step of a reconcile keeps the invariant of a patient user. *)
LEMMA StepsKeepCalm ==
  ASSUME Patient, TypeOK, InOrder, CalmInv, ControllerStep
  PROVE  CalmInv'
<1>1. /\ cr \in Resource /\ cache \in Resource /\ inst \in Resource
      /\ old \in Resource
  BY DEF TypeOK
<1>2. \A o \in {cr, cache, inst} : o.requested \in Nat /\ o.last \in Nat
  BY <1>1 DEF Resource
<1>3. pc # "idle" => cr.last <= inst.last
  BY DEF InOrder
<1>4. CASE Reconcile
  <2>1. /\ Read.requested = cache.requested /\ Read.last = cache.last
        /\ Read.cond = cache.cond
        /\ Cleared(Read).requested = cache.requested
        /\ Cleared(Read).last = cache.last /\ Cleared(Read).cond = {}
    BY <1>1 DEF Read, Cleared, Resource
  <2>2. /\ SameStatus(cache, cr) /\ old' = cache /\ UNCHANGED <<cr, cache>>
        /\ inst'.requested = cache.requested /\ inst'.last = cache.last
        /\ pc' \in {"check", "perform", "save"}
    BY <1>4, <2>1 DEF Reconcile, Patient
  <2>3. /\ pc' # "idle" /\ InProgress(inst') =>
             inst'.requested # 0 /\ inst'.cond = cache.cond
        /\ pc' = "check" => InProgress(inst')
        /\ pc' = "perform" => Unserved(inst') /\ ~InProgress(cache)
        /\ pc' = "save" => ~InProgress(inst') /\ ~Unserved(inst')
    BY <1>2, <1>4, <2>1, <2>2
       DEF Reconcile, InProgress, AlreadyProcessed, Unserved
  <2>4. InProgress(cache) => Unserved(cache)
    BY <2>2 DEF CalmInv, ProgressKnown, SameStatus, InProgress, Unserved
  <2>5. OneUnserved'
    BY <2>2 DEF CalmInv, OneUnserved
  <2>6. ProgressKnown'
    BY <2>2, <2>3, <2>4 DEF CalmInv, ProgressKnown, InProgress, Unserved
  <2>7. DeletesOnce'
    BY <2>2, <2>3 DEF DeletesOnce, SameStatus
  <2>8. QED BY <2>5, <2>6, <2>7 DEF CalmInv
<1>5. CASE CheckRestartCompletion
  <2>1. /\ UNCHANGED <<cr, cache, old>> /\ pc = "check" /\ pc' = "save"
        /\ inst'.requested = inst.requested
        /\ \/ inst' = inst
           \/ inst'.cond = {} /\ inst'.last = inst.requested
    BY <1>1, <1>5 DEF CheckRestartCompletion, Cleared, Resource
  <2>2. OneUnserved' /\ DeletesOnce'
    BY <2>1 DEF CalmInv, OneUnserved, DeletesOnce, SameStatus
  <2>3. ProgressKnown'
    BY <1>2, <2>1 DEF CalmInv, ProgressKnown, InProgress, Unserved
  <2>4. QED BY <2>2, <2>3 DEF CalmInv
<1>6. CASE PerformRestart \/ DeleteVMI \/ DeleteVMIFails
  <2>1. /\ UNCHANGED <<cr, cache, old>> /\ pc \in {"perform", "delete"}
        /\ pc' \in {"save", "delete"}
        /\ inst'.requested = inst.requested /\ inst'.last = inst.last
    BY <1>1, <1>6 DEF PerformRestart, DeleteVMI, DeleteVMIFails, Resource
  <2>2. OneUnserved' /\ DeletesOnce'
    BY <2>1 DEF CalmInv, OneUnserved, DeletesOnce, SameStatus, Unserved
  <2>3. ProgressKnown'
    BY <2>1 DEF CalmInv, ProgressKnown, DeletesOnce, InProgress, Unserved
  <2>4. QED BY <2>2, <2>3 DEF CalmInv
<1>7. CASE ReadVMIFails
  <2>1. /\ UNCHANGED <<cr, cache, old, inst>> /\ pc \in {"check", "perform"}
        /\ pc' = "save"
    BY <1>7 DEF ReadVMIFails
  <2>2. QED
    BY <2>1 DEF CalmInv, OneUnserved, ProgressKnown, DeletesOnce, SameStatus,
       InProgress, Unserved
<1>8. CASE NothingToSave \/ SaveStatusFails
  <2>1. UNCHANGED <<cr, cache>> /\ pc' = "idle"
    BY <1>8 DEF NothingToSave, SaveStatusFails, EndReconcile
  <2>2. QED
    BY <2>1 DEF CalmInv, OneUnserved, ProgressKnown, DeletesOnce, InProgress,
       Unserved
<1>9. CASE SaveStatus
  <2>1. /\ pc = "save" /\ pc' = "idle" /\ cache = cr /\ cache' = cache
        /\ cr'.requested = cr.requested /\ cr'.last = inst.last
        /\ cr'.cond = inst.cond
    BY <1>1, <1>9 DEF SaveStatus, EndReconcile, Resource
  <2>2. OneUnserved' /\ DeletesOnce'
    BY <2>1 DEF OneUnserved, DeletesOnce
  <2>3. InProgress(inst) => Unserved(inst) /\ cr.requested = inst.requested
    BY <1>2, <1>3, <2>1 DEF CalmInv, OneUnserved, ProgressKnown, Unserved
  <2>4. ProgressKnown'
    BY <2>1, <2>3 DEF ProgressKnown, InProgress, Unserved
  <2>5. QED BY <2>2, <2>4 DEF CalmInv
<1>10. QED
  BY <1>4, <1>5, <1>6, <1>7, <1>8, <1>9 DEF ControllerStep

(* So does everything else. *)
LEMMA OthersKeepCalm ==
  ASSUME Patient, TypeOK, InOrder, CalmInv, [Next]_vars, ~ControllerStep
  PROVE  CalmInv'
<1>1. cr \in Resource /\ cache \in Resource /\ inst \in Resource
  BY DEF TypeOK
<1>2. \A o \in {cr, cache, inst} : o.requested \in Nat /\ o.last \in Nat
  BY <1>1 DEF Resource
<1>3. CASE RequestRestart \/ WithdrawRequest
  <2>1. /\ cr'.last = cr.last /\ cr'.cond = cr.cond /\ cr'.ref = cr.ref
        /\ cr.requested = 0 \/ cr.last = cr.requested
        /\ UNCHANGED <<cache, pc, inst, old>>
    BY <1>1, <1>3 DEF RequestRestart, WithdrawRequest, Settled, Patient,
       ctrlVars, Resource
  <2>2. ~InProgress(cr) /\ ~InProgress(cr')
    BY <1>2, <2>1 DEF CalmInv, ProgressKnown, Unserved, InProgress
  <2>3. OneUnserved'
    BY <1>2, <2>1 DEF CalmInv, OneUnserved
  <2>4. ProgressKnown' /\ DeletesOnce'
    BY <2>1, <2>2 DEF CalmInv, ProgressKnown, DeletesOnce, SameStatus,
       InProgress, Unserved
  <2>5. QED BY <2>3, <2>4 DEF CalmInv
<1>4. CASE CacheSync
  <2>1. cache' = cr /\ UNCHANGED <<cr, pc, inst, old>>
    BY <1>4 DEF CacheSync
  <2>2. QED
    BY <2>1 DEF CalmInv, OneUnserved, ProgressKnown, DeletesOnce, SameStatus,
       InProgress, Unserved
<1>5. CASE Crash
  <2>1. cache' = cr /\ cr' = cr /\ pc' = "idle"
    BY <1>5 DEF Crash, EndReconcile
  <2>2. QED
    BY <2>1 DEF CalmInv, OneUnserved, ProgressKnown, DeletesOnce, InProgress,
       Unserved
<1>6. CASE KubeVirtStep \/ VMIEnds \/ Tick \/ UNCHANGED vars
  <2>1. UNCHANGED <<cr, cache, pc, inst, old>>
    BY <1>6 DEF KubeVirtStep, PlaybookCreatesVM, KubeVirtCreatesVMI,
       VMIDisappears, VMIEnds, Tick, vars, ctrlVars
  <2>2. QED
    BY <2>1 DEF CalmInv, OneUnserved, ProgressKnown, DeletesOnce, SameStatus,
       InProgress, Unserved
<1>7. QED BY <1>3, <1>4, <1>5, <1>6 DEF Next

(* A request that is spent stays so, unless something fails. *)
LEMMA SpentPersists ==
  ASSUME Patient, TypeOK, InOrder, CalmInv, [Next]_vars, NEW t \in Nat \ {0},
         Spent(t), errs' = errs
  PROVE  Spent(t)'
<1>1. cr \in Resource /\ cache \in Resource /\ inst \in Resource
  BY DEF TypeOK
<1>2. \A o \in {cr, cache, inst} : o.requested \in Nat /\ o.last \in Nat
  BY <1>1 DEF Resource
<1>3. cr'.last \in Nat /\ cr'.last >= cr.last
  BY TypeStep, OrderStep DEF Patient, TypeOK, Resource
<1>4. CASE cr.last >= t
  BY <1>2, <1>3, <1>4 DEF Spent
<1>5. CASE SaveStatus
  <2>1. /\ pc = "save" /\ cr'.requested = cr.requested /\ cr'.last = inst.last
        /\ cr'.cond = inst.cond
    BY <1>1, <1>5 DEF SaveStatus, Resource
  <2>2. InProgress(cr) => InProgress(old) /\ inst.requested = cr.requested
    BY <2>1 DEF CalmInv, ProgressKnown, DeletesOnce, SameStatus, InProgress
  <2>3. InProgress(inst) => inst.requested = cr.requested
    BY <1>2, <2>1 DEF CalmInv, ProgressKnown, OneUnserved, Unserved, InOrder
  <2>4. InProgress(cr) => InProgress(inst) \/ inst.last >= cr.requested
    BY <1>2, <2>1, <2>2 DEF CalmInv, ProgressKnown, Unserved
  <2>5. QED BY <1>2, <1>4, <2>1, <2>3, <2>4 DEF Spent, InProgress
<1>6. CASE NothingToSave
  <2>1. /\ pc = "save" /\ cr' = cr /\ inst.cond = old.cond
    BY <1>6 DEF NothingToSave, SameStatus
  <2>2. InProgress(inst) => InProgress(cr) /\ inst.requested = cr.requested
    BY <2>1 DEF CalmInv, ProgressKnown, DeletesOnce, SameStatus, InProgress
  <2>3. QED BY <1>4, <2>1, <2>2 DEF Spent, InProgress
<1>7. CASE RequestRestart \/ WithdrawRequest
  <2>1. /\ cr.requested = 0 \/ cr.last = cr.requested
        /\ UNCHANGED <<pc, inst>> /\ cr'.last = cr.last
    BY <1>1, <1>7 DEF RequestRestart, WithdrawRequest, Settled, Patient,
       ctrlVars, Resource
  <2>2. ~InProgress(cr)
    BY <1>2, <2>1 DEF CalmInv, ProgressKnown, Unserved
  <2>3. QED BY <1>4, <2>1, <2>2 DEF Spent, InProgress
<1>8. CASE \/ Reconcile \/ CheckRestartCompletion \/ PerformRestart \/ DeleteVMI
           \/ CacheSync \/ KubeVirtStep \/ Tick \/ UNCHANGED vars
  <2>1. cr' = cr /\ (pc = "save" => pc' = pc /\ inst' = inst)
    BY <1>8 DEF Reconcile, CheckRestartCompletion, PerformRestart, DeleteVMI,
       CacheSync, KubeVirtStep, PlaybookCreatesVM, KubeVirtCreatesVMI,
       VMIDisappears, Tick, vars, ctrlVars
  <2>2. QED BY <2>1 DEF Spent, InProgress
<1>9. ~(ReadVMIFails \/ DeleteVMIFails \/ SaveStatusFails \/ Crash \/ VMIEnds)
  BY DEF ReadVMIFails, DeleteVMIFails, SaveStatusFails, Crash, VMIEnds,
     Failure, TypeOK
<1>10. QED BY <1>5, <1>6, <1>7, <1>8, <1>9 DEF Next, ControllerStep

(* A request whose VMI is deleted was not spent, and now it is. *)
LEMMA DeletionSpends ==
  ASSUME Patient, TypeOK, InOrder, CalmInv, DeleteVMI
  PROVE  /\ ~Spent(inst.requested)
         /\ Spent(inst.requested)' /\ errs' = errs
<1>1. cr \in Resource /\ inst \in Resource
  BY DEF TypeOK
<1>2. /\ pc = "delete" /\ pc' = "save" /\ errs' = errs
      /\ inst'.requested = inst.requested
      /\ inst'.cond = {"RestartInProgress"}
  BY <1>1 DEF DeleteVMI, Resource
<1>3. ~InProgress(cr)
  BY <1>2 DEF CalmInv, DeletesOnce, SameStatus, InProgress
<1>4. ~(cr.last >= inst.requested)
  BY <1>1, <1>2 DEF CalmInv, DeletesOnce, Unserved, InOrder, Resource
<1>5. QED BY <1>2, <1>3, <1>4 DEF Spent, InProgress

LEMMA CountStep ==
  ASSUME Patient, TypeOK, InOrder, CalmInv, KillsCounted, [Next]_vars
  PROVE  KillsCounted'
<1> SUFFICES ASSUME NEW t \in 1..MaxClock
             PROVE  \/ killed'[t] <= errs'
                    \/ (killed'[t] <= 1 + errs' /\ Spent(t)')
  BY DEF KillsCounted
<1>1. /\ killed[t] \in Nat /\ errs \in Nat /\ errs' \in {errs, errs + 1}
      /\ t \in Nat \ {0}
  BY MovesOfEnvironment, RestartAssumption DEF TypeOK
<1>2. killed[t] <= errs \/ (killed[t] <= 1 + errs /\ Spent(t))
  BY DEF KillsCounted
<1>3. CASE killed'[t] = killed[t]
  BY <1>1, <1>2, <1>3, SpentPersists
<1>4. CASE killed'[t] # killed[t]
  <2>1. DeleteVMI /\ t = inst.requested /\ killed'[t] = killed[t] + 1
    BY <1>4, OnlyDeletionsCount DEF TypeOK
  <2>2. ~Spent(t) /\ Spent(t)' /\ errs' = errs
    BY <2>1, DeletionSpends DEF DeleteVMI, Spent, InProgress
  <2>3. QED BY <1>1, <1>2, <2>1, <2>2
<1>5. QED BY <1>3, <1>4

(***************************************************************************)
(* A user who waits for a restart loses one VMI to it, and another one at  *)
(* most for every failure that keeps the status from being stored,         *)
(* whatever conflicts and crashes there are.                               *)
(***************************************************************************)
THEOREM OneRestartPerRequest ==
  ASSUME Patient PROVE Spec => []AtMostOneRestart
<1>1. Init => InOrder /\ CalmInv /\ KillsCounted
  BY RestartAssumption DEF Init, InOrder, CalmInv, OneUnserved, ProgressKnown,
     DeletesOnce, KillsCounted, NewResource, InProgress
<1>2. TypeOK /\ InOrder /\ CalmInv /\ [Next]_vars => InOrder' /\ CalmInv'
  BY OrderStep, StepsKeepCalm, OthersKeepCalm DEF Patient
<1>3. TypeOK /\ InOrder /\ CalmInv /\ KillsCounted /\ [Next]_vars
        => KillsCounted'
  BY CountStep
<1>4. TypeOK /\ KillsCounted => AtMostOneRestart
  BY DEF TypeOK, KillsCounted, AtMostOneRestart
<1>5. QED BY <1>1, <1>2, <1>3, <1>4, RestartTypeCorrect, PTL DEF Spec

-----------------------------------------------------------------------------
(* No wake-up is lost *)

(* Nobody else makes two VMIs within a second. *)
Punctual == Patient /\ "same_second" \notin Faults

(* A VMI that runs while a restart is in progress is the new one. *)
NewWhenRunning(o) ==
  InProgress(o) /\ vmi.phase = "running" => vmi.created > o.requested

VMIsInOrder ==
  /\ vmi.phase # "absent" => vm
  /\ NewWhenRunning(cr)
  /\ pc # "idle" => NewWhenRunning(inst)

(* The machine still runs that the request in the cache is to replace. *)
OldVMIRuns == cache = cr /\ Unserved(cr) /\ vmi.phase = "running"

(* No reconcile ends there that no other will follow: it stores something. *)
TurnInv ==
  ~queued =>
    /\ pc = "idle" => ~OldVMIRuns
    /\ pc # "idle" => /\ old = cache /\ inst.requested = cache.requested
                      /\ vm => inst.ref
    /\ pc \in {"check", "perform"} => inst.last = old.last
    /\ pc = "save" /\ OldVMIRuns => ~SameStatus(inst, old)

RestInv == VMIsInOrder /\ TurnInv

(* Every step keeps what is known of VMIs during a restart. *)
LEMMA VMIsStep ==
  ASSUME Punctual, TypeOK, InOrder, CalmInv, VMIsInOrder, [Next]_vars
  PROVE  VMIsInOrder'
<1>1. /\ cr \in Resource /\ cache \in Resource /\ inst \in Resource
      /\ vmi \in VMI /\ clock \in Nat /\ vmi.created <= clock
      /\ cr.requested <= clock /\ cr.last <= clock /\ inst.requested <= clock
  BY DEF TypeOK
<1>2. \A o \in {cr, cache, inst} : o.requested \in Nat /\ o.last \in Nat
  BY <1>1 DEF Resource
<1>3. /\ vmi.phase # "absent" => vm
      /\ NewWhenRunning(cr)
      /\ pc # "idle" => NewWhenRunning(inst)
  BY DEF VMIsInOrder
<1>4. pc # "idle" /\ InProgress(inst) => cr.requested = inst.requested
  BY <1>2 DEF CalmInv, ProgressKnown, OneUnserved, Unserved, InOrder
<1>5. CASE Reconcile
  <2>1. /\ Read.requested = cache.requested /\ Read.cond = cache.cond
        /\ Cleared(Read).cond = {}
    BY <1>1 DEF Read, Cleared, Resource
  <2>2. /\ inst' = Read \/ inst' = Cleared(Read)
        /\ cache.cond = cr.cond /\ UNCHANGED <<cr, vmi, vm>>
    BY <1>5 DEF Reconcile, SameStatus, Punctual, Patient, envVars
  <2>3. InProgress(inst') => InProgress(cr) /\ inst'.requested = cr.requested
    BY <2>1, <2>2 DEF CalmInv, ProgressKnown, InProgress
  <2> QED
    BY <1>3, <2>2, <2>3 DEF VMIsInOrder, NewWhenRunning, InProgress
<1>6. CASE CheckRestartCompletion \/ ReadVMIFails
  <2>1. /\ inst' = inst \/ inst'.cond = {}
        /\ UNCHANGED <<cr, vmi, vm>> /\ pc # "idle"
    BY <1>1, <1>6 DEF CheckRestartCompletion, ReadVMIFails, Cleared, Resource,
       envVars
  <2> QED
    BY <1>3, <2>1 DEF VMIsInOrder, NewWhenRunning, InProgress
<1>7. CASE PerformRestart
  <2>1. /\ UNCHANGED <<cr, vmi, vm>> /\ pc # "idle"
        /\ inst'.requested = inst.requested
        /\ InProgress(inst') => InProgress(inst) \/ vmi.phase = "absent"
    BY <1>1, <1>7 DEF PerformRestart, InProgress, Resource, envVars
  <2> QED
    BY <1>3, <2>1 DEF VMIsInOrder, NewWhenRunning, InProgress
<1>8. CASE DeleteVMI \/ DeleteVMIFails
  <2>1. /\ UNCHANGED <<cr, vm>> /\ pc # "idle"
        /\ inst'.requested = inst.requested
        /\ vmi'.phase \in {vmi.phase, "terminating"}
        /\ vmi' = vmi \/ vmi'.phase # "running"
        /\ vmi'.phase # "absent" => vmi.phase # "absent"
        /\ vmi'.phase = "running" => InProgress(inst') = InProgress(inst)
    BY <1>1, <1>8 DEF DeleteVMI, DeleteVMIFails, InProgress, Resource, VMI, envVars
  <2> QED
    BY <1>3, <2>1 DEF VMIsInOrder, NewWhenRunning, InProgress
<1>9. CASE SaveStatus
  <2>1. /\ UNCHANGED <<vmi, vm>> /\ pc # "idle" /\ pc' = "idle"
        /\ cr'.requested = cr.requested /\ cr'.cond = inst.cond
    BY <1>1, <1>9 DEF SaveStatus, EndReconcile, Resource, envVars
  <2> QED
    BY <1>3, <1>4, <2>1 DEF VMIsInOrder, NewWhenRunning, InProgress
<1>10. CASE NothingToSave \/ SaveStatusFails \/ Crash
  <2>1. UNCHANGED <<cr, vmi, vm>> /\ pc' = "idle"
    BY <1>10 DEF NothingToSave, SaveStatusFails, Crash, EndReconcile, envVars
  <2> QED
    BY <1>3, <2>1 DEF VMIsInOrder, NewWhenRunning, InProgress
<1>11. CASE RequestRestart \/ WithdrawRequest
  <2>1. /\ UNCHANGED <<vmi, vm, pc, inst>> /\ cr'.cond = cr.cond
        /\ cr.requested = 0 \/ cr.last = cr.requested
    BY <1>1, <1>11 DEF RequestRestart, WithdrawRequest, Settled, Punctual, Patient,
       ctrlVars, envVars, Resource
  <2>2. ~InProgress(cr) /\ ~InProgress(cr')
    BY <1>2, <2>1 DEF CalmInv, ProgressKnown, Unserved, InProgress
  <2> QED
    BY <1>3, <2>1, <2>2 DEF VMIsInOrder, NewWhenRunning, InProgress
<1>12. CASE KubeVirtCreatesVMI
  <2>1. /\ UNCHANGED <<cr, vm, pc, inst>> /\ vm
        /\ vmi'.created = clock /\ clock # cr.requested
    BY <1>12 DEF KubeVirtCreatesVMI, Punctual, envVars
  <2>2. clock > cr.requested
    BY <1>1, <1>2, <2>1
  <2> QED
    BY <1>4, <2>1, <2>2 DEF VMIsInOrder, NewWhenRunning, InProgress
<1>13. CASE VMIDisappears \/ VMIEnds
  <2>1. UNCHANGED <<cr, vm, pc, inst>> /\ vmi'.phase = "absent"
    BY <1>1, <1>13 DEF VMIDisappears, VMIEnds, VMI, envVars
  <2> QED
    BY <2>1 DEF VMIsInOrder, NewWhenRunning
<1>14. CASE PlaybookCreatesVM \/ CacheSync \/ Tick \/ UNCHANGED vars
  <2>1. UNCHANGED <<cr, pc, inst, vmi>> /\ (vm => vm')
    BY <1>14 DEF PlaybookCreatesVM, CacheSync, Tick, vars, ctrlVars, envVars
  <2> QED
    BY <1>3, <2>1 DEF VMIsInOrder, NewWhenRunning, InProgress
<1> QED
  BY <1>5, <1>6, <1>7, <1>8, <1>9, <1>10, <1>11, <1>12, <1>13, <1>14
     DEF Next, ControllerStep, KubeVirtStep

(* Every reconcile that leaves the old VMI running stores something, or has
   another one follow. *)
LEMMA TurnStep ==
  ASSUME Punctual, TypeOK, InOrder, CalmInv, VMIsInOrder, TurnInv, [Next]_vars
  PROVE  TurnInv'
<1>1. /\ cr \in Resource /\ cache \in Resource /\ inst \in Resource
      /\ old \in Resource /\ vmi \in VMI /\ clock \in Nat
  BY DEF TypeOK
<1>2. \A o \in {cr, cache, inst, old} :
        o.requested \in Nat /\ o.last \in Nat /\ o.ref \in BOOLEAN
  BY <1>1 DEF Resource
<1>3. CASE Reconcile
  <2>1. /\ Read.requested = cache.requested /\ Read.last = cache.last
        /\ (vm => Read.ref)
        /\ Cleared(Read).requested = cache.requested
        /\ Cleared(Read).last = cache.last
        /\ (vm => Cleared(Read).ref)
    BY <1>1 DEF Read, Cleared, Resource
  <2>2. /\ old' = cache /\ inst' \in {Read, Cleared(Read)}
        /\ pc' \in {"check", "perform", "save"}
        /\ UNCHANGED <<cr, cache, vm, vmi>>
        /\ pc' = "save" => cache.requested = 0 \/ AlreadyProcessed(Read)
    BY <1>3, <2>1 DEF Reconcile, envVars
  <2>3. pc' = "save" => ~Unserved(cache)
    BY <1>2, <2>1, <2>2 DEF AlreadyProcessed, Unserved
  <2> QED
    BY <2>1, <2>2, <2>3 DEF TurnInv, OldVMIRuns, Unserved
<1>4. CASE CheckRestartCompletion
  <2>1. /\ pc = "check" /\ pc' = "save" /\ inst'.requested = inst.requested
        /\ inst'.ref = inst.ref
        /\ UNCHANGED <<cr, cache, old, queued, vm, vmi>>
    BY <1>1, <1>4 DEF CheckRestartCompletion, Cleared, Resource, envVars
  <2>2. ASSUME ~queued, OldVMIRuns PROVE ~SameStatus(inst', old)
    <3>1. /\ old = cache /\ inst.requested = cache.requested /\ inst.ref
          /\ inst.last = old.last
      BY <2>1, <2>2 DEF TurnInv, VMIsInOrder, OldVMIRuns
    <3>2. InProgress(inst) /\ inst.last < inst.requested
      BY <2>1 DEF CalmInv, ProgressKnown, Unserved
    <3>3. Completed(inst)
      BY <2>1, <2>2, <3>1, <3>2
         DEF Completed, OldVMIRuns, VMIsInOrder, NewWhenRunning
    <3>4. inst'.last = inst.requested
      BY <1>1, <1>4, <3>3 DEF CheckRestartCompletion, Cleared, Resource
    <3> QED
      BY <1>2, <3>1, <3>2, <3>4 DEF SameStatus
  <2> QED
    BY <2>1, <2>2 DEF TurnInv, OldVMIRuns, Unserved
<1>5. CASE PerformRestart
  <2>1. /\ pc = "perform" /\ pc' \in {"save", "delete"}
        /\ inst'.requested = inst.requested /\ inst'.ref = inst.ref
        /\ UNCHANGED <<cr, cache, old, queued, vm, vmi>>
        /\ pc' = "save" => ~inst.ref \/ vmi.phase = "absent"
    BY <1>1, <1>5 DEF PerformRestart, Resource, envVars
  <2>2. ~queued /\ pc' = "save" => vmi.phase = "absent"
    BY <2>1 DEF TurnInv, VMIsInOrder
  <2> QED
    BY <2>1, <2>2 DEF TurnInv, OldVMIRuns, Unserved
<1>6. CASE DeleteVMI
  <2>1. /\ pc = "delete" /\ pc' = "save"
        /\ inst'.requested = inst.requested /\ inst'.ref = inst.ref
        /\ vmi'.phase # "running"
        /\ UNCHANGED <<cr, cache, old, queued, vm>>
    BY <1>1, <1>6 DEF DeleteVMI, Resource, VMI, envVars
  <2> QED
    BY <2>1 DEF TurnInv, OldVMIRuns, Unserved
<1>7. CASE NothingToSave
  <2>1. /\ pc = "save" /\ SameStatus(inst, old) /\ pc' = "idle"
        /\ UNCHANGED <<cr, cache, queued, vmi>>
    BY <1>7 DEF NothingToSave, EndReconcile
  <2> QED
    BY <2>1 DEF TurnInv, OldVMIRuns, Unserved
<1>8. CASE SaveStatus
  <2>1. /\ pc = "save" /\ ~SameStatus(inst, old) /\ pc' = "idle"
        /\ cr'.last = inst.last /\ cr'.cond = inst.cond /\ cr'.ref = inst.ref
        /\ UNCHANGED <<cache, queued>>
    BY <1>1, <1>8 DEF SaveStatus, EndReconcile, Resource
  <2>2. ~queued => cache # cr'
    BY <2>1 DEF TurnInv, SameStatus
  <2> QED
    BY <2>1, <2>2 DEF TurnInv, OldVMIRuns, Unserved
<1>9. CASE \/ ReadVMIFails \/ DeleteVMIFails \/ SaveStatusFails \/ Crash
           \/ CacheSync \/ KubeVirtStep \/ VMIEnds
  <2>1. queued'
    BY <1>9 DEF ReadVMIFails, DeleteVMIFails, SaveStatusFails, Crash, CacheSync,
       KubeVirtStep, PlaybookCreatesVM, KubeVirtCreatesVMI, VMIDisappears, VMIEnds
  <2> QED
    BY <2>1 DEF TurnInv
<1>10. CASE RequestRestart \/ WithdrawRequest
  <2>1. /\ UNCHANGED <<cache, queued, pc, inst, old, vm, vmi>>
        /\ cr'.last = cr.last
    BY <1>1, <1>10 DEF RequestRestart, WithdrawRequest, ctrlVars, envVars, Resource
  <2>2. ~(cache = cr' /\ Unserved(cr'))
    <3>1. CASE WithdrawRequest
      BY <1>1, <3>1 DEF WithdrawRequest, Unserved, Resource
    <3>2. CASE RequestRestart
      <4>1. clock > cr.requested /\ clock > cr.last /\ cr'.requested = clock
        BY <1>1, <3>2 DEF RequestRestart, Resource
      <4>2. ~(cache.requested = clock)
        BY <1>1, <1>2, <4>1 DEF CalmInv, OneUnserved
      <4> QED
        BY <4>1, <4>2
    <3> QED
      BY <1>10, <3>1, <3>2
  <2> QED
    BY <2>1, <2>2 DEF TurnInv, OldVMIRuns, Unserved
<1>11. CASE Tick \/ UNCHANGED vars
  <2>1. UNCHANGED <<cr, cache, queued, pc, inst, old, vm, vmi>>
    BY <1>11 DEF Tick, vars, ctrlVars, envVars
  <2> QED
    BY <2>1 DEF TurnInv, OldVMIRuns, Unserved
<1> QED
  BY <1>3, <1>4, <1>5, <1>6, <1>7, <1>8, <1>9, <1>10, <1>11
     DEF Next, ControllerStep

(***************************************************************************)
(* No wake-up is lost: when the controller rests, no VMI is running that a *)
(* request has yet to replace.                                             *)
(***************************************************************************)
THEOREM RestartRestsWhenDone ==
  ASSUME Punctual PROVE Spec => []RestsWhenDone
<1>1. Init => InOrder /\ CalmInv /\ RestInv
  BY DEF Init, InOrder, CalmInv, OneUnserved, ProgressKnown, DeletesOnce,
     NewResource, InProgress, RestInv, VMIsInOrder, NewWhenRunning, TurnInv
<1>2. TypeOK /\ InOrder /\ CalmInv /\ [Next]_vars => InOrder' /\ CalmInv'
  BY OrderStep, StepsKeepCalm, OthersKeepCalm DEF Punctual, Patient
<1>3. TypeOK /\ InOrder /\ CalmInv /\ RestInv /\ [Next]_vars => RestInv'
  BY VMIsStep, TurnStep DEF RestInv
<1>4. TypeOK /\ RestInv => RestsWhenDone
  BY DEF TypeOK, Resource, RestInv, TurnInv, OldVMIRuns, Unserved, RestsWhenDone,
     Resting
<1> QED
  BY <1>1, <1>2, <1>3, <1>4, RestartTypeCorrect, PTL DEF Spec

=============================================================================
