---------------------------- MODULE FeedbackProofs ----------------------------
(***************************************************************************)
(* The safety theorems about the feedback controller: the record is up to  *)
(* date whenever the controller rests, the signal comes after the removal, *)
(* no resource that was deprovisioned disappears before its record says    *)
(* so, and none is held back by a controller that rests.                   *)
(***************************************************************************)
EXTENDS Feedback, FiniteSetTheorems, TLAPS

-----------------------------------------------------------------------------
(* Lemmas about the operators *)

LEMMA NewValuesTyped ==
  /\ \A k \in Kinds :
       /\ NewResource(k) \in Resource
       /\ ~NewResource(k).deleting /\ NewResource(k).fins = {}
       /\ NewResource(k).phase = "None" /\ ~NewResource(k).restarting
  /\ \A k \in Kinds :
       /\ Gone(k) \in Resource
       /\ ~Gone(k).exists /\ Gone(k).fins = {}
  /\ NoObject \in Resource /\ ~NoObject.exists /\ NoObject.fins = {}
  /\ NewRecord \in Record
BY DEF NewResource, Gone, NoObject, NewRecord, Resource, Record, Kinds,
   Finalizers, Phases, States

(* What is left of a resource whose finalizers changed. *)
LEMMA SettleKeeps ==
  ASSUME NEW o \in Resource
  PROVE  /\ Settle(o) \in Resource
         /\ Settle(o) = o \/ Settle(o) = Gone(o.kind)
         /\ Settle(o).exists => Settle(o) = o
         /\ o.fins # {} => Settle(o) = o
BY NewValuesTyped DEF Settle, Resource

(* Once the last finalizer is taken nothing is left. *)
LEMMA LastFinalizerIsAlone ==
  ASSUME NEW o \in Resource, LastFinalizer(o)
  PROVE  o.deleting /\ o.fins = {"feedback"}
<1>1. IsFiniteSet(Finalizers)
  <2>1. IsFiniteSet({"base"} \cup {"feedback"})
    BY FS_Singleton, FS_AddElement
  <2>2. QED BY <2>1, Finalizers = {"base"} \cup {"feedback"} DEF Finalizers
<1>2. IsFiniteSet(o.fins)
  BY <1>1, FS_Subset DEF Resource
<1>3. PICK x : o.fins = {x}
  BY <1>2, FS_Singleton DEF LastFinalizer
<1>4. QED BY <1>3 DEF LastFinalizer

LEMMA StateOfTyped ==
  ASSUME NEW p \in Phases, NEW s \in States
  PROVE  StateOf(p, s) \in States
BY DEF StateOf, Phases, States

(* Reporting a phase twice is reporting it once. *)
LEMMA StateOfTwice ==
  ASSUME NEW p \in Phases, NEW s \in States
  PROVE  StateOf(p, StateOf(p, s)) = StateOf(p, s)
BY DEF StateOf, Phases, States

(* What was copied into a record is told by it. *)
LEMMA Synced ==
  ASSUME NEW r \in Record, NEW o \in Resource
  PROVE  /\ SyncInstance(r, o) \in Record
         /\ SyncCluster(r, o) \in Record
         /\ SyncPool(r, o) \in Record
         /\ o.kind = "instance" => Tells(SyncInstance(r, o), o)
         /\ o.kind = "cluster" => Tells(SyncCluster(r, o), o)
         /\ o.kind = "hostpool" => Tells(SyncPool(r, o), o)
<1>1. o.phase \in Phases /\ r.state \in States
      /\ o.restarting \in BOOLEAN /\ r.restarting \in BOOLEAN
  BY DEF Record, Resource
<1> DEFINE s == StateOf(o.phase, r.state)
<1>2. s \in States /\ StateOf(o.phase, s) = s
  BY <1>1, StateOfTyped, StateOfTwice
<1> HIDE DEF s
<1>3. SyncInstance(r, o)
        = [state |-> s, restarting |-> r.restarting \/ o.restarting]
  BY DEF SyncInstance, s
<1>4. SyncPool(r, o) = [r EXCEPT !.state = s]
  BY DEF SyncPool, s
<1>5. SyncCluster(r, o) = IF o.deleting THEN r ELSE [r EXCEPT !.state = s]
  BY DEF SyncCluster, s
<1>6. QED BY <1>1, <1>2, <1>3, <1>4, <1>5 DEF Record, Tells, Copied

-----------------------------------------------------------------------------
(* Types *)

(* What the others write is a resource, with or without a deletion. *)
LEMMA ForeignWrites ==
  TypeOK /\ OthersStep =>
    /\ cr' \in Resource
    /\ fresh' = FALSE /\ UNCHANGED <<cache, ctrlVars, record, errs>>
<1> SUFFICES ASSUME TypeOK, OthersStep
             PROVE  /\ cr' \in Resource
                    /\ fresh' = FALSE
                    /\ UNCHANGED <<cache, ctrlVars, record, errs>>
  OBVIOUS
<1>1. cr \in Resource
  BY DEF TypeOK
<1>2. CASE BaseAddsFinalizer
  BY <1>1, <1>2 DEF BaseAddsFinalizer, ForeignWrite, Resource, Finalizers
<1>3. CASE BaseStoresPhase
  BY <1>1, <1>3 DEF BaseStoresPhase, ForeignWrite, Resource, Phases, PhasesOf
<1>4. CASE BaseStoresDeleting
  BY <1>1, <1>4 DEF BaseStoresDeleting, ForeignWrite, Resource, Phases
<1>5. CASE BaseSetsRestartCondition
  BY <1>1, <1>5 DEF BaseSetsRestartCondition, ForeignWrite, Resource
<1>6. CASE BaseRemovesFinalizer
  <2>1. [cr EXCEPT !.fins = @ \ {"base"}] \in Resource
    BY <1>1 DEF Resource
  <2>2. QED BY <2>1, <1>6, SettleKeeps DEF BaseRemovesFinalizer, ForeignWrite
<1>7. CASE UserDeletes
  <2>1. [cr EXCEPT !.deleting = TRUE] \in Resource
    BY <1>1 DEF Resource
  <2>2. QED BY <2>1, <1>7, SettleKeeps DEF UserDeletes, ForeignWrite
<1>8. CASE UserRemovesLabel
  BY <1>1, <1>8 DEF UserRemovesLabel, ForeignWrite, Resource
<1>9. QED BY <1>2, <1>3, <1>4, <1>5, <1>6, <1>7, <1>8 DEF OthersStep

LEMMA TypeStep == TypeOK /\ [Next]_vars => TypeOK'
<1> SUFFICES ASSUME TypeOK, [Next]_vars PROVE TypeOK'
  OBVIOUS
<1> USE NewValuesTyped
<1>1. CASE OthersStep
  BY <1>1, ForeignWrites DEF TypeOK, ctrlVars
<1>2. CASE CacheSync
  BY <1>2 DEF CacheSync, TypeOK, recordVars
<1>3. CASE Crash
  <2>1. errs' \in Nat
    BY <1>3 DEF Crash, Failure, TypeOK
  <2>2. QED BY <1>3, <2>1 DEF Crash, TypeOK, EndReconcile, Steps
<1>4. CASE ReconcileInstance \/ ReconcileCluster \/ ReconcilePool
  BY <1>4 DEF ReconcileInstance, ReconcileCluster, ReconcilePool,
     StartReconcile, TypeOK, Steps, recordVars
<1>5. CASE ReleaseUnlabelled \/ RemoveFinalizer
  <2>1. [cr EXCEPT !.fins = @ \ {"feedback"}] \in Resource
    BY DEF TypeOK, Resource
  <2>2. Settle([cr EXCEPT !.fins = @ \ {"feedback"}]) \in Resource
    BY <2>1, SettleKeeps
  <2>3. QED BY <1>5, <2>2 DEF ReleaseUnlabelled, RemoveFinalizer, TypeOK,
               EndReconcile, Steps, recordVars
<1>6. CASE FetchComputeInstance \/ FetchCluster \/ FetchHostPool
  BY <1>6, Synced DEF FetchComputeInstance, FetchCluster, FetchHostPool, Fetch,
     TypeOK, Steps
<1>7. CASE AddFinalizer
  <2>1. [cr EXCEPT !.fins = @ \cup {"feedback"}] \in Resource
    BY DEF TypeOK, Resource, Finalizers
  <2>2. QED BY <1>7, <2>1 DEF AddFinalizer, TypeOK, Steps, recordVars
<1>8. CASE SaveRecord
  BY <1>8 DEF SaveRecord, TypeOK, EndReconcile, Steps
<1>9. CASE Signal
  BY <1>9 DEF Signal, TypeOK, EndReconcile, Steps
<1>10. CASE RequestFails
  <2>1. errs' = errs \/ errs' = errs + 1
    BY <1>10 DEF RequestFails, Failure
  <2>2. errs' \in Nat
    BY <2>1 DEF TypeOK
  <2>3. QED BY <1>10, <2>2 DEF RequestFails, TypeOK, EndReconcile, Steps
<1>11. CASE UNCHANGED vars
  BY <1>11 DEF TypeOK, vars
<1>12. QED BY <1>1, <1>2, <1>3, <1>4, <1>5, <1>6, <1>7, <1>8, <1>9, <1>10,
              <1>11 DEF Next, ControllerStep

LEMMA InitTyped == Init => TypeOK
<1> SUFFICES ASSUME Init PROVE TypeOK
  OBVIOUS
<1>1. queued \in BOOLEAN /\ fresh \in BOOLEAN
  BY DEF Init
<1>2. pc \in Steps /\ errs \in Nat
  BY DEF Init, Steps
<1>3. /\ cr \in Resource /\ cache \in Resource /\ object \in Resource
      /\ record \in Record /\ before \in Record /\ ci \in Record
  BY NewValuesTyped DEF Init
<1>4. QED BY <1>1, <1>2, <1>3 DEF TypeOK

(***************************************************************************)
(* The variables keep their types.                                         *)
(***************************************************************************)
THEOREM FeedbackTypeCorrect == Spec => []TypeOK
BY InitTyped, TypeStep, PTL DEF Spec

-----------------------------------------------------------------------------
(* The reconcile works on the right copy, and misses nothing *)

LEMMA InitInv == Init => FeedbackInv
BY DEF Init, FeedbackInv, FreshCopy, CopyFits, RecordFits, NothingMissed

LEMMA InvStep == TypeOK /\ FeedbackInv /\ [Next]_vars => FeedbackInv'
<1> SUFFICES ASSUME TypeOK, FeedbackInv, [Next]_vars PROVE FeedbackInv'
  OBVIOUS
<1> USE DEF FeedbackInv, FreshCopy, CopyFits, RecordFits, NothingMissed
<1>1. CASE OthersStep
  BY <1>1, ForeignWrites DEF ctrlVars
<1>2. CASE CacheSync
  BY <1>2 DEF CacheSync, recordVars
<1>3. CASE Crash
  BY <1>3 DEF Crash, EndReconcile
<1>4. CASE ReconcileInstance \/ ReconcileCluster \/ ReconcilePool
  BY <1>4 DEF ReconcileInstance, ReconcileCluster, ReconcilePool,
     StartReconcile, Tells, Copied, recordVars
<1>5. CASE ReleaseUnlabelled
  BY <1>5 DEF ReleaseUnlabelled, EndReconcile
<1>6. CASE FetchComputeInstance \/ FetchCluster \/ FetchHostPool
  <2>1. Tells(ci', object)
    BY <1>6, Synced DEF FetchComputeInstance, FetchCluster, FetchHostPool, Fetch,
       TypeOK, Resource
  <2>2. QED BY <1>6, <2>1 DEF FetchComputeInstance, FetchCluster, FetchHostPool,
               Fetch
<1>7. CASE AddFinalizer
  <2>1. object = cr
    BY <1>7 DEF AddFinalizer
  <2>2. /\ cr'.phase = cr.phase /\ cr'.labelled = cr.labelled
        /\ cr'.exists = cr.exists /\ cr'.deleting = cr.deleting
        /\ cr'.kind = cr.kind /\ cr'.restarting = cr.restarting
    BY <1>7 DEF AddFinalizer, TypeOK, Resource
  <2>3. Tells(ci, cr') <=> Tells(ci, object)
    BY <2>1, <2>2 DEF Tells, Copied
  <2>4. QED BY <1>7, <2>1, <2>2, <2>3 DEF AddFinalizer, recordVars
<1>8. CASE SaveRecord
  <2>1. Tells(record', object)
    BY <1>8 DEF SaveRecord
  <2>2. ~queued => Tells(record', cache)
    BY <1>8, <2>1 DEF SaveRecord, Tells, Copied
  <2>3. QED BY <1>8, <2>1, <2>2 DEF SaveRecord, EndReconcile
<1>9. CASE RemoveFinalizer
  BY <1>9 DEF RemoveFinalizer, recordVars
<1>10. CASE Signal
  BY <1>10 DEF Signal, Tells, Copied, EndReconcile
<1>11. CASE RequestFails
  BY <1>11 DEF RequestFails, EndReconcile
<1>12. CASE UNCHANGED vars
  BY <1>12 DEF vars, LastFinalizer
<1>13. QED BY <1>1, <1>2, <1>3, <1>4, <1>5, <1>6, <1>7, <1>8, <1>9, <1>10,
              <1>11, <1>12 DEF Next, ControllerStep

LEMMA InvHolds == Spec => [](TypeOK /\ FeedbackInv)
<1>1. Init => TypeOK /\ FeedbackInv
  BY InitTyped, InitInv
<1>2. TypeOK /\ FeedbackInv /\ [Next]_vars => (TypeOK /\ FeedbackInv)'
  BY TypeStep, InvStep
<1>3. QED BY <1>1, <1>2, PTL DEF Spec

(***************************************************************************)
(* "Sync CR state to the fulfillment service record": when the controller  *)
(* has come to rest the record tells the phase of the resource, for any    *)
(* number of failing requests and with every fault.                        *)
(***************************************************************************)
THEOREM RecordIsUpToDate == Spec => []PhaseReported
<1>1. FeedbackInv => PhaseReported
  BY DEF FeedbackInv, NothingMissed, PhaseReported, Tells,
     Quiet, Ours
<1>2. QED BY <1>1, InvHolds, PTL

-----------------------------------------------------------------------------
(* The end of a resource *)

LEMMA SignalStep ==
  TypeOK /\ FeedbackInv /\ SignalAfterRemoval /\ [Next]_vars
    => SignalAfterRemoval'
<1> SUFFICES ASSUME TypeOK, FeedbackInv, SignalAfterRemoval, [Next]_vars,
                    pc' = "signal"
             PROVE  ~cr'.exists
  BY DEF SignalAfterRemoval
<1>1. CASE RemoveFinalizer
  <2>1. object = cr /\ LastFinalizer(cr) /\ cr \in Resource
    BY <1>1 DEF RemoveFinalizer, FeedbackInv, FreshCopy, CopyFits, TypeOK
  <2>2. cr.deleting /\ cr.fins = {"feedback"}
    BY <2>1, LastFinalizerIsAlone
  <2>3. cr' = Gone(cr.kind)
    BY <1>1, <2>1, <2>2 DEF RemoveFinalizer, Settle, Resource
  <2>4. QED BY <2>1, <2>3, NewValuesTyped DEF Resource
<1>2. CASE OthersStep
  <2>1. pc = "signal"
    BY <1>2, ForeignWrites DEF ctrlVars
  <2>2. cr.exists
    BY <1>2 DEF OthersStep, BaseAddsFinalizer, BaseStoresPhase,
       BaseStoresDeleting, BaseSetsRestartCondition, BaseRemovesFinalizer,
       UserDeletes, UserRemovesLabel
  <2>3. QED BY <2>1, <2>2 DEF SignalAfterRemoval
<1>3. CASE CacheSync \/ UNCHANGED vars
  BY <1>3 DEF CacheSync, vars, SignalAfterRemoval
<1>4. ~(Crash \/ ReleaseUnlabelled \/ FetchComputeInstance \/ FetchCluster
        \/ FetchHostPool \/ SaveRecord \/ Signal
        \/ RequestFails \/ AddFinalizer)
  BY DEF Crash, ReleaseUnlabelled, FetchComputeInstance,
               FetchCluster, FetchHostPool, Fetch, SaveRecord, Signal,
     RequestFails, AddFinalizer, EndReconcile
<1>5. ~(ReconcileInstance \/ ReconcileCluster \/ ReconcilePool)
  BY DEF ReconcileInstance, ReconcileCluster, ReconcilePool, StartReconcile
<1>6. QED BY <1>1, <1>2, <1>3, <1>4, <1>5 DEF Next, ControllerStep

(***************************************************************************)
(* "Finalizer is removed first so the CR is gone before the fulfillment    *)
(* controller checks": when the signal is sent the resource is gone,       *)
(* whoever wrote it in between and whatever failed.                        *)
(***************************************************************************)
THEOREM SignalComesLast == Spec => []SignalAfterRemoval
<1>1. Init => SignalAfterRemoval
  BY DEF Init, SignalAfterRemoval
<1>2. QED BY <1>1, SignalStep, InvHolds, PTL DEF Spec

-----------------------------------------------------------------------------
(* The end of a deletion *)

LEMMA FinalizersStep ==
  TypeOK /\ FeedbackInv /\ FinalizersFit /\ [Next]_vars => FinalizersFit'
<1> SUFFICES ASSUME TypeOK, FeedbackInv, FinalizersFit, [Next]_vars
             PROVE  FinalizersFit'
  OBVIOUS
<1> DEFINE Fits(o) == /\ "feedback" \in o.fins => o.kind = "instance"
                      /\ o.exists /\ o.deleting => o.fins # {}
<1>1. Fits(cr) /\ Fits(cache) /\ Fits(object) /\ cr \in Resource
  BY DEF FinalizersFit, TypeOK
<1>2. Fits(NoObject) /\ \A k \in Kinds : Fits(Gone(k))
  BY NewValuesTyped
<1>3. Fits(cr')
  <2>1. CASE OthersStep
    <3>1. CASE BaseAddsFinalizer
      BY <1>1, <3>1 DEF BaseAddsFinalizer, ForeignWrite, Resource
    <3>2. CASE \/ BaseStoresPhase \/ BaseStoresDeleting
               \/ BaseSetsRestartCondition \/ UserRemovesLabel
      BY <1>1, <3>2 DEF BaseStoresPhase, BaseStoresDeleting,
         BaseSetsRestartCondition, UserRemovesLabel, ForeignWrite, Resource
    <3>3. CASE BaseRemovesFinalizer
      BY <1>1, <1>2, <3>3
         DEF BaseRemovesFinalizer, ForeignWrite, Settle, Resource
    <3>4. CASE UserDeletes
      BY <1>1, <1>2, <3>4 DEF UserDeletes, ForeignWrite, Settle, Resource
    <3> QED
      BY <2>1, <3>1, <3>2, <3>3, <3>4 DEF OthersStep
  <2>2. CASE ReleaseUnlabelled \/ RemoveFinalizer
    BY <1>1, <1>2, <2>2 DEF ReleaseUnlabelled, RemoveFinalizer, Settle, Resource
  <2>3. CASE AddFinalizer
    BY <1>1, <2>3 DEF AddFinalizer, FeedbackInv, CopyFits, FreshCopy, Resource
  <2>4. CASE UNCHANGED cr
    BY <1>1, <2>4
  <2> QED
    BY <2>1, <2>2, <2>3, <2>4 DEF Next, ControllerStep, CacheSync, Crash,
       ReconcileInstance, ReconcileCluster, ReconcilePool, StartReconcile,
       FetchComputeInstance, FetchCluster, FetchHostPool, Fetch, SaveRecord,
       Signal, RequestFails, vars
<1>4. cache' \in {cache, cr} /\ object' \in {object, cache, cr', NoObject}
  <2>1. CASE OthersStep
    BY <2>1, ForeignWrites DEF ctrlVars
  <2> QED
    BY <2>1 DEF Next, ControllerStep, CacheSync, Crash, ReconcileInstance,
       ReconcileCluster, ReconcilePool, StartReconcile, ReleaseUnlabelled,
       FetchComputeInstance, FetchCluster, FetchHostPool, Fetch, AddFinalizer,
       SaveRecord, RemoveFinalizer, Signal, RequestFails, EndReconcile, vars
<1> QED
  BY <1>1, <1>2, <1>3, <1>4 DEF FinalizersFit

(* A resource loses its last finalizer in the version that was reported. *)
LEMMA LastPhaseStep ==
  TypeOK /\ FeedbackInv /\ FinalizersFit /\ [Next]_vars
    => (Ours /\ "feedback" \in cr.fins /\ ~cr'.exists
          => /\ record.state = StateOf(cr.phase, record.state)
             /\ cr.restarting => record.restarting)
<1> SUFFICES ASSUME TypeOK, FeedbackInv, FinalizersFit, [Next]_vars,
                    Ours, "feedback" \in cr.fins, ~cr'.exists
             PROVE  /\ record.state = StateOf(cr.phase, record.state)
                    /\ cr.restarting => record.restarting
  OBVIOUS
<1>1. cr \in Resource /\ cr.exists /\ cr.labelled /\ cr' # cr
      /\ cr.kind = "instance"
  BY DEF TypeOK, Ours, FinalizersFit
<1>2. ~ReleaseUnlabelled
  BY <1>1 DEF ReleaseUnlabelled, FeedbackInv, FreshCopy, CopyFits
<1>3. CASE RemoveFinalizer
  <2>1. object = cr /\ Tells(record, object)
    BY <1>3 DEF RemoveFinalizer, FeedbackInv, FreshCopy, RecordFits
  <2> QED
    BY <1>1, <2>1 DEF Tells, Copied
<1>4. ~AddFinalizer
  BY <1>1 DEF AddFinalizer, Resource
<1>5. ~OthersStep
  <2>1. ~BaseRemovesFinalizer
    BY <1>1 DEF BaseRemovesFinalizer, ForeignWrite, Settle, Resource
  <2>2. ~UserDeletes
    BY <1>1 DEF UserDeletes, ForeignWrite, Settle, Resource
  <2>3. ~(BaseAddsFinalizer \/ BaseStoresPhase \/ BaseStoresDeleting
          \/ BaseSetsRestartCondition \/ UserRemovesLabel)
    BY <1>1 DEF BaseAddsFinalizer, BaseStoresPhase, BaseStoresDeleting,
       BaseSetsRestartCondition, UserRemovesLabel, ForeignWrite, Resource
  <2> QED
    BY <2>1, <2>2, <2>3 DEF OthersStep
<1> QED
  BY <1>1, <1>2, <1>3, <1>4, <1>5 DEF Next, ControllerStep, CacheSync, Crash,
     ReconcileInstance, ReconcileCluster, ReconcilePool, StartReconcile,
     FetchComputeInstance, FetchCluster, FetchHostPool, Fetch, SaveRecord,
     Signal, RequestFails, vars

(***************************************************************************)
(* Step 6 after step 5: a ComputeInstance held back by the feedback        *)
(* finalizer does not disappear before its record tells the last phase and *)
(* restart condition stored for it, whichever controller is first.         *)
(***************************************************************************)
THEOREM LastPhaseIsReported == Spec => LastPhaseReported
<1>1. Init => FinalizersFit
  BY NewValuesTyped DEF Init, FinalizersFit
<1>2. TypeOK /\ FeedbackInv /\ FinalizersFit /\ [Next]_vars
        => [Ours /\ "feedback" \in cr.fins /\ ~cr'.exists
              => /\ record.state = StateOf(cr.phase, record.state)
                 /\ cr.restarting => record.restarting]_vars
  BY LastPhaseStep
<1> QED
  BY <1>1, <1>2, FinalizersStep, InvHolds, PTL DEF Spec, LastPhaseReported

(* What is gone stays so. *)
LEMMA GoneForGood ==
  TypeOK /\ FeedbackInv /\ ~cr.exists /\ [Next]_vars => ~cr'.exists
<1> SUFFICES ASSUME TypeOK, FeedbackInv, ~cr.exists, [Next]_vars
             PROVE  ~cr'.exists
  OBVIOUS
<1>1. ~OthersStep
  BY DEF OthersStep, BaseAddsFinalizer, BaseStoresPhase, BaseStoresDeleting,
     BaseSetsRestartCondition, BaseRemovesFinalizer, UserDeletes, UserRemovesLabel
<1>2. ~AddFinalizer
  BY DEF AddFinalizer, FeedbackInv, FreshCopy, CopyFits
<1>3. CASE ReleaseUnlabelled \/ RemoveFinalizer
  BY <1>3, NewValuesTyped DEF ReleaseUnlabelled, RemoveFinalizer, Settle, TypeOK,
     Resource
<1> QED
  BY <1>1, <1>2, <1>3 DEF Next, ControllerStep, CacheSync, Crash,
     ReconcileInstance, ReconcileCluster, ReconcilePool, StartReconcile,
     FetchComputeInstance, FetchCluster, FetchHostPool, Fetch, SaveRecord,
     Signal, RequestFails, vars

(* A resource that only this controller holds back. *)
LEMMA HeldBackIsLast ==
  ASSUME NEW o \in Resource, HeldBack(o), o.fins # {}
  PROVE  o.fins = {"feedback"} /\ LastFinalizer(o)
<1>1. o.fins = {"feedback"}
  BY DEF HeldBack, Resource, Finalizers
<1> QED
  BY <1>1, FS_Singleton DEF HeldBack, LastFinalizer

LEMMA LetGoStep ==
  TypeOK /\ FeedbackInv /\ SignalAfterRemoval /\ FinalizersFit /\ LetGo
  /\ [Next]_vars => LetGo'
<1> SUFFICES ASSUME TypeOK, FeedbackInv, SignalAfterRemoval, FinalizersFit, LetGo,
                    [Next]_vars, ~queued', HeldBack(cache')
             PROVE  /\ pc' = "idle" => ~cr'.exists
                    /\ pc' # "idle" => object' = cache'
  BY DEF LetGo, HeldBack
<1>1. ~(CacheSync \/ Crash \/ RequestFails)
  BY DEF CacheSync, Crash, RequestFails
<1>2. cache' = cache
  <2>1. CASE OthersStep
    BY <2>1, ForeignWrites
  <2> QED
    BY <1>1, <2>1 DEF Next, ControllerStep, ReconcileInstance, ReconcileCluster,
       ReconcilePool, StartReconcile, ReleaseUnlabelled, FetchComputeInstance,
       FetchCluster, FetchHostPool, Fetch, AddFinalizer, SaveRecord,
       RemoveFinalizer, Signal, vars
<1>3. /\ cache \in Resource /\ cache.exists /\ cache.deleting
      /\ cache.fins = {"feedback"} /\ LastFinalizer(cache)
      /\ cache.kind = "instance"
  <2>1. cache \in Resource /\ HeldBack(cache) /\ cache.fins # {}
    BY <1>2 DEF TypeOK, FinalizersFit, HeldBack
  <2>2. cache.fins = {"feedback"} /\ LastFinalizer(cache)
    BY <2>1, HeldBackIsLast
  <2> QED
    BY <2>1, <2>2 DEF HeldBack, FinalizersFit
<1>4. ~queued => /\ pc = "idle" => ~cr.exists
                 /\ pc # "idle" => object = cache
  BY <1>2 DEF LetGo
<1>5. CASE ReconcileInstance \/ ReconcileCluster \/ ReconcilePool
  BY <1>2, <1>3, <1>5 DEF ReconcileInstance, ReconcileCluster, ReconcilePool,
     StartReconcile
<1>6. CASE OthersStep \/ UNCHANGED vars
  <2>1. UNCHANGED <<queued, pc, object>>
    BY <1>6, ForeignWrites DEF ctrlVars, vars
  <2> QED
    BY <1>2, <1>4, <2>1, GoneForGood
<1>7. CASE ReleaseUnlabelled
  <2>1. object = cr /\ pc # "idle" /\ ~queued /\ pc' = "idle"
    BY <1>7 DEF ReleaseUnlabelled, EndReconcile, FeedbackInv, FreshCopy
  <2>2. cr' = Gone(cr.kind)
    BY <1>3, <1>4, <1>7, <2>1 DEF ReleaseUnlabelled, Settle, Resource
  <2> QED
    BY <1>3, <1>4, <2>1, <2>2, NewValuesTyped DEF Resource
<1>8. CASE FetchComputeInstance \/ FetchCluster \/ FetchHostPool
  BY <1>2, <1>4, <1>8 DEF FetchComputeInstance, FetchCluster, FetchHostPool, Fetch
<1>9. CASE AddFinalizer
  BY <1>3, <1>4, <1>9 DEF AddFinalizer, FeedbackInv, CopyFits, recordVars
<1>10. CASE SaveRecord
  BY <1>2, <1>3, <1>4, <1>10 DEF SaveRecord
<1>11. CASE RemoveFinalizer
  BY <1>2, <1>4, <1>11 DEF RemoveFinalizer
<1>12. CASE Signal
  BY <1>12 DEF Signal, EndReconcile, SignalAfterRemoval
<1> QED
  BY <1>1, <1>5, <1>6, <1>7, <1>8, <1>9, <1>10, <1>11, <1>12
     DEF Next, ControllerStep

(***************************************************************************)
(* The feedback controller does not rest while it is the last that holds   *)
(* a deleted resource back, whatever fails, crashes or loses its label.    *)
(***************************************************************************)
THEOREM NothingHeldBack == Spec => []NotHeldBack
<1>1. Init => SignalAfterRemoval /\ FinalizersFit /\ LetGo
  BY NewValuesTyped DEF Init, SignalAfterRemoval, FinalizersFit, LetGo
<1>2. FinalizersFit /\ LetGo => NotHeldBack
  BY DEF LetGo, HeldBack, NotHeldBack, Quiet
<1> QED
  BY <1>1, <1>2, SignalStep, FinalizersStep, LetGoStep, InvHolds, PTL DEF Spec

=============================================================================
