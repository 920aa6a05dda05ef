-------------------------- MODULE ControllerProofs --------------------------
(***************************************************************************)
(* Theorems about the controller, for any number of workloads, Mountpoint  *)
(* Pods and S3PAs, any lag of the cache and any number of faults.          *)
(***************************************************************************)
EXTENDS Controller, TLAPS

-----------------------------------------------------------------------------
(* Types of what the actions compute.                                       *)

(* The operations on the map of a S3PA yield S3PAs. *)
LEMMA S3PAOpsType ==
    ASSUME NEW obj \in S3PA, NEW m \in MountpointPods, NEW w \in Workloads
    PROVE  /\ AppendWorkload(obj, m, w) \in S3PA
           /\ FilterWorkload(obj, m, w) \in S3PA
           /\ DropKey(obj, m) \in S3PA
<1>1. AppendWorkload(obj, m, w) \in S3PA
  BY DEF S3PA, AppendWorkload
<1>2. FilterWorkload(obj, m, w) \in S3PA
  BY DEF S3PA, FilterWorkload
<1>3. DropKey(obj, m) \in S3PA
  BY DEF S3PA, DropKey
<1>. QED
  BY <1>1, <1>2, <1>3

(* An Update increments the version. *)
LEMMA BumpType ==
    ASSUME NEW obj \in S3PA PROVE [obj EXCEPT !.rv = @ + 1] \in S3PA
BY DEF S3PA

(* The object that stands for "absent" is a S3PA value. *)
LEMMA NoS3PAType == NoS3PA \in S3PA
BY DEF NoS3PA, S3PA

(* The cached and the current store are stores. *)
LEMMA StoreType ==
    ASSUME ClusterTypeOK
    PROVE  Cached \in [S3PAs -> S3PA] /\ Api \in [S3PAs -> S3PA]
BY DEF ClusterTypeOK, Cached, Api

(* A write keeps the history of stores well typed. *)
LEMMA CommitType ==
    ASSUME ClusterTypeOK, NEW n \in S3PAs, NEW obj \in S3PA, Commit(n, obj)
    PROVE  hist' \in Seq([S3PAs -> S3PA]) /\ Len(hist') > 0
BY DEF ClusterTypeOK, Commit, Api

WriteTypes == hist' \in Seq([S3PAs -> S3PA]) /\ Len(hist') > 0
              /\ faults' \in Nat /\ lost' \in BOOLEAN

(* Whatever its outcome, an Update keeps the store and the counters typed. *)
LEMMA UpdateType ==
    ASSUME ClusterTypeOK, NEW n \in S3PAs, NEW obj \in S3PA,
           UpdateOk(n, obj) \/ UpdateFails(n, obj)
    PROVE  WriteTypes
<1>1. CASE CommitUpdate(n, obj)
  <2>1. Commit(n, [obj EXCEPT !.rv = @ + 1])
    BY <1>1 DEF CommitUpdate
  <2>2. hist' \in Seq([S3PAs -> S3PA]) /\ Len(hist') > 0
    BY <2>1, CommitType, BumpType
  <2>3. faults' \in Nat
    BY DEF UpdateOk, UpdateFails, Fault, ClusterTypeOK
  <2>4. lost' \in BOOLEAN
    BY DEF UpdateOk, UpdateFails, ClusterTypeOK
  <2>. QED
    BY <2>2, <2>3, <2>4 DEF WriteTypes
<1>2. CASE ~CommitUpdate(n, obj)
  BY <1>2 DEF UpdateOk, UpdateFails, Fault, ClusterTypeOK, WriteTypes
<1>. QED
  BY <1>1, <1>2

(* ... and so does a Delete. *)
LEMMA DeleteType ==
    ASSUME ClusterTypeOK, NEW n \in S3PAs, NEW rv \in Nat,
           DeleteOk(n, rv) \/ DeleteFails(n, rv)
    PROVE  WriteTypes
<1>1. CASE CommitDelete(n, rv)
  <2>1. hist' \in Seq([S3PAs -> S3PA]) /\ Len(hist') > 0
    BY <1>1, CommitType, NoS3PAType DEF CommitDelete
  <2>3. faults' \in Nat
    BY DEF DeleteOk, DeleteFails, Fault, ClusterTypeOK
  <2>4. lost' \in BOOLEAN
    BY DEF DeleteOk, DeleteFails, ClusterTypeOK
  <2>. QED
    BY <2>1, <2>3, <2>4 DEF WriteTypes
<1>2. CASE ~CommitDelete(n, rv)
  BY <1>2 DEF DeleteOk, DeleteFails, Fault, ClusterTypeOK, WriteTypes
<1>. QED
  BY <1>1, <1>2

(* Annotating a Mountpoint Pod keeps the Pods typed. *)
LEMMA AnnotateType ==
    ASSUME ClusterTypeOK, NEW m \in MountpointPods,
           AddNeedsUnmountAnnotation(m) \/ AddNeedsUnmountAnnotationFails(m)
    PROVE  mp' \in [MountpointPods -> MountpointPod] /\ faults' \in Nat
<1>1. [mp[m] EXCEPT !.needsUnmount = TRUE] \in MountpointPod
  BY DEF ClusterTypeOK, MountpointPod
<1>2. mp' \in [MountpointPods -> MountpointPod]
  BY <1>1 DEF AddNeedsUnmountAnnotation, AddNeedsUnmountAnnotationFails, Annotate,
              ClusterTypeOK
<1>3. faults' \in Nat
  BY DEF AddNeedsUnmountAnnotation, AddNeedsUnmountAnnotationFails, Fault, ClusterTypeOK
<1>. QED
  BY <1>2, <1>3

(* Putting one well-typed Pod keeps the Pods typed. *)
LEMMA PodType ==
    NoPod \in MountpointPod /\ (version \in Versions => Spawned \in MountpointPod)
BY DEF NoPod, Spawned, MountpointPod

(* Both threads' idle states are well typed. *)
LEMMA IdleType == RecIdle \in RecType /\ CleanerIdle \in CleanerType
<1>1. [n \in S3PAs |-> NoS3PA] \in [S3PAs -> S3PA]
  BY NoS3PAType
<1>. QED
  BY <1>1, NoS3PAType
     DEF RecIdle, RecType, RecPCs, CleanerIdle, CleanerType, CleanerPCs

-----------------------------------------------------------------------------
(* Type correctness.                                                        *)

(* What a step of the reconciler has to keep typed. *)
LEMMA ReconcilerStepType ==
    ASSUME TypeOK, Untouched, UNCHANGED cl, WriteTypes,
           mp' \in [MountpointPods -> MountpointPod], aged' \subseteq Workloads,
           queue' \subseteq Workloads, RecTypeOK', pending' \in BOOLEAN
    PROVE  TypeOK'
<1>1. ClusterTypeOK'
  BY DEF TypeOK, ClusterTypeOK, Untouched, WriteTypes
<1>2. ReconcilerTypeOK'
  BY DEF TypeOK, ReconcilerTypeOK, Untouched
<1>3. CleanerTypeOK'
  BY DEF TypeOK, CleanerTypeOK
<1>. QED
  BY <1>1, <1>2, <1>3 DEF TypeOK

(* A Reconcile that ends leaves the reconciler idle. *)
LEMMA FinishType ==
    ASSUME TypeOK, rec.pc # "idle", DontRequeue \/ Requeue
    PROVE  RecTypeOK' /\ queue' \subseteq Workloads
<1>1. rec' = RecIdle
  BY DEF DontRequeue, Requeue
<1>2. RecTypeOK'
  BY <1>1, IdleType DEF RecTypeOK, RecIdle
<1>3. queue' \subseteq Workloads
  BY DEF TypeOK, ReconcilerTypeOK, RecTypeOK, DontRequeue, Requeue
<1>. QED
  BY <1>2, <1>3

(* A Reconcile that starts has a workload in hand. *)
LEMMA StartType ==
    ASSUME TypeOK, UNCHANGED cl, NEW w \in Workloads, NEW pc \in {"listed", "recover"},
           NEW n \in S3PAs \cup {Nil}, NEW dups \in SUBSET (S3PAs \X Nat),
           Start(w, pc, n, dups)
    PROVE  TypeOK'
<1>1. (IF n = Nil THEN NoS3PA ELSE Cached[n]) \in S3PA
  BY NoS3PAType, StoreType DEF TypeOK
<1>2. rec' \in RecType /\ rec'.pc = pc /\ rec'.w = w
  BY <1>1 DEF Start, RecType, RecPCs, IsPodActive
<1>3. RecTypeOK'
  BY <1>2 DEF RecTypeOK
<1>. QED
  BY <1>3, ReconcilerStepType
     DEF Start, TypeOK, ClusterTypeOK, ReconcilerTypeOK, WriteTypes

(* Taking a workload from the queue keeps every type. *)
LEMMA ReconcileWorkloadType ==
    ASSUME TypeOK, NEW w \in Workloads, ReconcileWorkload(w), UNCHANGED cl
    PROVE  TypeOK'
<1>1. CASE ReconcileNotFound(w)
  BY <1>1, ReconcilerStepType
     DEF ReconcileNotFound, TypeOK, ClusterTypeOK, ReconcilerTypeOK, RecTypeOK, WriteTypes
<1>2. CASE ReconcileFindsNone(w)
  BY <1>2, StartType DEF ReconcileFindsNone
<1>3. CASE ReconcileFindsOne(w)
  BY <1>3, StartType DEF ReconcileFindsOne
<1>4. CASE ReconcileFindsDuplicates(w)
  <2>1. PICK n \in S3PAs \cup {Nil} :
          Start(w, "recover", n, {<<d, Cached[d].rv>> : d \in NoMountpointPods})
    BY <1>4 DEF ReconcileFindsDuplicates
  <2>2. {<<d, Cached[d].rv>> : d \in NoMountpointPods} \in SUBSET (S3PAs \X Nat)
    BY StoreType DEF TypeOK, NoMountpointPods, Live, S3PA
  <2>. QED
    BY <2>1, <2>2, StartType
<1>5. CASE ReconcileGivesUpOnDuplicates(w)
  BY <1>5, ReconcilerStepType
     DEF ReconcileGivesUpOnDuplicates, TypeOK, ClusterTypeOK, ReconcilerTypeOK,
         RecTypeOK, WriteTypes
<1>. QED
  BY <1>1, <1>2, <1>3, <1>4, <1>5 DEF ReconcileWorkload

(* Attaching steps of a Reconcile keep every type. *)
LEMMA AttachType ==
    ASSUME TypeOK, UNCHANGED cl,
           \/ HandleExistingS3PodAttachment
           \/ AssignWorkload
           \/ HandleNewS3PodAttachment
           \/ SpawnMountpointPod(FreshMPs)
           \/ UpdateWithSpawned
           \/ CreateS3PodAttachment(FreshS3PAs)
           \/ CleanupSpawned
    PROVE  TypeOK'
<1>. USE DEF At
<1>0. /\ ClusterTypeOK /\ RecTypeOK /\ rec \in RecType /\ queue \subseteq Workloads
      /\ pending \in BOOLEAN /\ version \in Versions /\ aged \subseteq Workloads
      /\ mp \in [MountpointPods -> MountpointPod] /\ faults \in Nat /\ lost \in BOOLEAN
      /\ hist \in Seq([S3PAs -> S3PA]) /\ Len(hist) > 0 /\ rec.obj \in S3PA
  BY DEF TypeOK, ReconcilerTypeOK, ClusterTypeOK, RecTypeOK, RecType
<1>1. CASE HandleExistingS3PodAttachment
  <2>1. RecTypeOK' /\ queue' \subseteq Workloads
    <3>1. CASE DontRequeue
      BY <1>1, <3>1, FinishType DEF HandleExistingS3PodAttachment
    <3>2. CASE \E m \in rec.obj.keys : rec' = [rec EXCEPT !.pc = "assign", !.m = m]
                                       /\ UNCHANGED queue
      BY <1>0, <1>1, <3>2
         DEF HandleExistingS3PodAttachment, RecTypeOK, RecType, RecPCs, S3PA
    <3>3. CASE GoTo("spawn")
      BY <1>0, <1>1, <3>3
         DEF HandleExistingS3PodAttachment, GoTo, RecTypeOK, RecType, RecPCs
    <3>. QED
      BY <1>1, <3>1, <3>2, <3>3 DEF HandleExistingS3PodAttachment
  <2>. QED
    BY <1>0, <1>1, <2>1, ReconcilerStepType DEF HandleExistingS3PodAttachment, WriteTypes
<1>2. CASE AssignWorkload
  <2>1. AppendWorkload(rec.obj, rec.m, rec.w) \in S3PA /\ rec.n \in S3PAs
    BY <1>0, <1>2, S3PAOpsType DEF AssignWorkload, RecTypeOK
  <2>2. WriteTypes
    BY <1>0, <1>2, <2>1, UpdateType DEF AssignWorkload
  <2>3. RecTypeOK' /\ queue' \subseteq Workloads
    BY <1>2, FinishType DEF AssignWorkload
  <2>4. aged' \subseteq Workloads
    BY <1>0, <1>2 DEF AssignWorkload
  <2>. QED
    BY <1>0, <1>2, <2>2, <2>3, <2>4, ReconcilerStepType DEF AssignWorkload
<1>3. CASE HandleNewS3PodAttachment
  <2>1. RecTypeOK' /\ queue' \subseteq Workloads
    <3>1. CASE DontRequeue \/ Requeue
      BY <1>3, <3>1, FinishType DEF HandleNewS3PodAttachment
    <3>2. CASE GoTo("spawn")
      BY <1>0, <1>3, <3>2
         DEF HandleNewS3PodAttachment, GoTo, RecTypeOK, RecType, RecPCs
    <3>. QED
      BY <1>3, <3>1, <3>2 DEF HandleNewS3PodAttachment
  <2>. QED
    BY <1>0, <1>3, <2>1, ReconcilerStepType DEF HandleNewS3PodAttachment, WriteTypes
<1>4. CASE SpawnMountpointPod(FreshMPs)
  <2>1. PICK m \in FreshMPs :
          \/ /\ mp' = [mp EXCEPT ![m] = Spawned]
             /\ rec' = [rec EXCEPT !.pc = IF rec.n = Nil THEN "create" ELSE "update",
                                   !.m = m]
             /\ UNCHANGED <<queue, faults>>
          \/ Fault /\ Requeue /\ mp' \in {mp, [mp EXCEPT ![m] = Spawned]}
    BY <1>4 DEF SpawnMountpointPod
  <2>2. m \in MountpointPods
    BY DEF FreshMPs
  <2>3. mp' \in [MountpointPods -> MountpointPod]
    BY <1>0, <2>1, <2>2, PodType
  <2>4. RecTypeOK' /\ queue' \subseteq Workloads
    <3>1. CASE Requeue
      BY <1>4, <3>1, FinishType DEF SpawnMountpointPod
    <3>2. CASE /\ rec' = [rec EXCEPT !.pc = IF rec.n = Nil THEN "create" ELSE "update",
                                     !.m = m]
               /\ UNCHANGED queue
      BY <1>0, <1>4, <2>2, <3>2
         DEF SpawnMountpointPod, RecTypeOK, RecType, RecPCs
    <3>. QED
      BY <2>1, <3>1, <3>2
  <2>5. faults' \in Nat
    BY <1>0, <2>1 DEF Fault
  <2>. QED
    BY <1>0, <1>4, <2>3, <2>4, <2>5, ReconcilerStepType DEF SpawnMountpointPod, WriteTypes
<1>5. CASE UpdateWithSpawned
  <2>1. AppendWorkload(rec.obj, rec.m, rec.w) \in S3PA /\ rec.n \in S3PAs
    BY <1>0, <1>5, S3PAOpsType DEF UpdateWithSpawned, RecTypeOK
  <2>2. WriteTypes
    BY <1>0, <1>5, <2>1, UpdateType DEF UpdateWithSpawned
  <2>3. RecTypeOK' /\ queue' \subseteq Workloads
    <3>1. CASE DontRequeue
      BY <1>5, <3>1, FinishType DEF UpdateWithSpawned
    <3>2. CASE GoTo("cleanup")
      BY <1>0, <1>5, <3>2 DEF UpdateWithSpawned, GoTo, RecTypeOK, RecType, RecPCs
    <3>. QED
      BY <1>5, <3>1, <3>2 DEF UpdateWithSpawned
  <2>4. aged' \subseteq Workloads
    BY <1>0, <1>5 DEF UpdateWithSpawned
  <2>. QED
    BY <1>0, <1>5, <2>2, <2>3, <2>4, ReconcilerStepType DEF UpdateWithSpawned
<1>6. CASE CreateS3PodAttachment(FreshS3PAs)
  <2>1. NewS3PA \in S3PA
    <3>1. [NoS3PA EXCEPT !.live = TRUE, !.rv = 1] \in S3PA
      BY NoS3PAType DEF S3PA
    <3>. QED
      BY <1>0, <1>6, <3>1, S3PAOpsType DEF NewS3PA, CreateS3PodAttachment, RecTypeOK
  <2>2. PICK n \in FreshS3PAs :
          \/ /\ Commit(n, NewS3PA)
             /\ pending' = TRUE
             /\ Requeue
             /\ UNCHANGED <<faults, lost>>
          \/ Fault /\ GoTo("cleanup") /\ UNCHANGED <<hist, lost, pending>>
          \/ /\ Fault /\ Commit(n, NewS3PA) /\ lost' = TRUE
             /\ GoTo("cleanup") /\ UNCHANGED pending
    BY <1>6 DEF CreateS3PodAttachment
  <2>3. n \in S3PAs
    BY DEF FreshS3PAs
  <2>4. hist' \in Seq([S3PAs -> S3PA]) /\ Len(hist') > 0
    BY <1>0, <2>1, <2>2, <2>3, CommitType
  <2>5. faults' \in Nat
    BY <1>0, <2>2 DEF Fault
  <2>6. lost' \in BOOLEAN /\ pending' \in BOOLEAN
    BY <1>0, <2>2
  <2>7. RecTypeOK' /\ queue' \subseteq Workloads
    <3>1. CASE Requeue
      BY <1>6, <3>1, FinishType DEF CreateS3PodAttachment
    <3>2. CASE GoTo("cleanup")
      BY <1>0, <1>6, <3>2 DEF CreateS3PodAttachment, GoTo, RecTypeOK, RecType, RecPCs
    <3>. QED
      BY <2>2, <3>1, <3>2
  <2>8. aged' \subseteq Workloads
    BY <1>0, <1>6 DEF CreateS3PodAttachment
  <2>. QED
    BY <1>0, <1>6, <2>4, <2>5, <2>6, <2>7, <2>8, ReconcilerStepType
       DEF CreateS3PodAttachment, WriteTypes
<1>7. CASE CleanupSpawned
  <2>1. mp' \in [MountpointPods -> MountpointPod]
    BY <1>0, <1>7, PodType DEF CleanupSpawned
  <2>2. faults' \in Nat
    BY <1>0, <1>7 DEF CleanupSpawned, Fault
  <2>3. RecTypeOK' /\ queue' \subseteq Workloads
    BY <1>7, FinishType DEF CleanupSpawned
  <2>. QED
    BY <1>0, <1>7, <2>1, <2>2, <2>3, ReconcilerStepType DEF CleanupSpawned, WriteTypes
<1>. QED
  BY <1>1, <1>2, <1>3, <1>4, <1>5, <1>6, <1>7

(* Detaching steps, and the recovery from duplicates, keep every type. *)
LEMMA DetachType ==
    ASSUME TypeOK, UNCHANGED cl,
           \/ \E d \in rec.dups : DeleteDuplicate(d)
           \/ HandleInactivePod
           \/ RemoveWorkload
           \/ \E m \in MountpointPods : AnnotateUnusedMP(m)
           \/ RemoveUnusedMP
           \/ RemoveS3PodAttachment
    PROVE  TypeOK'
<1>. USE DEF At
<1>0. /\ ClusterTypeOK /\ RecTypeOK /\ rec \in RecType /\ queue \subseteq Workloads
      /\ pending \in BOOLEAN /\ version \in Versions /\ aged \subseteq Workloads
      /\ mp \in [MountpointPods -> MountpointPod] /\ faults \in Nat /\ lost \in BOOLEAN
      /\ hist \in Seq([S3PAs -> S3PA]) /\ Len(hist) > 0 /\ rec.obj \in S3PA
  BY DEF TypeOK, ReconcilerTypeOK, ClusterTypeOK, RecTypeOK, RecType
<1>1. CASE \E d \in rec.dups : DeleteDuplicate(d)
  <2>1. PICK d \in rec.dups : DeleteDuplicate(d)
    BY <1>1
  <2>2. d[1] \in S3PAs /\ d[2] \in Nat
    BY <1>0 DEF RecType
  <2>3. WriteTypes
    BY <1>0, <2>1, <2>2, DeleteType DEF DeleteDuplicate
  <2>4. pending' \in BOOLEAN
    BY <1>0, <2>1 DEF DeleteDuplicate
  <2>5. RecTypeOK' /\ queue' \subseteq Workloads
    <3>1. CASE Requeue
      BY <2>1, <3>1, FinishType DEF DeleteDuplicate
    <3>2. CASE /\ rec' = [rec EXCEPT !.dups = @ \ {d},
                                     !.pc = IF rec.dups = {d} THEN "listed" ELSE @]
               /\ UNCHANGED queue
      BY <1>0, <2>1, <3>2 DEF DeleteDuplicate, RecTypeOK, RecType, RecPCs
    <3>. QED
      BY <2>1, <3>1, <3>2 DEF DeleteDuplicate
  <2>. QED
    BY <1>0, <2>1, <2>3, <2>4, <2>5, ReconcilerStepType DEF DeleteDuplicate
<1>2. CASE HandleInactivePod
  <2>1. RecTypeOK' /\ queue' \subseteq Workloads
    <3>1. CASE DontRequeue
      BY <1>2, <3>1, FinishType DEF HandleInactivePod
    <3>2. CASE rec.n # Nil /\ (GoTo("removeUID") \/ GoTo("removeMPs"))
      BY <1>0, <1>2, <3>2 DEF HandleInactivePod, GoTo, RecTypeOK, RecType, RecPCs
    <3>. QED
      BY <1>2, <3>1, <3>2 DEF HandleInactivePod
  <2>. QED
    BY <1>0, <1>2, <2>1, ReconcilerStepType DEF HandleInactivePod, WriteTypes
<1>3. CASE RemoveWorkload
  <2>1. PICK m \in MountpointPods :
          \/ /\ UpdateOk(rec.n, FilterWorkload(rec.obj, m, rec.w))
             /\ rec' = [rec EXCEPT !.pc = "removeMPs",
                          !.obj = [FilterWorkload(rec.obj, m, rec.w) EXCEPT !.rv = @ + 1]]
             /\ UNCHANGED queue
          \/ UpdateFails(rec.n, FilterWorkload(rec.obj, m, rec.w)) /\ Requeue
    BY <1>3 DEF RemoveWorkload
  <2>2. FilterWorkload(rec.obj, m, rec.w) \in S3PA /\ rec.n \in S3PAs
    BY <1>0, <1>3, S3PAOpsType DEF RemoveWorkload, RecTypeOK
  <2>3. WriteTypes
    BY <1>0, <2>1, <2>2, UpdateType
  <2>4. [FilterWorkload(rec.obj, m, rec.w) EXCEPT !.rv = @ + 1] \in S3PA
    BY <2>2, BumpType
  <2>5. RecTypeOK' /\ queue' \subseteq Workloads
    <3>1. CASE Requeue
      BY <1>3, <3>1, FinishType DEF RemoveWorkload
    <3>2. CASE /\ rec' = [rec EXCEPT !.pc = "removeMPs",
                            !.obj = [FilterWorkload(rec.obj, m, rec.w) EXCEPT !.rv = @ + 1]]
               /\ UNCHANGED queue
      BY <1>0, <1>3, <2>4, <3>2 DEF RemoveWorkload, RecTypeOK, RecType, RecPCs
    <3>. QED
      BY <2>1, <3>1, <3>2
  <2>. QED
    BY <1>0, <1>3, <2>3, <2>5, ReconcilerStepType DEF RemoveWorkload
<1>4. CASE \E m \in MountpointPods : AnnotateUnusedMP(m)
  <2>1. PICK m \in MountpointPods : AnnotateUnusedMP(m)
    BY <1>4
  <2>2. mp' \in [MountpointPods -> MountpointPod] /\ faults' \in Nat
    BY <1>0, <2>1, AnnotateType DEF AnnotateUnusedMP
  <2>3. RecTypeOK' /\ queue' \subseteq Workloads
    <3>1. CASE Requeue
      BY <2>1, <3>1, FinishType DEF AnnotateUnusedMP
    <3>2. CASE rec' = [rec EXCEPT !.pc = "removeKey", !.m = m] /\ UNCHANGED queue
      BY <1>0, <2>1, <3>2 DEF AnnotateUnusedMP, RecTypeOK, RecType, RecPCs
    <3>. QED
      BY <2>1, <3>1, <3>2 DEF AnnotateUnusedMP
  <2>. QED
    BY <1>0, <2>1, <2>2, <2>3, ReconcilerStepType DEF AnnotateUnusedMP, WriteTypes
<1>5. CASE RemoveUnusedMP
  <2>1. rec.w \in Workloads /\ rec.m \in MountpointPods /\ rec.n \in S3PAs
    BY <1>0, <1>5 DEF RemoveUnusedMP, RecTypeOK
  <2>2. DropKey(rec.obj, rec.m) \in S3PA
    BY <1>0, <2>1, S3PAOpsType
  <2>3. WriteTypes
    BY <1>0, <1>5, <2>1, <2>2, UpdateType DEF RemoveUnusedMP
  <2>4. [DropKey(rec.obj, rec.m) EXCEPT !.rv = @ + 1] \in S3PA
    BY <2>2, BumpType
  <2>5. RecTypeOK' /\ queue' \subseteq Workloads
    <3>1. CASE Requeue
      BY <1>5, <3>1, FinishType DEF RemoveUnusedMP
    <3>2. CASE /\ rec' = [rec EXCEPT !.pc = "removeMPs", !.m = Nil,
                            !.obj = [DropKey(rec.obj, rec.m) EXCEPT !.rv = @ + 1]]
               /\ UNCHANGED queue
      BY <1>0, <1>5, <2>1, <2>4, <3>2 DEF RemoveUnusedMP, RecTypeOK, RecType, RecPCs
    <3>. QED
      BY <1>5, <3>1, <3>2 DEF RemoveUnusedMP
  <2>. QED
    BY <1>0, <1>5, <2>3, <2>5, ReconcilerStepType DEF RemoveUnusedMP
<1>6. CASE RemoveS3PodAttachment
  <2>1. rec.n \in S3PAs /\ rec.obj.rv \in Nat
    BY <1>0, <1>6 DEF RemoveS3PodAttachment, RecTypeOK, S3PA
  <2>2. WriteTypes
    BY <1>0, <1>6, <2>1, DeleteType DEF RemoveS3PodAttachment, WriteTypes
  <2>3. RecTypeOK' /\ queue' \subseteq Workloads
    BY <1>6, FinishType DEF RemoveS3PodAttachment
  <2>4. pending' \in BOOLEAN
    BY <1>0, <1>6 DEF RemoveS3PodAttachment
  <2>. QED
    BY <1>0, <1>6, <2>2, <2>3, <2>4, ReconcilerStepType DEF RemoveS3PodAttachment
<1>. QED
  BY <1>1, <1>2, <1>3, <1>4, <1>5, <1>6

(* Every step of a cleanup run keeps every type. *)
LEMMA CleanerStepType ==
    ASSUME TypeOK, CleanerStep, UNCHANGED reconcilerVars
    PROVE  TypeOK'
<1>0. /\ ClusterTypeOK /\ cl \in CleanerType /\ (cl.pc = "s3pa" => cl.n \in S3PAs)
      /\ mp \in [MountpointPods -> MountpointPod] /\ faults \in Nat /\ lost \in BOOLEAN
      /\ hist \in Seq([S3PAs -> S3PA]) /\ Len(hist) > 0 /\ cl.obj \in S3PA
      /\ cl.list \in [S3PAs -> S3PA]
  BY DEF TypeOK, ClusterTypeOK, CleanerTypeOK, CleanerType
<1>1. SUFFICES ASSUME CleanerUntouched
               PROVE  /\ WriteTypes
                      /\ mp' \in [MountpointPods -> MountpointPod]
                      /\ CleanerTypeOK'
  <2>1. CleanerUntouched
    BY DEF CleanerStep, CleanerListPods, CleanerListS3PAs, CleanerDone, FilterStale,
           CleanerAnnotate, CleanerWrite
  <2>2. WriteTypes /\ mp' \in [MountpointPods -> MountpointPod] /\ CleanerTypeOK'
    BY <1>1, <2>1
  <2>3. ClusterTypeOK'
    BY <2>1, <2>2 DEF TypeOK, ClusterTypeOK, CleanerUntouched, WriteTypes
  <2>4. ReconcilerTypeOK'
    BY DEF TypeOK, ReconcilerTypeOK, RecTypeOK, reconcilerVars
  <2>. QED
    BY <2>2, <2>3, <2>4 DEF TypeOK
<1>2. CASE CleanerListPods
  BY <1>0, <1>2 DEF CleanerListPods, CleanerTypeOK, CleanerType, CleanerPCs, WriteTypes
<1>3. CASE CleanerListS3PAs
  BY <1>0, <1>3, StoreType
     DEF CleanerListS3PAs, CleanerTypeOK, CleanerType, CleanerPCs, WriteTypes
<1>4. CASE CleanerDone
  BY <1>0, <1>4, IdleType
     DEF CleanerDone, CleanerTypeOK, CleanerIdle, WriteTypes
<1>5. CASE \E n \in S3PAs : FilterStale(n)
  <2>1. PICK n \in S3PAs : FilterStale(n)
    BY <1>5
  <2>. DEFINE obj  == cl.list[n]
              kept == [m \in MountpointPods |-> {w \in obj.wl[m] : ~IsStale(w)}]
  <2>2. obj \in S3PA
    BY <1>0
  <2>3. kept \in [MountpointPods -> SUBSET Workloads]
    BY <2>2 DEF S3PA
  <2>4. [obj EXCEPT !.wl = kept] \in S3PA
    BY <2>2, <2>3 DEF S3PA
  <2>5. [cl.list EXCEPT ![n] = NoS3PA] \in [S3PAs -> S3PA]
    BY <1>0, NoS3PAType
  <2>6. cl' = [cl EXCEPT !.pc = "s3pa", !.n = n, !.list = [cl.list EXCEPT ![n] = NoS3PA],
                         !.obj = [obj EXCEPT !.wl = kept], !.modified = kept # obj.wl]
    BY <2>1 DEF FilterStale
  <2>. HIDE DEF kept, obj
  <2>7. CleanerTypeOK'
    BY <1>0, <2>4, <2>5, <2>6 DEF CleanerTypeOK, CleanerType, CleanerPCs
  <2>. QED
    BY <1>0, <2>1, <2>7 DEF FilterStale, WriteTypes
<1>6. CASE \E m \in MountpointPods : CleanerAnnotate(m)
  <2>1. PICK m \in MountpointPods : CleanerAnnotate(m)
    BY <1>6
  <2>2. mp' \in [MountpointPods -> MountpointPod] /\ faults' \in Nat
    BY <1>0, <2>1, AnnotateType DEF CleanerAnnotate
  <2>3. DropKey(cl.obj, m) \in S3PA
    BY <1>0 DEF S3PA, DropKey
  <2>4. CleanerTypeOK'
    BY <1>0, <2>1, <2>3, NoS3PAType
       DEF CleanerAnnotate, NextS3PA, CleanerTypeOK, CleanerType, CleanerPCs
  <2>. QED
    BY <1>0, <2>1, <2>2, <2>4 DEF CleanerAnnotate, WriteTypes
<1>7. CASE CleanerWrite
  <2>1. cl.n \in S3PAs /\ cl.obj.rv \in Nat
    BY <1>0, <1>7 DEF CleanerWrite, S3PA
  <2>2. WriteTypes
    BY <1>0, <1>7, <2>1, UpdateType, DeleteType DEF CleanerWrite, WriteTypes
  <2>3. CleanerTypeOK'
    BY <1>0, <1>7, NoS3PAType
       DEF CleanerWrite, NextS3PA, CleanerTypeOK, CleanerType, CleanerPCs
  <2>. QED
    BY <1>0, <1>7, <2>2, <2>3 DEF CleanerWrite
<1>. QED
  BY <1>2, <1>3, <1>4, <1>5, <1>6, <1>7 DEF CleanerStep

(* Steps of Pods, watches and restarts keep every type. *)
LEMMA EnvironmentType ==
    ASSUME TypeOK, Environment
    PROVE  TypeOK'
<1>. USE DEF TypeOK, ClusterTypeOK, ReconcilerTypeOK, RecTypeOK, CleanerTypeOK
<1>1. ASSUME NEW w \in Workloads,
             PodScheduled(w) \/ PodStarts(w) \/ PodTerminates(w)
               \/ PodFinishes(w) \/ PodVanishes(w)
      PROVE  TypeOK'
  <2>1. PICK to \in PodStates :
          /\ pods' = [pods EXCEPT ![w] = to]
          /\ queue' = queue \cup {w}
          /\ UNCHANGED <<hist, mp, mpSeen, aged, faults, lost, restarts, disturbed,
                         rec, pending, version, cl>>
    BY <1>1 DEF PodScheduled, PodStarts, PodTerminates, PodFinishes, PodVanishes,
                PodChange, PodStates
  <2>2. pods' \in [Workloads -> PodStates] /\ queue' \subseteq Workloads
    BY <2>1
  <2>. QED
    BY <2>1, <2>2
<1>2. ASSUME NEW w \in Workloads, PodEvent(w) PROVE TypeOK'
  <2>1. queue' \subseteq Workloads /\ disturbed' \in Nat
    BY <1>2 DEF PodEvent, Disturb
  <2>. QED
    BY <1>2, <2>1 DEF PodEvent
<1>3. ASSUME NEW w \in Workloads, AttachmentAges(w) PROVE TypeOK'
  BY <1>3 DEF AttachmentAges, reconcilerVars
<1>4. ASSUME NEW m \in MountpointPods,
             MountpointPodSucceeds(m) \/ MountpointPodClosed(m) \/ MountpointPodEvicted(m)
      PROVE  TypeOK'
  <2>1. PICK pod \in MountpointPod : MountpointPodChange(m, pod)
    <3>0. mp[m] \in MountpointPod
      OBVIOUS
    <3>1. /\ [mp[m] EXCEPT !.phase = "succeeded"] \in MountpointPod
          /\ [mp[m] EXCEPT !.noNewWorkload = TRUE] \in MountpointPod
      BY ONLY <3>0 DEF MountpointPod
    <3>. QED
      BY <1>4, <3>1, PodType
         DEF MountpointPodSucceeds, MountpointPodClosed, MountpointPodEvicted
  <2>2. mp' \in [MountpointPods -> MountpointPod]
    BY <2>1 DEF MountpointPodChange
  <2>3. disturbed' \in Nat
    BY <1>4 DEF MountpointPodSucceeds, MountpointPodClosed, MountpointPodEvicted, Disturb
  <2>. QED
    BY <2>1, <2>2, <2>3 DEF MountpointPodChange, reconcilerVars
<1>5. ASSUME NEW m \in MountpointPods, SyncMountpointPod(m) PROVE TypeOK'
  <2>1. mpSeen' \in [MountpointPods -> MountpointPod]
    BY <1>5 DEF SyncMountpointPod
  <2>. QED
    BY <1>5, <2>1 DEF SyncMountpointPod, reconcilerVars
<1>6. CASE SyncS3PAs
  <2>1. hist' \in Seq([S3PAs -> S3PA]) /\ Len(hist') > 0
    BY <1>6 DEF SyncS3PAs
  <2>. QED
    BY <1>6, <2>1 DEF SyncS3PAs, reconcilerVars
<1>7. CASE Restart
  <2>1. rec' \in RecType /\ rec'.pc = "idle" /\ cl' \in CleanerType /\ cl'.pc = "idle"
    BY <1>7, IdleType DEF Restart, RecIdle, CleanerIdle
  <2>2. restarts' \in Nat
    BY <1>7 DEF Restart
  <2>. QED
    BY <1>7, <2>1, <2>2 DEF Restart
<1>. QED
  BY <1>1, <1>2, <1>3, <1>4, <1>5, <1>6, <1>7 DEF Environment

(* The initial state is well typed. *)
LEMMA InitType == Init => TypeOK
<1>. SUFFICES ASSUME Init PROVE TypeOK
  OBVIOUS
<1>1. [n \in S3PAs |-> NoS3PA] \in [S3PAs -> S3PA]
  BY NoS3PAType
<1>2. ClusterTypeOK
  <2>1. hist \in Seq([S3PAs -> S3PA]) /\ Len(hist) > 0
    BY <1>1 DEF Init, ClusterInit
  <2>2. pods \in [Workloads -> PodStates]
    BY DEF Init, ClusterInit, PodStates
  <2>3. mp \in [MountpointPods -> MountpointPod]
    BY PodType DEF Init, ClusterInit
  <2>. QED
    BY <2>1, <2>2, <2>3 DEF Init, ClusterInit, ClusterTypeOK
<1>3. ReconcilerTypeOK
  BY IdleType, WorkloadAssumption
     DEF Init, ReconcilerInit, ReconcilerTypeOK, RecTypeOK, RecIdle
<1>4. CleanerTypeOK
  BY IdleType DEF Init, CleanerInit, CleanerTypeOK, CleanerIdle
<1>. QED
  BY <1>2, <1>3, <1>4 DEF TypeOK

(* Every step keeps every type. *)
LEMMA NextType == TypeOK /\ [Next]_vars => TypeOK'
<1>. SUFFICES ASSUME TypeOK, [Next]_vars PROVE TypeOK'
  OBVIOUS
<1>1. ASSUME NEW w \in Workloads, ReconcileWorkload(w), UNCHANGED cl PROVE TypeOK'
  BY <1>1, ReconcileWorkloadType
<1>2. ASSUME NEW m \in MountpointPods, ReconcileMountpointPod(m), UNCHANGED cl PROVE TypeOK'
  <2>1. mp' \in [MountpointPods -> MountpointPod]
    BY <1>2, PodType DEF ReconcileMountpointPod, TypeOK, ClusterTypeOK
  <2>. QED
    BY <1>2, <2>1, ReconcilerStepType
       DEF ReconcileMountpointPod, TypeOK, ClusterTypeOK, ReconcilerTypeOK, RecTypeOK,
           WriteTypes
<1>3. CASE Reconcile
  BY <1>3, AttachType, DetachType DEF Reconcile, ReconcileStep
<1>4. CASE Clean
  BY <1>4, CleanerStepType DEF Clean
<1>5. CASE Environment
  BY <1>5, EnvironmentType
<1>6. CASE UNCHANGED vars
  BY <1>6 DEF vars, clusterVars, reconcilerVars, TypeOK, ClusterTypeOK,
              ReconcilerTypeOK, RecTypeOK, CleanerTypeOK
<1>. QED
  BY <1>1, <1>2, <1>3, <1>4, <1>5, <1>6 DEF Next

(* Type correctness of the controller: with every lag, fault and restart, each *)
(* step of a Reconcile and of a cleanup run has the names it needs in hand.    *)
THEOREM TypeCorrect == Spec => []TypeOK
BY InitType, NextType, PTL DEF Spec
=============================================================================
