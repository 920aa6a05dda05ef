-------------------------- MODULE AttachmentProofs --------------------------
(***************************************************************************)
(* The safety of the attachments, for every value of the constants:        *)
(* a S3PA lists a workload under at most one Mountpoint Pod, the creation  *)
(* expectation keeps the S3PA of a field tuple unique, no write made from  *)
(* an old copy takes a Mountpoint Pod away from an active workload, adds   *)
(* one of another version or forgets one that still runs, nothing but a    *)
(* delete of the cleaner leaves an expectation without S3PAs, and the      *)
(* attachments in the store change as module Attachments says.             *)
(***************************************************************************)
EXTENDS ControllerProofs

-----------------------------------------------------------------------------
(* A workload is listed once: the copies.                                   *)

(* No workload is listed under two Mountpoint Pods. *)
OnceIn(obj) ==
    \A w \in Workloads, a, b \in MountpointPods :
        w \in obj.wl[a] /\ w \in obj.wl[b] => a = b

(* AttachedOnce holds of every copy of a S3PA, in the store, on its way to the *)
(* cache or in a thread's hands, and a workload about to be added to a copy    *)
(* is not in it.                                                               *)
OnceInHist == \A i \in 1..Len(hist) : \A n \in S3PAs : OnceIn(hist[i][n])

OnceInRec ==
    /\ OnceIn(rec.obj)
    /\ rec.pc \in {"spawn", "assign", "update"} /\ rec.n # Nil
          => ~ContainsWorkload(rec.obj, rec.w)

OnceInCleaner == OnceIn(cl.obj) /\ \A n \in S3PAs : OnceIn(cl.list[n])

OnceInv == OnceInHist /\ OnceInRec /\ OnceInCleaner

(* The operations on the map keep a workload listed once. *)
LEMMA OnceOps ==
    ASSUME NEW obj \in S3PA, OnceIn(obj), NEW m \in MountpointPods, NEW w \in Workloads
    PROVE  /\ OnceIn([obj EXCEPT !.rv = @ + 1])
           /\ OnceIn(FilterWorkload(obj, m, w))
           /\ OnceIn(DropKey(obj, m))
           /\ ~ContainsWorkload(obj, w) => OnceIn(AppendWorkload(obj, m, w))
<1>1. OnceIn([obj EXCEPT !.rv = @ + 1])
  BY DEF OnceIn, S3PA
<1>2. OnceIn(FilterWorkload(obj, m, w))
  BY DEF OnceIn, S3PA, FilterWorkload
<1>3. OnceIn(DropKey(obj, m))
  BY DEF OnceIn, S3PA, DropKey
<1>4. ~ContainsWorkload(obj, w) => OnceIn(AppendWorkload(obj, m, w))
  BY DEF OnceIn, S3PA, AppendWorkload, ContainsWorkload
<1>. QED
  BY <1>1, <1>2, <1>3, <1>4

(* An absent S3PA lists nobody. *)
LEMMA OnceNone == OnceIn(NoS3PA)
BY DEF OnceIn, NoS3PA

(* A write of such an object keeps the property of all copies in the history. *)
LEMMA OnceCommit ==
    ASSUME ClusterTypeOK, OnceInHist, NEW n \in S3PAs, NEW obj \in S3PA,
           OnceIn(obj), Commit(n, obj)
    PROVE  OnceInHist'
<1>1. /\ hist \in Seq([S3PAs -> S3PA]) /\ Len(hist) > 0
      /\ hist' = Append(hist, [hist[Len(hist)] EXCEPT ![n] = obj])
  BY DEF ClusterTypeOK, Commit, Api
<1>2. /\ Len(hist') = Len(hist) + 1 /\ Len(hist) \in Nat
      /\ \A i \in 1..Len(hist) : hist'[i] = hist[i]
      /\ hist'[Len(hist) + 1] = [hist[Len(hist)] EXCEPT ![n] = obj]
  BY <1>1
<1>3. hist[Len(hist)] \in [S3PAs -> S3PA]
  BY <1>1
<1>4. ASSUME NEW i \in 1..Len(hist'), NEW x \in S3PAs PROVE OnceIn(hist'[i][x])
  <2>1. CASE i \in 1..Len(hist)
    BY <1>2, <2>1 DEF OnceInHist
  <2>2. CASE i = Len(hist) + 1
    <3>1. OnceIn(hist[Len(hist)][x])
      BY <1>1, <1>2 DEF OnceInHist
    <3>. QED
      BY <1>2, <1>3, <2>2, <3>1
  <2>. QED
    BY <1>2, <2>1, <2>2
<1>. QED
  BY <1>4 DEF OnceInHist, OnceIn

(* ... whatever the outcome of an Update ... *)
LEMMA OnceUpdate ==
    ASSUME ClusterTypeOK, OnceInHist, NEW n \in S3PAs, NEW obj \in S3PA, OnceIn(obj),
           UpdateOk(n, obj) \/ UpdateFails(n, obj)
    PROVE  OnceInHist'
<1>1. CASE CommitUpdate(n, obj)
  <2>1. [obj EXCEPT !.rv = @ + 1] \in S3PA
    BY BumpType
  <2>2. OnceIn([obj EXCEPT !.rv = @ + 1])
    BY DEF OnceIn, S3PA
  <2>. QED
    BY <1>1, <2>1, <2>2, OnceCommit DEF CommitUpdate
<1>2. CASE hist' = hist
  BY <1>2 DEF OnceInHist, OnceIn
<1>. QED
  BY <1>1, <1>2 DEF UpdateOk, UpdateFails

(* ... or of a Delete. *)
LEMMA OnceDelete ==
    ASSUME ClusterTypeOK, OnceInHist, NEW n \in S3PAs, NEW rv,
           DeleteOk(n, rv) \/ DeleteFails(n, rv)
    PROVE  OnceInHist'
<1>1. CASE CommitDelete(n, rv)
  BY <1>1, OnceNone, NoS3PAType, OnceCommit DEF CommitDelete
<1>2. CASE hist' = hist
  BY <1>2 DEF OnceInHist, OnceIn
<1>. QED
  BY <1>1, <1>2 DEF DeleteOk, DeleteFails

(* The copies of the cleaner are untouched by everybody else. *)
LEMMA OnceCleanerUnchanged == OnceInCleaner /\ UNCHANGED cl => OnceInCleaner'
BY DEF OnceInCleaner, OnceIn

(* So is the one of the reconciler. *)
LEMMA OnceRecUnchanged == OnceInRec /\ UNCHANGED rec => OnceInRec'
BY DEF OnceInRec, OnceIn, ContainsWorkload

(* A Reconcile that ends holds no copy. *)
LEMMA OnceFinish == DontRequeue \/ Requeue => OnceInRec'
<1>. SUFFICES ASSUME rec' = RecIdle PROVE OnceInRec'
  BY DEF DontRequeue, Requeue
<1>1. rec'.obj = NoS3PA /\ rec'.pc = "idle"
  BY DEF RecIdle
<1>2. OnceIn(NoS3PA)
  BY OnceNone
<1>. QED
  BY <1>1, <1>2 DEF OnceInRec, OnceIn

(* A Reconcile that starts takes a copy from the cache. *)
LEMMA OnceStart ==
    ASSUME TypeOK, OnceInv, NEW w \in Workloads, NEW pc \in {"listed", "recover"},
           NEW n \in S3PAs \cup {Nil}, NEW dups, Start(w, pc, n, dups)
    PROVE  OnceInRec' /\ OnceInHist'
<1>1. rec'.pc = pc /\ rec'.obj = IF n = Nil THEN NoS3PA ELSE Cached[n]
  BY DEF Start
<1>2. \A x \in S3PAs : OnceIn(Cached[x])
  BY DEF OnceInv, OnceInHist, Cached, TypeOK, ClusterTypeOK
<1>3. OnceIn(rec'.obj)
  BY <1>1, <1>2, OnceNone
<1>4. OnceInRec'
  BY <1>1, <1>3 DEF OnceInRec, OnceIn
<1>5. OnceInHist'
  BY DEF Start, OnceInv, OnceInHist, OnceIn
<1>. QED
  BY <1>4, <1>5

(* A step of the reconciler keeps every workload listed once. *)
LEMMA OnceReconcile ==
    ASSUME TypeOK, OnceInv, ReconcileStep(FreshMPs, FreshS3PAs)
    PROVE  OnceInHist' /\ OnceInRec'
<1>. USE DEF At
<1>0. /\ ClusterTypeOK /\ RecTypeOK /\ rec \in RecType /\ rec.obj \in S3PA
      /\ OnceIn(rec.obj) /\ OnceInHist
  BY DEF TypeOK, ReconcilerTypeOK, RecTypeOK, RecType, OnceInv, OnceInRec
<1>a. ASSUME hist' = hist PROVE OnceInHist'
  BY <1>0, <1>a DEF OnceInHist, OnceIn
<1>b. ASSUME rec'.obj = rec.obj, rec'.pc \notin {"spawn", "assign", "update"}
      PROVE  OnceInRec'
  BY <1>0, <1>b DEF OnceInRec, OnceIn
<1>c. ASSUME NEW pc \in RecPCs, GoTo(pc) PROVE rec'.obj = rec.obj /\ rec'.pc = pc
  BY <1>0, <1>c DEF GoTo, RecType
<1>d. ASSUME rec'.obj = rec.obj, rec'.n = rec.n, rec'.w = rec.w,
             ~ContainsWorkload(rec.obj, rec.w)
      PROVE  OnceInRec'
  BY <1>0, <1>d DEF OnceInRec, OnceIn, ContainsWorkload
<1>1. ASSUME NEW d \in rec.dups, DeleteDuplicate(d) PROVE OnceInHist' /\ OnceInRec'
  <2>1. d[1] \in S3PAs
    BY <1>0 DEF RecType
  <2>2. OnceInHist'
    BY <1>0, <1>1, <2>1, OnceDelete DEF DeleteDuplicate
  <2>3. OnceInRec'
    <3>1. CASE Requeue
      BY <3>1, OnceFinish
    <3>2. CASE rec' = [rec EXCEPT !.dups = @ \ {d},
                                  !.pc = IF rec.dups = {d} THEN "listed" ELSE @]
      <4>1. rec'.obj = rec.obj /\ rec'.pc \in {"listed", "recover"}
        BY <1>0, <1>1, <3>2 DEF DeleteDuplicate, RecType
      <4>. QED
        BY <1>b, <4>1
    <3>. QED
      BY <1>1, <3>1, <3>2 DEF DeleteDuplicate
  <2>. QED
    BY <2>2, <2>3
<1>2. CASE HandleExistingS3PodAttachment
  <2>1. OnceInRec'
    <3>1. CASE DontRequeue
      BY <3>1, OnceFinish
    <3>2. CASE /\ ~ContainsWorkload(rec.obj, rec.w)
               /\ \E m \in rec.obj.keys : rec' = [rec EXCEPT !.pc = "assign", !.m = m]
      BY <1>0, <1>d, <3>2 DEF RecType
    <3>3. CASE ~ContainsWorkload(rec.obj, rec.w) /\ GoTo("spawn")
      BY <1>0, <1>d, <3>3 DEF RecType, GoTo
    <3>. QED
      BY <1>2, <3>1, <3>2, <3>3 DEF HandleExistingS3PodAttachment
  <2>. QED
    BY <1>2, <1>a, <2>1 DEF HandleExistingS3PodAttachment
<1>3. CASE AssignWorkload
  <2>1. /\ AppendWorkload(rec.obj, rec.m, rec.w) \in S3PA /\ rec.n \in S3PAs
        /\ OnceIn(AppendWorkload(rec.obj, rec.m, rec.w))
    BY <1>0, <1>3, S3PAOpsType, OnceOps, NilAssumption
       DEF AssignWorkload, RecTypeOK, OnceInv, OnceInRec
  <2>. QED
    BY <1>0, <1>3, <2>1, OnceUpdate, OnceFinish DEF AssignWorkload
<1>4. CASE HandleNewS3PodAttachment
  <2>1. OnceInRec'
    <3>1. CASE DontRequeue \/ Requeue
      BY <3>1, OnceFinish
    <3>2. CASE GoTo("spawn")
      <4>1. rec'.obj = rec.obj /\ rec'.n = Nil
        BY <1>0, <1>4, <3>2 DEF GoTo, RecType, HandleNewS3PodAttachment
      <4>. QED
        BY <1>0, <4>1 DEF OnceInRec, OnceIn
    <3>. QED
      BY <1>4, <3>1, <3>2 DEF HandleNewS3PodAttachment
  <2>. QED
    BY <1>4, <1>a, <2>1 DEF HandleNewS3PodAttachment
<1>5. CASE SpawnMountpointPod(FreshMPs)
  <2>1. OnceInRec'
    <3>1. CASE Requeue
      BY <3>1, OnceFinish
    <3>2. CASE \E m \in FreshMPs :
                 rec' = [rec EXCEPT !.pc = IF rec.n = Nil THEN "create" ELSE "update",
                                    !.m = m]
      <4>1. /\ rec'.obj = rec.obj /\ rec'.n = rec.n /\ rec'.w = rec.w
            /\ rec'.pc = IF rec.n = Nil THEN "create" ELSE "update"
        BY <1>0, <3>2 DEF RecType
      <4>2. CASE rec.n = Nil
        BY <1>b, <4>1, <4>2
      <4>3. CASE rec.n # Nil
        BY <1>5, <1>d, <4>1, <4>3 DEF SpawnMountpointPod, OnceInv, OnceInRec
      <4>. QED
        BY <4>2, <4>3
    <3>. QED
      BY <1>5, <3>1, <3>2 DEF SpawnMountpointPod
  <2>. QED
    BY <1>5, <1>a, <2>1 DEF SpawnMountpointPod
<1>6. CASE UpdateWithSpawned
  <2>1. /\ AppendWorkload(rec.obj, rec.m, rec.w) \in S3PA /\ rec.n \in S3PAs
        /\ OnceIn(AppendWorkload(rec.obj, rec.m, rec.w))
    BY <1>0, <1>6, S3PAOpsType, OnceOps, NilAssumption
       DEF UpdateWithSpawned, RecTypeOK, OnceInv, OnceInRec
  <2>2. OnceInHist'
    BY <1>0, <1>6, <2>1, OnceUpdate DEF UpdateWithSpawned
  <2>3. OnceInRec'
    BY <1>6, <1>b, <1>c, OnceFinish DEF UpdateWithSpawned, RecPCs
  <2>. QED
    BY <2>2, <2>3
<1>7. CASE CreateS3PodAttachment(FreshS3PAs)
  <2>1. NewS3PA \in S3PA /\ OnceIn(NewS3PA)
    <3>1. [NoS3PA EXCEPT !.live = TRUE, !.rv = 1] \in S3PA
      BY NoS3PAType DEF S3PA
    <3>2. /\ OnceIn([NoS3PA EXCEPT !.live = TRUE, !.rv = 1])
          /\ \A w \in Workloads :
               ~ContainsWorkload([NoS3PA EXCEPT !.live = TRUE, !.rv = 1], w)
      BY DEF OnceIn, ContainsWorkload, NoS3PA
    <3>3. rec.m \in MountpointPods /\ rec.w \in Workloads
      BY <1>0, <1>7 DEF CreateS3PodAttachment, RecTypeOK
    <3>. QED
      BY <3>1, <3>2, <3>3, S3PAOpsType, OnceOps DEF NewS3PA
  <2>2. OnceInHist'
    <3>1. CASE hist' = hist
      BY <1>a, <3>1
    <3>2. CASE \E n \in S3PAs : Commit(n, NewS3PA)
      BY <1>0, <2>1, <3>2, OnceCommit
    <3>. QED
      BY <1>7, <3>1, <3>2 DEF CreateS3PodAttachment, FreshS3PAs
  <2>3. OnceInRec'
    BY <1>7, <1>b, <1>c, OnceFinish DEF CreateS3PodAttachment, RecPCs
  <2>. QED
    BY <2>2, <2>3
<1>8. CASE CleanupSpawned
  BY <1>8, <1>a, OnceFinish DEF CleanupSpawned
<1>9. CASE HandleInactivePod
  <2>1. OnceInRec'
    BY <1>9, <1>b, <1>c, OnceFinish DEF HandleInactivePod, RecPCs
  <2>. QED
    BY <1>9, <1>a, <2>1 DEF HandleInactivePod
<1>10. CASE RemoveWorkload
  <2>1. PICK m \in MountpointPods :
          \/ /\ UpdateOk(rec.n, FilterWorkload(rec.obj, m, rec.w))
             /\ rec' = [rec EXCEPT !.pc = "removeMPs",
                          !.obj = [FilterWorkload(rec.obj, m, rec.w) EXCEPT !.rv = @ + 1]]
          \/ UpdateFails(rec.n, FilterWorkload(rec.obj, m, rec.w)) /\ Requeue
    BY <1>10 DEF RemoveWorkload
  <2>2. rec.w \in Workloads /\ rec.n \in S3PAs
    BY <1>0, <1>10 DEF RemoveWorkload, RecTypeOK
  <2>3. /\ FilterWorkload(rec.obj, m, rec.w) \in S3PA
        /\ OnceIn(FilterWorkload(rec.obj, m, rec.w))
        /\ OnceIn([FilterWorkload(rec.obj, m, rec.w) EXCEPT !.rv = @ + 1])
    BY <1>0, <2>2, S3PAOpsType, OnceOps
  <2>4. OnceInHist'
    BY <1>0, <2>1, <2>2, <2>3, OnceUpdate
  <2>5. OnceInRec'
    <3>1. CASE Requeue
      BY <3>1, OnceFinish
    <3>2. CASE rec' = [rec EXCEPT !.pc = "removeMPs",
                         !.obj = [FilterWorkload(rec.obj, m, rec.w) EXCEPT !.rv = @ + 1]]
      <4>1. /\ rec'.obj = [FilterWorkload(rec.obj, m, rec.w) EXCEPT !.rv = @ + 1]
            /\ rec'.pc = "removeMPs"
        BY <1>0, <3>2 DEF RecType
      <4>2. OnceIn(rec'.obj)
        BY <2>3, <4>1
      <4>. QED
        BY <4>1, <4>2 DEF OnceInRec, OnceIn
    <3>. QED
      BY <2>1, <3>1, <3>2
  <2>. QED
    BY <2>4, <2>5
<1>11. ASSUME NEW m \in MountpointPods, AnnotateUnusedMP(m) PROVE OnceInHist' /\ OnceInRec'
  <2>1. OnceInRec'
    <3>1. CASE Requeue
      BY <3>1, OnceFinish
    <3>2. CASE rec' = [rec EXCEPT !.pc = "removeKey", !.m = m]
      <4>1. rec'.obj = rec.obj /\ rec'.pc = "removeKey"
        BY <1>0, <3>2 DEF RecType
      <4>. QED
        BY <1>b, <4>1
    <3>. QED
      BY <1>11, <3>1, <3>2 DEF AnnotateUnusedMP
  <2>. QED
    BY <1>11, <1>a, <2>1 DEF AnnotateUnusedMP
<1>12. CASE RemoveUnusedMP
  <2>1. rec.w \in Workloads /\ rec.m \in MountpointPods /\ rec.n \in S3PAs
    BY <1>0, <1>12 DEF RemoveUnusedMP, RecTypeOK
  <2>2. /\ DropKey(rec.obj, rec.m) \in S3PA
        /\ OnceIn(DropKey(rec.obj, rec.m))
        /\ OnceIn([DropKey(rec.obj, rec.m) EXCEPT !.rv = @ + 1])
    BY <1>0, <2>1, S3PAOpsType, OnceOps
  <2>3. OnceInHist'
    BY <1>0, <1>12, <2>1, <2>2, OnceUpdate DEF RemoveUnusedMP
  <2>4. OnceInRec'
    <3>1. CASE Requeue
      BY <3>1, OnceFinish
    <3>2. CASE rec' = [rec EXCEPT !.pc = "removeMPs", !.m = Nil,
                         !.obj = [DropKey(rec.obj, rec.m) EXCEPT !.rv = @ + 1]]
      <4>1. /\ rec'.obj = [DropKey(rec.obj, rec.m) EXCEPT !.rv = @ + 1]
            /\ rec'.pc = "removeMPs"
        BY <1>0, <3>2 DEF RecType
      <4>2. OnceIn(rec'.obj)
        BY <2>2, <4>1
      <4>. QED
        BY <4>1, <4>2 DEF OnceInRec, OnceIn
    <3>. QED
      BY <1>12, <3>1, <3>2 DEF RemoveUnusedMP
  <2>. QED
    BY <2>3, <2>4
<1>13. CASE RemoveS3PodAttachment
  <2>1. rec.n \in S3PAs
    BY <1>0, <1>13 DEF RemoveS3PodAttachment, RecTypeOK
  <2>2. OnceInHist'
    BY <1>0, <1>13, <1>a, <2>1, OnceDelete DEF RemoveS3PodAttachment
  <2>. QED
    BY <1>13, <2>2, OnceFinish DEF RemoveS3PodAttachment
<1>. QED
  BY <1>1, <1>2, <1>3, <1>4, <1>5, <1>6, <1>7, <1>8, <1>9, <1>10, <1>11, <1>12, <1>13
     DEF ReconcileStep

(* A step of the cleaner keeps every workload listed once. *)
LEMMA OnceClean ==
    ASSUME TypeOK, OnceInv, CleanerStep
    PROVE  OnceInHist' /\ OnceInCleaner'
<1>0. /\ ClusterTypeOK /\ cl \in CleanerType /\ (cl.pc = "s3pa" => cl.n \in S3PAs)
      /\ cl.obj \in S3PA /\ cl.list \in [S3PAs -> S3PA]
      /\ OnceInHist /\ OnceIn(cl.obj) /\ \A n \in S3PAs : OnceIn(cl.list[n])
  BY DEF TypeOK, CleanerTypeOK, CleanerType, OnceInv, OnceInCleaner
<1>a. ASSUME hist' = hist PROVE OnceInHist'
  BY <1>0, <1>a DEF OnceInHist, OnceIn
<1>b. ASSUME OnceIn(cl'.obj), \A n \in S3PAs : OnceIn(cl'.list[n]) PROVE OnceInCleaner'
  BY <1>b DEF OnceInCleaner, OnceIn
<1>c. ASSUME NextS3PA PROVE OnceInCleaner'
  <2>1. cl'.obj = NoS3PA /\ cl'.list = cl.list
    BY <1>0, <1>c DEF NextS3PA, CleanerType
  <2>. QED
    BY <1>0, <1>b, <2>1, OnceNone
<1>1. CASE CleanerListPods
  <2>1. cl'.obj = cl.obj /\ cl'.list = cl.list
    BY <1>0, <1>1 DEF CleanerListPods, CleanerType
  <2>. QED
    BY <1>0, <1>1, <1>a, <1>b, <2>1 DEF CleanerListPods
<1>2. CASE CleanerListS3PAs
  <2>1. cl'.obj = cl.obj /\ cl'.list = Cached
    BY <1>0, <1>2 DEF CleanerListS3PAs, CleanerType
  <2>2. \A n \in S3PAs : OnceIn(Cached[n])
    BY <1>0 DEF OnceInHist, Cached, ClusterTypeOK
  <2>. QED
    BY <1>0, <1>2, <1>a, <1>b, <2>1, <2>2 DEF CleanerListS3PAs
<1>3. CASE CleanerDone
  <2>1. cl'.obj = NoS3PA /\ \A n \in S3PAs : cl'.list[n] = NoS3PA
    BY <1>3 DEF CleanerDone, CleanerIdle
  <2>. QED
    BY <1>3, <1>a, <1>b, <2>1, OnceNone DEF CleanerDone
<1>4. ASSUME NEW n \in S3PAs, FilterStale(n) PROVE OnceInHist' /\ OnceInCleaner'
  <2>. DEFINE obj  == cl.list[n]
              kept == [m \in MountpointPods |-> {w \in obj.wl[m] : ~IsStale(w)}]
  <2>1. obj \in S3PA /\ OnceIn(obj)
    BY <1>0
  <2>2. OnceIn([obj EXCEPT !.wl = kept])
    BY <2>1 DEF OnceIn, S3PA
  <2>3. cl' = [cl EXCEPT !.pc = "s3pa", !.n = n, !.list = [cl.list EXCEPT ![n] = NoS3PA],
                         !.obj = [obj EXCEPT !.wl = kept], !.modified = kept # obj.wl]
    BY <1>4 DEF FilterStale
  <2>. HIDE DEF kept, obj
  <2>4. /\ cl'.obj = [obj EXCEPT !.wl = kept]
        /\ cl'.list = [cl.list EXCEPT ![n] = NoS3PA]
    BY <1>0, <2>3 DEF CleanerType
  <2>5. \A x \in S3PAs : OnceIn(cl'.list[x])
    BY <1>0, <2>4, OnceNone
  <2>. QED
    BY <1>4, <1>a, <1>b, <2>2, <2>4, <2>5 DEF FilterStale
<1>5. ASSUME NEW m \in MountpointPods, CleanerAnnotate(m) PROVE OnceInHist' /\ OnceInCleaner'
  <2>1. OnceInCleaner'
    <3>1. CASE NextS3PA
      BY <1>c, <3>1
    <3>2. CASE cl' = [cl EXCEPT !.obj = DropKey(cl.obj, m)]
      <4>1. cl'.obj = DropKey(cl.obj, m) /\ cl'.list = cl.list
        BY <1>0, <3>2 DEF CleanerType
      <4>2. OnceIn(DropKey(cl.obj, m))
        BY <1>0 DEF OnceIn, DropKey, S3PA
      <4>. QED
        BY <1>0, <1>b, <4>1, <4>2
    <3>. QED
      BY <1>5, <3>1, <3>2 DEF CleanerAnnotate
  <2>. QED
    BY <1>5, <1>a, <2>1 DEF CleanerAnnotate
<1>6. CASE CleanerWrite
  <2>1. OnceInHist'
    BY <1>0, <1>6, <1>a, OnceUpdate, OnceDelete DEF CleanerWrite
  <2>. QED
    BY <1>6, <1>c, <2>1 DEF CleanerWrite
<1>. QED
  BY <1>1, <1>2, <1>3, <1>4, <1>5, <1>6 DEF CleanerStep

(* What the environment does to the history of stores and to the threads. *)
LEMMA EnvironmentSteps ==
    ASSUME Environment
    PROVE  \/ UNCHANGED <<hist, rec, cl, pending, lost, restarts>>
           \/ SyncS3PAs
           \/ Restart
BY DEF Environment, PodScheduled, PodStarts, PodTerminates, PodFinishes, PodVanishes,
       PodChange, PodEvent, AttachmentAges, MountpointPodSucceeds, MountpointPodClosed,
       MountpointPodEvicted, MountpointPodChange, SyncMountpointPod, reconcilerVars

(* No copy ever lists a workload under two Mountpoint Pods. *)
LEMMA OnceNext == TypeOK /\ OnceInv /\ [Next]_vars => OnceInv'
<1>. SUFFICES ASSUME TypeOK, OnceInv, [Next]_vars PROVE OnceInv'
  OBVIOUS
<1>a. ASSUME UNCHANGED <<hist, rec, cl>> PROVE OnceInv'
  BY <1>a DEF OnceInv, OnceInHist, OnceInRec, OnceInCleaner, OnceIn, ContainsWorkload
<1>1. ASSUME NEW w \in Workloads, ReconcileWorkload(w), UNCHANGED cl PROVE OnceInv'
  <2>1. CASE ReconcileNotFound(w) \/ ReconcileGivesUpOnDuplicates(w)
    BY <1>1, <1>a, <2>1 DEF ReconcileNotFound, ReconcileGivesUpOnDuplicates
  <2>2. CASE \E pc \in {"listed", "recover"}, n \in S3PAs \cup {Nil} :
               \E dups : Start(w, pc, n, dups)
    BY <1>1, <2>2, OnceStart, OnceCleanerUnchanged DEF OnceInv
  <2>. QED
    BY <1>1, <2>1, <2>2
       DEF ReconcileWorkload, ReconcileFindsNone, ReconcileFindsOne, ReconcileFindsDuplicates
<1>2. ASSUME NEW m \in MountpointPods, ReconcileMountpointPod(m), UNCHANGED cl PROVE OnceInv'
  BY <1>2, <1>a DEF ReconcileMountpointPod
<1>3. CASE Reconcile
  BY <1>3, OnceReconcile, OnceCleanerUnchanged DEF Reconcile, OnceInv
<1>4. CASE Clean
  BY <1>4, OnceClean, OnceRecUnchanged DEF Clean, OnceInv, reconcilerVars
<1>5. CASE SyncS3PAs
  <2>1. OnceInHist'
    <3>1. /\ hist \in Seq([S3PAs -> S3PA]) /\ hist' = Tail(hist) /\ Len(hist) > 1
      BY <1>5 DEF SyncS3PAs, TypeOK, ClusterTypeOK
    <3>2. /\ Len(hist') = Len(hist) - 1
          /\ \A i \in 1..Len(hist') : i + 1 \in 1..Len(hist) /\ hist'[i] = hist[i + 1]
      BY <3>1
    <3>3. \A i \in 1..Len(hist') : \A n \in S3PAs : OnceIn(hist'[i][n])
      BY <3>2 DEF OnceInv, OnceInHist
    <3>. QED
      BY <3>3 DEF OnceInHist, OnceIn
  <2>. QED
    BY <1>5, <2>1, OnceRecUnchanged, OnceCleanerUnchanged DEF SyncS3PAs, OnceInv, reconcilerVars
<1>6. CASE Restart
  <2>1. /\ rec'.obj = NoS3PA /\ rec'.pc = "idle" /\ cl'.obj = NoS3PA
        /\ \A n \in S3PAs : cl'.list[n] = NoS3PA
    BY <1>6 DEF Restart, RecIdle, CleanerIdle
  <2>2. OnceIn(rec'.obj) /\ OnceIn(cl'.obj) /\ \A n \in S3PAs : OnceIn(cl'.list[n])
    BY <2>1, OnceNone
  <2>3. OnceInHist'
    BY <1>6 DEF Restart, OnceInv, OnceInHist, OnceIn
  <2>. QED
    BY <2>1, <2>2, <2>3 DEF OnceInv, OnceInRec, OnceInCleaner, OnceIn
<1>7. CASE Environment
  BY <1>5, <1>6, <1>7, <1>a, EnvironmentSteps
<1>8. CASE UNCHANGED vars
  BY <1>8, <1>a DEF vars, clusterVars, reconcilerVars
<1>. QED
  BY <1>1, <1>2, <1>3, <1>4, <1>7, <1>8 DEF Next

(* ... and at first there is none. *)
LEMMA OnceInit == Init => OnceInv
<1>. SUFFICES ASSUME Init PROVE OnceInv
  OBVIOUS
<1>1. OnceInHist
  <2>1. Len(hist) = 1 /\ \A n \in S3PAs : hist[1][n] = NoS3PA
    BY DEF Init, ClusterInit
  <2>. QED
    BY <2>1, OnceNone DEF OnceInHist
<1>2. OnceInRec /\ OnceInCleaner
  BY OnceNone DEF Init, ReconcilerInit, CleanerInit, RecIdle, CleanerIdle, OnceInRec,
                  OnceInCleaner
<1>. QED
  BY <1>1, <1>2 DEF OnceInv

(* A S3PA never lists a workload under two Mountpoint Pods, with any number of *)
(* workloads, stale copies, faults, lost replies and restarts.                 *)
THEOREM AttachedOnceCorrect == Spec => []AttachedOnce
<1>1. TypeOK /\ OnceInv => AttachedOnce
  <2>. SUFFICES ASSUME TypeOK, OnceInv PROVE AttachedOnce
    OBVIOUS
  <2>1. \A n \in S3PAs : OnceIn(Api[n])
    BY DEF TypeOK, ClusterTypeOK, OnceInv, OnceInHist, Api
  <2>. QED
    BY <2>1 DEF AttachedOnce, OnceIn
<1>. QED
  BY <1>1, TypeCorrect, OnceInit, OnceNext, PTL DEF Spec

-----------------------------------------------------------------------------
(* At most one S3PA: the expectation.                                       *)

Quiet(i) == Live(hist[i]) = {}

AllQuiet == \A i \in 1..Len(hist) : Quiet(i)

Unique == \A i \in 1..Len(hist) : ~SeveralIn(Live(hist[i]))

(* From the cache to the store, S3PAs do not disappear and appear again. *)
OneCreation ==
    \A i, j, k \in 1..Len(hist) :
        i < j /\ j < k /\ ~Quiet(i) /\ Quiet(j) => Quiet(k)

(* A creation that the cache has not shown yet *)
Awaited == \E i, j \in 1..Len(hist) : i < j /\ Quiet(i) /\ ~Quiet(j)

(* A S3PA on its way to the cache is expected, at most one is on its way, and  *)
(* a Reconcile that found nothing and expects nothing is right.                *)
Expected ==
    /\ Unique
    /\ OneCreation
    /\ Awaited => pending /\ Quiet(1) /\ rec.n = Nil
    /\ rec.pc # "recover"
    /\ rec.pc # "idle" /\ rec.n = Nil /\ ~pending => AllQuiet
    /\ rec.pc \in {"spawn", "create"} /\ rec.n = Nil => ~pending

(* All of it as long as no reply was lost and the controller not restarted.    *)
ExpectationInv ==
    /\ rec.pc = "create" => rec.n = Nil
    /\ ~lost /\ restarts = 0 => Expected

(* A write that adds no S3PA. *)
Shrinks ==
    /\ Len(hist') = Len(hist) + 1
    /\ \A i \in 1..Len(hist) : hist'[i] = hist[i]
    /\ Live(hist'[Len(hist) + 1]) \subseteq Live(hist[Len(hist)])

(* Such a write changes nothing in what is on its way. *)
LEMMA ShrinkShape ==
    ASSUME ClusterTypeOK, Shrinks
    PROVE  /\ Unique => Unique'
           /\ OneCreation => OneCreation'
           /\ Awaited' => Awaited
           /\ AllQuiet => AllQuiet'
           /\ Quiet(1) => Quiet(1)'
<1>0. Len(hist) \in Nat /\ Len(hist) > 0 /\ Len(hist') = Len(hist) + 1
  BY DEF ClusterTypeOK, Shrinks
<1>1. \A i \in 1..Len(hist) : Live(hist'[i]) = Live(hist[i])
  BY DEF Shrinks
<1>2. Live(hist'[Len(hist) + 1]) \subseteq Live(hist[Len(hist)])
  BY DEF Shrinks
<1>3. \A i \in 1..Len(hist') : i \in 1..Len(hist) \/ i = Len(hist) + 1
  BY <1>0
<1>4. /\ \A i \in 1..Len(hist) : Quiet(i)' = Quiet(i)
      /\ Quiet(Len(hist)) => Live(hist'[Len(hist) + 1]) = {}
  BY <1>1, <1>2 DEF Quiet
<1>5. Unique => Unique'
  <2>. SUFFICES ASSUME Unique, NEW i \in 1..Len(hist') PROVE ~SeveralIn(Live(hist'[i]))
    BY DEF Unique, SeveralIn
  <2>1. PICK k \in 1..Len(hist) : Live(hist'[i]) \subseteq Live(hist[k])
    BY <1>0, <1>1, <1>2, <1>3
  <2>. QED
    BY <2>1 DEF Unique, SeveralIn
<1>6. AllQuiet => AllQuiet'
  BY <1>0, <1>1, <1>2, <1>3 DEF AllQuiet, Quiet
<1>7. Awaited' => Awaited
  <2>. SUFFICES ASSUME NEW i \in 1..Len(hist'), NEW j \in 1..Len(hist'), i < j,
                       Live(hist'[i]) = {}, Live(hist'[j]) # {}
                PROVE  Awaited
    BY DEF Awaited, Quiet
  <2>1. CASE j \in 1..Len(hist)
    <3>1. i \in 1..Len(hist)
      BY <1>0, <2>1
    <3>2. Live(hist[i]) = {} /\ Live(hist[j]) # {}
      BY <1>1, <2>1, <3>1
    <3>. QED
      BY <2>1, <3>1, <3>2 DEF Awaited, Quiet
  <2>2. CASE j = Len(hist) + 1
    <3>1. CASE i = Len(hist)
      BY <1>0, <1>1, <1>2, <2>2, <3>1
    <3>2. CASE i < Len(hist)
      BY SMTT(60), <1>0, <1>1, <1>2, <2>2, <3>2 DEF Awaited, Quiet
    <3>. QED
      BY <1>0, <2>2, <3>1, <3>2
  <2>. QED
    BY <1>3, <2>1, <2>2
<1>8. OneCreation => OneCreation'
  <2>. SUFFICES ASSUME OneCreation, NEW i \in 1..Len(hist'), NEW j \in 1..Len(hist'),
                       NEW k \in 1..Len(hist'), i < j, j < k,
                       Live(hist'[i]) # {}, Live(hist'[j]) = {}
                PROVE  Live(hist'[k]) = {}
    BY DEF OneCreation, Quiet
  <2>1. i \in 1..Len(hist) /\ j \in 1..Len(hist)
    BY <1>0
  <2>2. CASE k \in 1..Len(hist)
    BY <1>1, <2>1, <2>2 DEF OneCreation, Quiet
  <2>3. CASE k = Len(hist) + 1
    <3>1. Live(hist[Len(hist)]) = {}
      <4>1. CASE j = Len(hist)
        BY <1>1, <2>1, <4>1
      <4>2. CASE j < Len(hist)
        <5>1. Live(hist[i]) # {} /\ Live(hist[j]) = {} /\ Len(hist) \in 1..Len(hist)
          BY <1>0, <1>1, <2>1
        <5>. QED
          BY <2>1, <4>2, <5>1 DEF OneCreation, Quiet
      <4>. QED
        BY <1>0, <2>1, <4>1, <4>2
    <3>. QED
      BY <1>2, <2>3, <3>1
  <2>. QED
    BY <1>3, <2>2, <2>3
<1>9. Quiet(1) => Quiet(1)'
  BY <1>0, <1>1 DEF Quiet
<1>. QED
  BY <1>5, <1>6, <1>7, <1>8, <1>9

(* Updates and Deletes, with their precondition, add no S3PA. *)
LEMMA WritesShrink ==
    ASSUME ClusterTypeOK, NEW n \in S3PAs, NEW obj, NEW rv,
           CommitUpdate(n, obj) \/ CommitDelete(n, rv)
    PROVE  Shrinks
<1>1. PICK new : Commit(n, new) /\ Api[n].live
  BY DEF CommitUpdate, CommitDelete, VersionMatches
<1>2. /\ hist \in Seq([S3PAs -> S3PA]) /\ Len(hist) > 0 /\ Api = hist[Len(hist)]
      /\ hist' = Append(hist, [Api EXCEPT ![n] = new]) /\ Api \in [S3PAs -> S3PA]
  BY <1>1, StoreType DEF ClusterTypeOK, Commit, Api
<1>3. Live([Api EXCEPT ![n] = new]) \subseteq Live(Api)
  BY <1>1, <1>2 DEF Live
<1>4. /\ Len(hist') = Len(hist) + 1 /\ hist'[Len(hist) + 1] = [Api EXCEPT ![n] = new]
      /\ \A i \in 1..Len(hist) : hist'[i] = hist[i]
  BY <1>2
<1>. QED
  BY <1>2, <1>3, <1>4 DEF Shrinks

(* What an API call, other than a successful Create, does to the history.      *)
Harmless == lost' = TRUE \/ (lost' = lost /\ (hist' = hist \/ Shrinks))

(* Updates and Deletes are harmless, whatever their outcome. *)
LEMMA WritesHarmless ==
    ASSUME ClusterTypeOK, NEW n \in S3PAs, NEW obj, NEW rv,
           UpdateOk(n, obj) \/ UpdateFails(n, obj) \/ DeleteOk(n, rv) \/ DeleteFails(n, rv)
    PROVE  Harmless
BY WritesShrink DEF UpdateOk, UpdateFails, DeleteOk, DeleteFails, Harmless

(* After a harmless step what was on its way is what is on its way. *)
LEMMA HarmlessShape ==
    ASSUME TypeOK, Expected, hist' = hist \/ Shrinks
    PROVE  /\ Unique' /\ OneCreation'
           /\ Awaited' => Awaited
           /\ AllQuiet => AllQuiet'
           /\ Quiet(1) => Quiet(1)'
<1>1. CASE hist' = hist
  BY <1>1 DEF Expected, Unique, OneCreation, Awaited, AllQuiet, Quiet
<1>2. CASE Shrinks
  BY <1>2, ShrinkShape DEF TypeOK, Expected
<1>. QED
  BY <1>1, <1>2

(* A step of a Reconcile that leaves the expectation alone. *)
LEMMA ExpectationKept ==
    ASSUME TypeOK, ExpectationInv, Harmless, UNCHANGED <<pending, restarts>>,
           rec.pc # "idle",
           \/ rec' = RecIdle
           \/ /\ rec'.n = rec.n
              /\ rec'.pc \notin {"idle", "recover"}
              /\ rec'.pc = "create" => rec.n = Nil /\ rec.pc = "spawn"
              /\ rec'.pc = "spawn" /\ rec.n = Nil => ~pending
    PROVE  ExpectationInv'
<1>1. (rec.n = Nil \/ rec'.pc = "idle") /\ rec'.pc = "idle" => rec'.n = Nil
  BY DEF RecIdle
<1>2. (rec'.pc = "create" => rec'.n = Nil)
  BY DEF RecIdle
<1>3. ASSUME ~lost', restarts' = 0 PROVE Expected'
  <2>1. Expected /\ (hist' = hist \/ Shrinks)
    BY <1>3 DEF ExpectationInv, Harmless
  <2>2. /\ Unique' /\ OneCreation' /\ (Awaited' => Awaited)
        /\ (AllQuiet => AllQuiet') /\ (Quiet(1) => Quiet(1)')
    BY <2>1, HarmlessShape
  <2>3. rec'.n = rec.n \/ rec'.n = Nil
    BY DEF RecIdle
  <2>4. rec'.pc # "recover"
    BY DEF RecIdle
  <2>5. Awaited' => pending' /\ Quiet(1)' /\ rec'.n = Nil
    BY <2>1, <2>2, <2>3 DEF Expected
  <2>6. rec'.pc # "idle" /\ rec'.n = Nil /\ ~pending' => AllQuiet'
    BY <2>1, <2>2 DEF Expected, RecIdle
  <2>7. rec'.pc \in {"spawn", "create"} /\ rec'.n = Nil => ~pending'
    BY <2>1 DEF Expected, RecIdle
  <2>. QED
    BY <2>2, <2>4, <2>5, <2>6, <2>7 DEF Expected
<1>. QED
  BY <1>2, <1>3 DEF ExpectationInv

(* Clearing the expectation is right when a S3PA was found: nothing is awaited. *)
LEMMA ExpectationCleared ==
    ASSUME TypeOK, ExpectationInv, Harmless, UNCHANGED restarts, pending' = FALSE,
           rec.pc # "idle", rec.n # Nil,
           \/ rec' = RecIdle
           \/ rec'.n = rec.n /\ rec'.pc \notin {"idle", "recover", "create"}
    PROVE  ExpectationInv'
<1>1. (rec'.pc = "create" => rec'.n = Nil) /\ rec'.pc # "recover"
  BY DEF RecIdle
<1>2. ASSUME ~lost', restarts' = 0 PROVE Expected'
  <2>1. Expected /\ (hist' = hist \/ Shrinks)
    BY <1>2 DEF ExpectationInv, Harmless
  <2>2. Unique' /\ OneCreation' /\ ~Awaited'
    BY <2>1, HarmlessShape DEF Expected
  <2>3. rec'.pc = "idle" \/ rec'.n # Nil
    BY DEF RecIdle
  <2>. QED
    BY <1>1, <2>2, <2>3 DEF Expected
<1>. QED
  BY <1>1, <1>2 DEF ExpectationInv

(* Listing the cached S3PAs. *)
LEMMA ExpectationListed ==
    ASSUME TypeOK, ExpectationInv, NEW w \in Workloads, ReconcileWorkload(w)
    PROVE  ExpectationInv'
<1>. USE DEF At
<1>a. ASSUME UNCHANGED <<hist, pending, lost, restarts, rec>> PROVE ExpectationInv'
  BY <1>a DEF ExpectationInv, Expected, Unique, OneCreation, Awaited, AllQuiet, Quiet
<1>b. ASSUME NEW n, NEW pc \in {"listed", "recover"}, NEW dups, Start(w, pc, n, dups),
             ~lost /\ restarts = 0 /\ Expected
               => pc = "listed" /\ (n = Nil <=> Quiet(1))
      PROVE  ExpectationInv'
  <2>1. UNCHANGED <<hist, pending, lost, restarts>> /\ rec'.pc = pc /\ rec'.n = n
    BY <1>b DEF Start, Untouched
  <2>2. ASSUME ~lost, restarts = 0 PROVE Expected'
    <3>1. Expected /\ pc = "listed" /\ (n = Nil <=> Quiet(1))
      BY <1>b, <2>2 DEF ExpectationInv
    <3>2. n = Nil /\ ~pending => AllQuiet
      <4>. SUFFICES ASSUME Quiet(1), ~Awaited PROVE AllQuiet
        BY <3>1 DEF Expected
      <4>1. 1 \in 1..Len(hist)
        BY DEF TypeOK, ClusterTypeOK
      <4>. QED
        BY <4>1 DEF Awaited, AllQuiet
    <3>3. /\ Unique' /\ OneCreation' /\ (Awaited' <=> Awaited)
          /\ (Quiet(1)' <=> Quiet(1)) /\ (AllQuiet' <=> AllQuiet)
      BY <2>1, <3>1 DEF Expected, Unique, OneCreation, Awaited, Quiet, AllQuiet
    <3>. QED
      BY <2>1, <3>1, <3>2, <3>3 DEF Expected
  <2>. QED
    BY <2>1, <2>2 DEF ExpectationInv
<1>1. CASE ReconcileNotFound(w) \/ ReconcileGivesUpOnDuplicates(w)
  BY <1>1, <1>a DEF ReconcileNotFound, ReconcileGivesUpOnDuplicates, Untouched
<1>2. CASE ReconcileFindsNone(w)
  BY <1>2, <1>b DEF ReconcileFindsNone, Quiet, Cached
<1>3. CASE ReconcileFindsOne(w)
  BY <1>3, <1>b, NilAssumption DEF ReconcileFindsOne, Quiet, Cached
<1>4. CASE ReconcileFindsDuplicates(w)
  <2>1. ~(~lost /\ restarts = 0 /\ Expected)
    BY <1>4 DEF ReconcileFindsDuplicates, Expected, Unique, Cached, TypeOK, ClusterTypeOK
  <2>. QED
    BY <1>4, <1>b, <2>1 DEF ReconcileFindsDuplicates
<1>. QED
  BY <1>1, <1>2, <1>3, <1>4 DEF ReconcileWorkload

(* Creating a S3PA is right when there is none anywhere, and it is expected    *)
(* from then on.                                                               *)
LEMMA ExpectationCreates ==
    ASSUME TypeOK, ExpectationInv, NEW n \in S3PAs, NEW obj,
           Commit(n, obj), obj.live, pending' = TRUE, UNCHANGED <<lost, restarts>>,
           rec.pc = "create", rec' = RecIdle
    PROVE  ExpectationInv'
<1>1. rec'.pc = "idle" /\ rec'.n = Nil
  BY DEF RecIdle
<1>2. ASSUME ~lost', restarts' = 0 PROVE Expected'
  <2>1. AllQuiet
    BY <1>2 DEF ExpectationInv, Expected
  <2>2. /\ hist \in Seq([S3PAs -> S3PA]) /\ Len(hist) \in Nat /\ Len(hist) > 0
        /\ Api = hist[Len(hist)] /\ Api \in [S3PAs -> S3PA]
        /\ hist' = Append(hist, [Api EXCEPT ![n] = obj])
    BY StoreType DEF TypeOK, ClusterTypeOK, Commit, Api
  <2>3. /\ Len(hist') = Len(hist) + 1
        /\ \A i \in 1..Len(hist) : hist'[i] = hist[i]
        /\ hist'[Len(hist) + 1] = [Api EXCEPT ![n] = obj]
    BY <2>2
  <2>4. \A i \in 1..Len(hist) : Live(hist'[i]) = {}
    BY <2>1, <2>3 DEF AllQuiet, Quiet
  <2>5. Live(Api) = {}
    <3>1. Len(hist) \in 1..Len(hist)
      BY <2>2
    <3>2. Live(hist[Len(hist)]) = {}
      BY <2>1, <3>1 DEF AllQuiet, Quiet
    <3>. QED
      BY <2>2, <3>2
  <2>6. Live(hist'[Len(hist) + 1]) = {n}
    BY <2>2, <2>3, <2>5 DEF Live
  <2>7. \A i \in 1..Len(hist') : i \in 1..Len(hist) \/ i = Len(hist) + 1
    BY <2>2, <2>3
  <2>8. Unique'
    <3>. SUFFICES ASSUME NEW i \in 1..Len(hist') PROVE ~SeveralIn(Live(hist'[i]))
      BY DEF Unique, SeveralIn
    <3>. QED
      BY <2>4, <2>6, <2>7 DEF SeveralIn
  <2>9. OneCreation'
    <3>. SUFFICES ASSUME NEW i \in 1..Len(hist'), NEW j \in 1..Len(hist'),
                         NEW k \in 1..Len(hist'), i < j, j < k, Live(hist'[i]) # {}
                  PROVE  FALSE
      BY DEF OneCreation, Quiet
    <3>1. i \in 1..Len(hist)
      BY <2>2, <2>3
    <3>. QED
      BY <2>4, <3>1
  <2>10. Quiet(1)'
    <3>1. 1 \in 1..Len(hist)
      BY <2>2
    <3>2. Live(hist'[1]) = {}
      BY <2>4, <3>1
    <3>. QED
      BY <3>2 DEF Quiet
  <2>. QED
    BY <1>1, <2>8, <2>9, <2>10 DEF Expected
<1>. QED
  BY <1>1, <1>2 DEF ExpectationInv

(* A step of the reconciler keeps the expectation right. *)
LEMMA ExpectationReconcile ==
    ASSUME TypeOK, ExpectationInv, ReconcileStep(FreshMPs, FreshS3PAs)
    PROVE  ExpectationInv'
<1>. USE DEF At
<1>0. /\ ClusterTypeOK /\ RecTypeOK /\ rec \in RecType /\ Nil \notin S3PAs
  BY NilAssumption DEF TypeOK, ReconcilerTypeOK, RecTypeOK
<1>a. ASSUME UNCHANGED <<hist, lost>> PROVE Harmless
  BY <1>a DEF Harmless
<1>b. ASSUME NEW pc \in RecPCs, GoTo(pc) PROVE rec'.n = rec.n /\ rec'.pc = pc
  BY <1>0, <1>b DEF GoTo, RecType
<1>c. ASSUME DontRequeue \/ Requeue PROVE rec' = RecIdle
  BY <1>c DEF DontRequeue, Requeue
<1>d. ASSUME Untouched PROVE UNCHANGED restarts
  BY <1>d DEF Untouched
<1>1. ASSUME NEW d \in rec.dups, DeleteDuplicate(d) PROVE ExpectationInv'
  <2>1. d[1] \in S3PAs
    BY <1>0 DEF RecType
  <2>2. Harmless /\ UNCHANGED restarts
    BY <1>0, <1>1, <1>d, <2>1, WritesHarmless DEF DeleteDuplicate
  <2>3. ~(~lost /\ restarts = 0)
    BY <1>1 DEF DeleteDuplicate, ExpectationInv, Expected
  <2>4. ~(~lost' /\ restarts' = 0)
    BY <2>2, <2>3 DEF Harmless
  <2>5. rec'.pc # "create"
    <3>1. CASE Requeue
      BY <1>c, <3>1 DEF RecIdle
    <3>2. CASE rec' = [rec EXCEPT !.dups = @ \ {d},
                                  !.pc = IF rec.dups = {d} THEN "listed" ELSE @]
      BY <1>0, <1>1, <3>2 DEF DeleteDuplicate, RecType
    <3>. QED
      BY <1>1, <3>1, <3>2 DEF DeleteDuplicate
  <2>. QED
    BY <2>4, <2>5 DEF ExpectationInv
<1>2. CASE HandleExistingS3PodAttachment
  <2>1. rec' = RecIdle \/ (rec'.n = rec.n /\ rec'.pc \in {"assign", "spawn"})
    <3>1. CASE DontRequeue
      BY <1>c, <3>1
    <3>2. CASE \E m \in rec.obj.keys : rec' = [rec EXCEPT !.pc = "assign", !.m = m]
      BY <1>0, <3>2 DEF RecType
    <3>3. CASE GoTo("spawn")
      BY <1>b, <3>3 DEF RecPCs
    <3>. QED
      BY <1>2, <3>1, <3>2, <3>3 DEF HandleExistingS3PodAttachment
  <2>2. /\ Harmless /\ UNCHANGED restarts /\ pending' = FALSE
        /\ rec.pc = "listed" /\ rec.n # Nil
    BY <1>2, <1>a, <1>d DEF HandleExistingS3PodAttachment
  <2>. QED
    BY <2>1, <2>2, ExpectationCleared
<1>3. CASE AssignWorkload
  <2>1. rec.n \in S3PAs /\ rec.pc = "assign"
    BY <1>0, <1>3 DEF AssignWorkload, RecTypeOK
  <2>2. Harmless
    BY <1>0, <1>3, <2>1, WritesHarmless DEF AssignWorkload
  <2>3. UNCHANGED <<pending, restarts>> /\ rec' = RecIdle
    BY <1>3, <1>c, <1>d DEF AssignWorkload
  <2>. QED
    BY <2>1, <2>2, <2>3, ExpectationKept
<1>4. CASE HandleNewS3PodAttachment
  <2>1. rec' = RecIdle \/ (rec'.n = rec.n /\ rec'.pc = "spawn" /\ ~pending)
    BY <1>4, <1>b, <1>c DEF HandleNewS3PodAttachment, RecPCs
  <2>2. Harmless /\ UNCHANGED <<pending, restarts>> /\ rec.pc = "listed"
    BY <1>4, <1>a, <1>d DEF HandleNewS3PodAttachment
  <2>. QED
    BY <2>1, <2>2, ExpectationKept
<1>5. CASE SpawnMountpointPod(FreshMPs)
  <2>1. \/ rec' = RecIdle
        \/ rec'.n = rec.n /\ rec'.pc = "update"
        \/ rec'.n = rec.n /\ rec'.pc = "create" /\ rec.n = Nil
    <3>1. CASE Requeue
      BY <1>c, <3>1
    <3>2. CASE \E m \in FreshMPs :
                 rec' = [rec EXCEPT !.pc = IF rec.n = Nil THEN "create" ELSE "update",
                                    !.m = m]
      BY <1>0, <3>2 DEF RecType
    <3>. QED
      BY <1>5, <3>1, <3>2 DEF SpawnMountpointPod
  <2>2. Harmless /\ UNCHANGED <<pending, restarts>> /\ rec.pc = "spawn"
    BY <1>5, <1>a, <1>d DEF SpawnMountpointPod
  <2>. QED
    BY <2>1, <2>2, ExpectationKept
<1>6. CASE UpdateWithSpawned
  <2>1. rec.n \in S3PAs /\ rec.pc = "update"
    BY <1>0, <1>6 DEF UpdateWithSpawned, RecTypeOK
  <2>2. Harmless
    BY <1>0, <1>6, <2>1, WritesHarmless DEF UpdateWithSpawned
  <2>3. UNCHANGED <<pending, restarts>>
    BY <1>6, <1>d DEF UpdateWithSpawned
  <2>4. rec' = RecIdle \/ (rec'.n = rec.n /\ rec'.pc = "cleanup")
    BY <1>6, <1>b, <1>c DEF UpdateWithSpawned, RecPCs
  <2>. QED
    BY <2>1, <2>2, <2>3, <2>4, ExpectationKept
<1>7. CASE CreateS3PodAttachment(FreshS3PAs)
  <2>0. UNCHANGED restarts /\ rec.pc = "create"
    BY <1>7, <1>d DEF CreateS3PodAttachment
  <2>1. ASSUME NEW n \in S3PAs, Commit(n, NewS3PA), pending' = TRUE, Requeue,
               UNCHANGED lost
        PROVE  ExpectationInv'
    <3>1. NewS3PA.live
      <4>1. [NoS3PA EXCEPT !.live = TRUE, !.rv = 1] \in S3PA
        BY NoS3PAType DEF S3PA
      <4>2. [NoS3PA EXCEPT !.live = TRUE, !.rv = 1].live
        BY DEF NoS3PA
      <4>. QED
        BY <4>1, <4>2 DEF NewS3PA, AppendWorkload, S3PA
    <3>. QED
      BY <1>c, <2>0, <2>1, <3>1, ExpectationCreates
  <2>2. ASSUME GoTo("cleanup"), UNCHANGED pending, UNCHANGED <<hist, lost>> \/ lost' = TRUE
        PROVE  ExpectationInv'
    <3>1. Harmless
      BY <2>2 DEF Harmless
    <3>2. rec'.n = rec.n /\ rec'.pc = "cleanup"
      BY <1>b, <2>2 DEF RecPCs
    <3>. QED
      BY <2>0, <2>2, <3>1, <3>2, ExpectationKept
  <2>. QED
    BY <1>7, <2>1, <2>2 DEF CreateS3PodAttachment, FreshS3PAs
<1>8. CASE CleanupSpawned
  <2>1. /\ Harmless /\ UNCHANGED <<pending, restarts>> /\ rec' = RecIdle
        /\ rec.pc = "cleanup"
    BY <1>8, <1>a, <1>c, <1>d DEF CleanupSpawned
  <2>. QED
    BY <2>1, ExpectationKept
<1>9. CASE HandleInactivePod
  <2>1. rec' = RecIdle \/ (rec'.n = rec.n /\ rec'.pc \in {"removeUID", "removeMPs"})
    BY <1>9, <1>b, <1>c DEF HandleInactivePod, RecPCs
  <2>2. Harmless /\ UNCHANGED <<pending, restarts>> /\ rec.pc = "listed"
    BY <1>9, <1>a, <1>d DEF HandleInactivePod
  <2>. QED
    BY <2>1, <2>2, ExpectationKept
<1>10. CASE RemoveWorkload
  <2>1. rec.n \in S3PAs /\ rec.pc = "removeUID"
    BY <1>0, <1>10 DEF RemoveWorkload, RecTypeOK
  <2>2. PICK obj :
          \/ UpdateOk(rec.n, obj) /\ rec' = [rec EXCEPT !.pc = "removeMPs",
                                               !.obj = [obj EXCEPT !.rv = @ + 1]]
          \/ UpdateFails(rec.n, obj) /\ Requeue
    BY <1>10 DEF RemoveWorkload
  <2>3. Harmless
    BY <1>0, <2>1, <2>2, WritesHarmless
  <2>4. UNCHANGED <<pending, restarts>>
    BY <1>10, <1>d DEF RemoveWorkload
  <2>5. rec' = RecIdle \/ (rec'.n = rec.n /\ rec'.pc = "removeMPs")
    BY <1>0, <1>c, <2>2 DEF RecType
  <2>. QED
    BY <2>1, <2>3, <2>4, <2>5, ExpectationKept
<1>11. ASSUME NEW m \in MountpointPods, AnnotateUnusedMP(m) PROVE ExpectationInv'
  <2>1. Harmless /\ UNCHANGED <<pending, restarts>> /\ rec.pc = "removeMPs"
    BY <1>11, <1>a, <1>d DEF AnnotateUnusedMP
  <2>2. Requeue \/ rec' = [rec EXCEPT !.pc = "removeKey", !.m = m]
    BY <1>11 DEF AnnotateUnusedMP
  <2>3. rec' = RecIdle \/ (rec'.n = rec.n /\ rec'.pc = "removeKey")
    BY <1>0, <1>c, <2>2 DEF RecType
  <2>. QED
    BY <2>1, <2>3, ExpectationKept
<1>12. CASE RemoveUnusedMP
  <2>1. rec.n \in S3PAs /\ rec.pc = "removeKey"
    BY <1>0, <1>12 DEF RemoveUnusedMP, RecTypeOK
  <2>2. PICK obj :
          \/ UpdateOk(rec.n, obj) /\ rec' = [rec EXCEPT !.pc = "removeMPs", !.m = Nil,
                                               !.obj = [obj EXCEPT !.rv = @ + 1]]
          \/ UpdateFails(rec.n, obj) /\ Requeue
    BY <1>12 DEF RemoveUnusedMP
  <2>3. Harmless
    BY <1>0, <2>1, <2>2, WritesHarmless
  <2>4. UNCHANGED <<pending, restarts>>
    BY <1>12, <1>d DEF RemoveUnusedMP
  <2>5. rec' = RecIdle \/ (rec'.n = rec.n /\ rec'.pc = "removeMPs")
    BY <1>0, <1>c, <2>2 DEF RecType
  <2>. QED
    BY <2>1, <2>3, <2>4, <2>5, ExpectationKept
<1>13. CASE RemoveS3PodAttachment
  <2>1. rec.n \in S3PAs /\ rec.n # Nil /\ rec.pc = "removeMPs"
    BY <1>0, <1>13 DEF RemoveS3PodAttachment, RecTypeOK
  <2>2. Harmless
    BY <1>0, <1>13, <1>a, <2>1, WritesHarmless DEF RemoveS3PodAttachment
  <2>3. rec' = RecIdle /\ UNCHANGED restarts /\ (UNCHANGED pending \/ pending' = FALSE)
    BY <1>13, <1>c, <1>d DEF RemoveS3PodAttachment
  <2>. QED
    BY <2>1, <2>2, <2>3, ExpectationKept, ExpectationCleared
<1>. QED
  BY <1>1, <1>2, <1>3, <1>4, <1>5, <1>6, <1>7, <1>8, <1>9, <1>10, <1>11, <1>12, <1>13
     DEF ReconcileStep

(* So do the writes of the cleaner, which add no S3PA. *)
LEMMA ExpectationClean ==
    ASSUME TypeOK, ExpectationInv, CleanerStep, UNCHANGED reconcilerVars
    PROVE  ExpectationInv'
<1>0. ClusterTypeOK /\ (cl.pc = "s3pa" => cl.n \in S3PAs)
  BY DEF TypeOK, CleanerTypeOK
<1>1. Harmless
  <2>1. CASE UNCHANGED <<hist, lost>>
    BY <2>1 DEF Harmless
  <2>2. CASE CleanerWrite
    <3>1. cl.n \in S3PAs
      BY <1>0, <2>2 DEF CleanerWrite
    <3>2. CASE UNCHANGED <<hist, lost>>
      BY <3>2 DEF Harmless
    <3>3. CASE DeleteOk(cl.n, cl.obj.rv) \/ DeleteFails(cl.n, cl.obj.rv)
      BY <1>0, <3>1, <3>3, WritesHarmless
    <3>4. CASE UpdateOk(cl.n, cl.obj) \/ UpdateFails(cl.n, cl.obj)
      BY <1>0, <3>1, <3>4, WritesHarmless
    <3>. QED
      BY <2>2, <3>2, <3>3, <3>4 DEF CleanerWrite
  <2>. QED
    BY <2>1, <2>2 DEF CleanerStep, CleanerListPods, CleanerListS3PAs, CleanerDone,
                      FilterStale, CleanerAnnotate
<1>2. UNCHANGED <<rec, pending, restarts>>
  BY DEF reconcilerVars, CleanerStep, CleanerListPods, CleanerListS3PAs, CleanerDone,
         FilterStale, CleanerAnnotate, CleanerWrite, CleanerUntouched
<1>3. ASSUME ~lost', restarts' = 0 PROVE Expected'
  <2>1. Expected /\ (hist' = hist \/ Shrinks)
    BY <1>1, <1>2, <1>3 DEF ExpectationInv, Harmless
  <2>2. /\ Unique' /\ OneCreation' /\ (Awaited' => Awaited)
        /\ (AllQuiet => AllQuiet') /\ (Quiet(1) => Quiet(1)')
    BY <2>1, HarmlessShape
  <2>. QED
    BY <1>2, <2>1, <2>2 DEF Expected
<1>. QED
  BY <1>2, <1>3 DEF ExpectationInv

(* The watch shows the next store: what was on its way is there or closer. *)
LEMMA ExpectationSync ==
    ASSUME TypeOK, ExpectationInv, SyncS3PAs
    PROVE  ExpectationInv'
<1>1. /\ hist \in Seq([S3PAs -> S3PA]) /\ hist' = Tail(hist) /\ Len(hist) > 1
      /\ UNCHANGED <<rec, pending, lost, restarts>>
  BY DEF SyncS3PAs, TypeOK, ClusterTypeOK, reconcilerVars
<1>2. /\ Len(hist') = Len(hist) - 1 /\ Len(hist) \in Nat
      /\ \A i \in 1..Len(hist') : i + 1 \in 1..Len(hist) /\ hist'[i] = hist[i + 1]
  BY <1>1
<1>3. \A i \in 1..Len(hist') : Live(hist'[i]) = Live(hist[i + 1])
  BY <1>2
<1>4. ASSUME ~lost', restarts' = 0 PROVE Expected'
  <2>1. Expected
    BY <1>1, <1>4 DEF ExpectationInv
  <2>2. Unique'
    <3>. SUFFICES ASSUME NEW i \in 1..Len(hist') PROVE ~SeveralIn(Live(hist'[i]))
      BY DEF Unique, SeveralIn
    <3>1. i + 1 \in 1..Len(hist) /\ Live(hist'[i]) = Live(hist[i + 1])
      BY <1>2, <1>3
    <3>. QED
      BY <2>1, <3>1 DEF Expected, Unique
  <2>3. OneCreation'
    <3>. SUFFICES ASSUME NEW i \in 1..Len(hist'), NEW j \in 1..Len(hist'),
                         NEW k \in 1..Len(hist'), i < j, j < k,
                         Live(hist'[i]) # {}, Live(hist'[j]) = {}
                  PROVE  Live(hist'[k]) = {}
      BY DEF OneCreation, Quiet
    <3>1. /\ i + 1 \in 1..Len(hist) /\ j + 1 \in 1..Len(hist) /\ k + 1 \in 1..Len(hist)
          /\ i + 1 < j + 1 /\ j + 1 < k + 1
      BY <1>2
    <3>2. /\ Live(hist[i + 1]) # {} /\ Live(hist[j + 1]) = {}
          /\ Live(hist'[k]) = Live(hist[k + 1])
      BY <1>3
    <3>. QED
      BY <2>1, <3>1, <3>2 DEF Expected, OneCreation, Quiet
  <2>4. Awaited' => Awaited /\ Quiet(1)'
    <3>. SUFFICES ASSUME NEW i \in 1..Len(hist'), NEW j \in 1..Len(hist'), i < j,
                         Live(hist'[i]) = {}, Live(hist'[j]) # {}
                  PROVE  Awaited /\ Live(hist'[1]) = {}
      BY DEF Awaited, Quiet
    <3>1. i + 1 \in 1..Len(hist) /\ j + 1 \in 1..Len(hist) /\ i + 1 < j + 1
      BY <1>2
    <3>2. Awaited
      BY <1>3, <3>1 DEF Awaited, Quiet
    <3>3. CASE i = 1
      BY <3>2, <3>3
    <3>4. CASE i > 1
      <4>1. 2 \in 1..Len(hist) /\ 2 < i + 1 /\ Live(hist'[1]) = Live(hist[2])
        BY <1>2, <1>3, <3>4
      <4>2. Quiet(i + 1) /\ ~Quiet(j + 1)
        BY <1>3 DEF Quiet
      <4>3. Quiet(2)
        BY <2>1, <3>1, <4>1, <4>2 DEF Expected, OneCreation
      <4>. QED
        BY <3>2, <4>1, <4>3 DEF Quiet
    <3>. QED
      BY <1>2, <3>3, <3>4
  <2>5. AllQuiet => AllQuiet'
    BY <1>2, <1>3 DEF AllQuiet, Quiet
  <2>. QED
    BY <1>1, <2>1, <2>2, <2>3, <2>4, <2>5 DEF Expected
<1>. QED
  BY <1>1, <1>4 DEF ExpectationInv

(* Every step keeps the expectation right ... *)
LEMMA ExpectationNext == TypeOK /\ ExpectationInv /\ [Next]_vars => ExpectationInv'
<1>. SUFFICES ASSUME TypeOK, ExpectationInv, [Next]_vars PROVE ExpectationInv'
  OBVIOUS
<1>a. ASSUME UNCHANGED <<hist, pending, lost, restarts, rec>> PROVE ExpectationInv'
  BY <1>a DEF ExpectationInv, Expected, Unique, OneCreation, Awaited, AllQuiet, Quiet
<1>1. CASE \E m \in MountpointPods : ReconcileMountpointPod(m)
  BY <1>1, <1>a DEF ReconcileMountpointPod, Untouched
<1>2. CASE Reconcile
  BY <1>2, ExpectationReconcile DEF Reconcile
<1>3. CASE Clean
  BY <1>3, ExpectationClean DEF Clean
<1>4. CASE Restart
  <2>1. restarts' # 0 /\ rec'.pc = "idle"
    BY <1>4 DEF Restart, RecIdle, TypeOK, ClusterTypeOK
  <2>. QED
    BY <2>1 DEF ExpectationInv
<1>5. CASE Environment
  BY <1>4, <1>5, <1>a, ExpectationSync, EnvironmentSteps
<1>6. CASE UNCHANGED vars
  BY <1>6, <1>a DEF vars, clusterVars, reconcilerVars
<1>. QED
  BY <1>1, <1>2, <1>3, <1>5, <1>6, ExpectationListed DEF Next

(* ... and at first nothing is expected. *)
LEMMA ExpectationInit == Init => ExpectationInv
<1>. SUFFICES ASSUME Init PROVE ExpectationInv
  OBVIOUS
<1>1. Len(hist) = 1 /\ \A n \in S3PAs : hist[1][n] = NoS3PA
  BY DEF Init, ClusterInit
<1>2. Live(hist[1]) = {}
  BY <1>1 DEF Live, NoS3PA
<1>3. Unique /\ OneCreation /\ ~Awaited
  BY <1>1, <1>2 DEF Unique, OneCreation, Awaited, SeveralIn
<1>4. rec.pc = "idle"
  BY DEF Init, ReconcilerInit, RecIdle
<1>. QED
  BY <1>3, <1>4 DEF ExpectationInv, Expected

(* The expectation keeps the S3PA unique: as long as no reply is lost and the  *)
(* controller is not restarted, no lag of the cache makes it create a second.  *)
THEOREM AtMostOneS3PACorrect == Spec => []AtMostOneS3PA
<1>1. TypeOK /\ ExpectationInv => AtMostOneS3PA
  BY DEF TypeOK, ClusterTypeOK, ExpectationInv, Expected, Unique, Api, AtMostOneS3PA
<1>. QED
  BY <1>1, TypeCorrect, ExpectationInit, ExpectationNext, PTL DEF Spec

-----------------------------------------------------------------------------
(* No lost update: copies and versions.                                     *)

(* A copy that has the version of the S3PA in the store is that S3PA; any      *)
(* other is from before.                                                       *)
Older(obj, a) == obj.live /\ a.live => obj.rv <= a.rv /\ (obj.rv = a.rv => obj = a)

(* Mountpoint Pods: annotated or gone; gone or of version v; gone if the cache *)
(* has none, when Pods are seen before the S3PAs that name them.               *)
Retired(p) == p.phase = "none" \/ p.needsUnmount
OfVersion(p, v) == p.phase = "none" \/ p.version = v
Known(p, seen) == PodsFirst /\ seen.phase = "none" => p.phase = "none"

Inactive(ps, w) == ps[w] \notin {"absent", "pending", "running"}

(* An entry of the store *)
EntryOK(a, ps) ==
    /\ a.keys # {} => a.live
    /\ \A m \in MountpointPods : a.wl[m] # {} => m \in a.keys
    /\ \A m \in MountpointPods : \A w \in a.wl[m] : ps[w] # "absent"

(* What a Reconcile r knows of the store a and the workloads ps, from the copy *)
(* it took when it started, ...                                                *)
CopyOK(r, a, ps) ==
    /\ r.n # Nil => r.obj.live /\ Older(r.obj, a[r.n])
    /\ r.pc # "idle" => ps[r.w] # "absent" /\ (r.active \/ Inactive(ps, r.w))
    /\ \A d \in r.dups : a[d[1]].live =>
            d[2] <= a[d[1]].rv /\ (d[2] = a[d[1]].rv => a[d[1]].keys = {})

(* ... and of the Mountpoint Pods p at the step where it is.                   *)
HandOK(r, p, v) ==
    /\ r.pc \in {"removeUID", "removeMPs", "removeKey"} => ~r.active
    /\ r.pc = "removeKey" => r.obj.wl[r.m] = {} /\ (PodsFirst => Retired(p[r.m]))
    /\ r.pc \in {"assign", "update", "create"} => OfVersion(p[r.m], v)

(* obj is the S3PA a without workloads that are gone and without the entries   *)
(* of Mountpoint Pods retired for it.                                          *)
Filtered(obj, a, ps, p) ==
    /\ obj.live /\ obj.keys \subseteq a.keys
    /\ \A m \in MountpointPods : obj.wl[m] \subseteq a.wl[m]
    /\ \A m \in MountpointPods : \A w \in a.wl[m] \ obj.wl[m] : ps[w] = "gone"
    /\ \A m \in a.keys \ obj.keys : obj.wl[m] = {} /\ (PodsFirst => Retired(p[m]))

(* What a run c of the cleaner knows. *)
RunOK(c, a, ps, old, p) ==
    /\ \A n \in S3PAs : Older(c.list[n], a[n])
    /\ c.pc = "s3pa" /\ a[c.n].live =>
            c.obj.rv <= a[c.n].rv /\ (c.obj.rv = a[c.n].rv => Filtered(c.obj, a[c.n], ps, p))
    /\ c.pc # "idle" => \A w \in old \ c.existing : ps[w] = "gone"

(* Mountpoint Pods that the cache or a copy names *)
Named ==
    {m \in MountpointPods :
        \/ m \in rec.obj.keys \/ m \in cl.obj.keys
        \/ \E n \in S3PAs : m \in Cached[n].keys \/ m \in cl.list[n].keys}

HistOK == \A i \in 1..Len(hist) : \A n \in S3PAs : Older(hist[i][n], Api[n])
StoreOK == \A n \in S3PAs : EntryOK(Api[n], pods)
AgedOK == \A w \in aged : pods[w] # "absent"
NamedOK == \A m \in Named : Known(mp[m], mpSeen[m])
SeenOK ==
    \A m \in MountpointPods : mpSeen[m].phase # "none" => OfVersion(mp[m], mpSeen[m].version)

VersionInv ==
    /\ HistOK /\ StoreOK /\ AgedOK /\ NamedOK /\ SeenOK
    /\ CopyOK(rec, Api, pods) /\ HandOK(rec, mp, version)
    /\ RunOK(cl, Api, pods, aged, mp)

-----------------------------------------------------------------------------
(* Steps.                                                                   *)

(* A write that replaces the entry old of n by new: it is newer, takes nothing *)
(* from an active workload, retires only what is annotated and adds only what  *)
(* is of the controller's version.                                             *)
GoodWrite(n, old, new) ==
    /\ EntryOK(new, pods)
    /\ ~new.live \/ (old.live /\ new.rv > old.rv) \/ n \in FreshS3PAs
    /\ \A m \in MountpointPods : \A w \in old.wl[m] \ new.wl[m] : old.live => ~IsPodActive(w)
    /\ \A m \in MountpointPods : \A w \in new.wl[m] \ old.wl[m] : OfVersion(mp[m], version)
    /\ PodsFirst => \A m \in old.keys \ new.keys : Retired(mp[m])

Writes ==
    \/ hist' = hist
    \/ \E n \in S3PAs, new \in S3PA :
          hist' = Append(hist, [Api EXCEPT ![n] = new]) /\ GoodWrite(n, Api[n], new)

(* What the three properties say of a step *)
SparesActive ==
    \A n \in S3PAs, m \in MountpointPods, w \in Workloads :
        Api[n].live /\ w \in Api[n].wl[m] /\ w \notin (Api')[n].wl[m]
            => ~IsPodActive(w)
JoinsOwnVersion ==
    \A n \in S3PAs, m \in MountpointPods, w \in Workloads :
        w \notin Api[n].wl[m] /\ w \in (Api')[n].wl[m]
            => mp[m].phase = "none" \/ mp[m].version = version
DropsRetired ==
    \A n \in S3PAs, m \in MountpointPods :
        m \in Api[n].keys /\ m \notin (Api')[n].keys
            => mp[m].phase = "none" \/ mp[m].needsUnmount

StepOK == SparesActive /\ JoinsOwnVersion /\ (PodsFirst => DropsRetired)

(* How store, workloads and Mountpoint Pods change from step to step *)
StoreMoves(a, b) ==
    \A n \in S3PAs : \/ b[n] = a[n]
                     \/ ~b[n].live
                     \/ a[n].live /\ b[n].rv > a[n].rv
                     \/ n \in FreshS3PAs
PodsMove(ps, qs) ==
    \A w \in Workloads :
        /\ ps[w] # "absent" => qs[w] # "absent"
        /\ Inactive(ps, w) => Inactive(qs, w)
        /\ ps[w] = "gone" => qs[w] = "gone"
MPsMove(p, q) ==
    \A m \in MountpointPods :
        \/ q[m].phase = "none"
        \/ /\ p[m].phase # "none" /\ q[m].version = p[m].version
           /\ p[m].needsUnmount => q[m].needsUnmount
        \/ rec.pc = "spawn" /\ m \in FreshMPs

-----------------------------------------------------------------------------
(* Single writes.                                                           *)

(* Adding a workload that exists under a Mountpoint Pod of this version. *)
LEMMA AppendGood ==
    ASSUME NEW n, NEW old \in S3PA, EntryOK(old, pods), old.live,
           NEW m \in MountpointPods, NEW w \in Workloads, pods[w] # "absent",
           OfVersion(mp[m], version)
    PROVE  GoodWrite(n, old, [AppendWorkload(old, m, w) EXCEPT !.rv = @ + 1])
<1>. DEFINE new == [AppendWorkload(old, m, w) EXCEPT !.rv = @ + 1]
<1>1. /\ new.live = old.live /\ new.keys = old.keys \cup {m}
      /\ new.wl = [old.wl EXCEPT ![m] = old.wl[m] \cup {w}]
      /\ new.rv = old.rv + 1 /\ old.rv \in Nat
      /\ old.wl \in [MountpointPods -> SUBSET Workloads]
  BY DEF AppendWorkload, S3PA
<1>. HIDE DEF new
<1>2. EntryOK(new, pods)
  BY <1>1 DEF EntryOK
<1>3. GoodWrite(n, old, new)
  BY <1>1, <1>2 DEF GoodWrite
<1>. QED
  BY <1>3 DEF new

(* Removing a workload that is not active. *)
LEMMA FilterGood ==
    ASSUME NEW n, NEW old \in S3PA, EntryOK(old, pods), old.live,
           NEW m \in MountpointPods, NEW w \in Workloads, ~IsPodActive(w)
    PROVE  GoodWrite(n, old, [FilterWorkload(old, m, w) EXCEPT !.rv = @ + 1])
<1>. DEFINE new == [FilterWorkload(old, m, w) EXCEPT !.rv = @ + 1]
<1>1. /\ new.live = old.live /\ new.keys = old.keys
      /\ new.wl = [old.wl EXCEPT ![m] = old.wl[m] \ {w}]
      /\ new.rv = old.rv + 1 /\ old.rv \in Nat
      /\ old.wl \in [MountpointPods -> SUBSET Workloads]
  BY DEF FilterWorkload, S3PA
<1>. HIDE DEF new
<1>2. EntryOK(new, pods)
  BY <1>1 DEF EntryOK
<1>3. GoodWrite(n, old, new)
  BY <1>1, <1>2 DEF GoodWrite
<1>. QED
  BY <1>3 DEF new

(* Removing the entry of a retired Mountpoint Pod without workloads. *)
LEMMA DropGood ==
    ASSUME NEW n, NEW old \in S3PA, EntryOK(old, pods), old.live,
           NEW m \in MountpointPods, old.wl[m] = {}, PodsFirst => Retired(mp[m])
    PROVE  GoodWrite(n, old, [DropKey(old, m) EXCEPT !.rv = @ + 1])
<1>. DEFINE new == [DropKey(old, m) EXCEPT !.rv = @ + 1]
<1>1. /\ new.live = old.live /\ new.keys = old.keys \ {m}
      /\ new.wl = [old.wl EXCEPT ![m] = {}]
      /\ new.rv = old.rv + 1 /\ old.rv \in Nat
      /\ old.wl \in [MountpointPods -> SUBSET Workloads]
  BY DEF DropKey, S3PA
<1>. HIDE DEF new
<1>2. EntryOK(new, pods)
  BY <1>1 DEF EntryOK
<1>3. GoodWrite(n, old, new)
  BY <1>1, <1>2 DEF GoodWrite
<1>. QED
  BY <1>3 DEF new

(* Deleting a S3PA with an empty map. *)
LEMMA DeleteGood ==
    ASSUME NEW n, NEW old \in S3PA, EntryOK(old, pods), old.keys = {}
    PROVE  GoodWrite(n, old, NoS3PA)
<1>1. /\ ~NoS3PA.live /\ NoS3PA.keys = {} /\ \A m \in MountpointPods : NoS3PA.wl[m] = {}
  BY DEF NoS3PA
<1>2. EntryOK(NoS3PA, pods)
  BY <1>1 DEF EntryOK
<1>. QED
  BY <1>1, <1>2 DEF GoodWrite, EntryOK

(* Writing, or deleting, what the cleaner made of the S3PA. *)
LEMMA FilteredGood ==
    ASSUME NEW n, NEW old \in S3PA, EntryOK(old, pods), old.live,
           NEW obj \in S3PA, obj.rv = old.rv, Filtered(obj, old, pods, mp)
    PROVE  /\ GoodWrite(n, old, [obj EXCEPT !.rv = @ + 1])
           /\ obj.keys = {} => GoodWrite(n, old, NoS3PA)
<1>. DEFINE new == [obj EXCEPT !.rv = @ + 1]
<1>1. /\ new.live = obj.live /\ new.keys = obj.keys /\ new.wl = obj.wl
      /\ new.rv = old.rv + 1 /\ old.rv \in Nat
      /\ old.wl \in [MountpointPods -> SUBSET Workloads] /\ old.keys \subseteq MountpointPods
      /\ obj.wl \in [MountpointPods -> SUBSET Workloads]
  BY DEF S3PA
<1>. HIDE DEF new
<1>2. \A m \in MountpointPods : obj.wl[m] # {} => m \in obj.keys
  BY <1>1 DEF Filtered, EntryOK
<1>3. EntryOK(new, pods)
  BY <1>1, <1>2 DEF EntryOK, Filtered
<1>4. GoodWrite(n, old, new)
  BY <1>1, <1>3 DEF GoodWrite, Filtered, IsPodActive
<1>5. ASSUME obj.keys = {} PROVE GoodWrite(n, old, NoS3PA)
  <2>1. /\ ~NoS3PA.live /\ NoS3PA.keys = {} /\ \A m \in MountpointPods : NoS3PA.wl[m] = {}
    BY DEF NoS3PA
  <2>2. EntryOK(NoS3PA, pods)
    BY <2>1 DEF EntryOK
  <2>3. \A m \in MountpointPods : obj.wl[m] = {}
    BY <1>2, <1>5
  <2>. QED
    BY <1>1, <1>5, <2>1, <2>2, <2>3 DEF GoodWrite, Filtered, IsPodActive
<1>. QED
  BY <1>4, <1>5 DEF new

(* The new S3PA. *)
LEMMA CreateGood ==
    ASSUME NEW n \in FreshS3PAs, NEW old \in S3PA, EntryOK(old, pods), ~old.live,
           rec.m \in MountpointPods, rec.w \in Workloads, pods[rec.w] # "absent",
           OfVersion(mp[rec.m], version)
    PROVE  NewS3PA \in S3PA /\ GoodWrite(n, old, NewS3PA)
<1>. DEFINE e == [NoS3PA EXCEPT !.live = TRUE, !.rv = 1]
<1>1. e \in S3PA /\ e.live /\ e.keys = {} /\ \A m \in MountpointPods : e.wl[m] = {}
  BY NoS3PAType DEF NoS3PA, S3PA
<1>2. NewS3PA = AppendWorkload(e, rec.m, rec.w)
  BY DEF NewS3PA
<1>. HIDE DEF e
<1>3. /\ NewS3PA.live /\ NewS3PA.keys = {rec.m}
      /\ NewS3PA.wl = [e.wl EXCEPT ![rec.m] = {rec.w}]
      /\ e.wl \in [MountpointPods -> SUBSET Workloads]
  BY <1>1, <1>2 DEF AppendWorkload, S3PA
<1>4. EntryOK(NewS3PA, pods)
  BY <1>1, <1>3 DEF EntryOK
<1>5. old.keys = {}
  BY DEF EntryOK
<1>6. NewS3PA \in S3PA
  BY <1>1, <1>2, S3PAOpsType
<1>. QED
  BY <1>1, <1>3, <1>4, <1>5, <1>6 DEF GoodWrite

-----------------------------------------------------------------------------
(* What the moves keep.                                                     *)

(* A store that was written. *)
LEMMA WritesKeep ==
    ASSUME TypeOK, HistOK, StoreOK, Writes
    PROVE  /\ HistOK' /\ Cached' = Cached /\ StoreMoves(Api, Api') /\ StepOK
           /\ \A n \in S3PAs : EntryOK((Api')[n], pods)
<1>1. /\ hist \in Seq([S3PAs -> S3PA]) /\ Len(hist) \in Nat /\ Len(hist) > 0
      /\ Api \in [S3PAs -> S3PA] /\ Api = hist[Len(hist)]
  BY StoreType DEF TypeOK, ClusterTypeOK, Api
<1>2. CASE hist' = hist
  <2>1. Api' = Api /\ Cached' = Cached
    BY <1>2 DEF Api, Cached
  <2>. QED
    BY <1>2, <2>1 DEF HistOK, StoreOK, StoreMoves, StepOK, SparesActive, JoinsOwnVersion, DropsRetired
<1>3. ASSUME NEW n \in S3PAs, NEW new \in S3PA,
             hist' = Append(hist, [Api EXCEPT ![n] = new]), GoodWrite(n, Api[n], new)
      PROVE  /\ HistOK' /\ Cached' = Cached /\ StoreMoves(Api, Api') /\ StepOK
             /\ \A x \in S3PAs : EntryOK((Api')[x], pods)
  <2>1. /\ Len(hist') = Len(hist) + 1 /\ \A i \in 1..Len(hist) : hist'[i] = hist[i]
        /\ hist'[Len(hist) + 1] = [Api EXCEPT ![n] = new]
    BY <1>1, <1>3
  <2>2. Api' = [Api EXCEPT ![n] = new] /\ Cached' = Cached
    BY <1>1, <2>1 DEF Api, Cached
  <2>3. (Api')[n] = new /\ \A x \in S3PAs \ {n} : (Api')[x] = Api[x]
    BY <1>1, <2>2
  <2>4. StoreMoves(Api, Api')
    BY <1>3, <2>3 DEF StoreMoves, GoodWrite
  <2>5. StepOK
    BY <1>3, <2>3 DEF StepOK, SparesActive, JoinsOwnVersion, DropsRetired, GoodWrite, OfVersion, Retired
  <2>6. \A x \in S3PAs : EntryOK((Api')[x], pods)
    BY <1>3, <2>3 DEF StoreOK, GoodWrite
  <2>7. ASSUME NEW i \in 1..Len(hist'), NEW x \in S3PAs PROVE Older(hist'[i][x], (Api')[x])
    <3>1. CASE i = Len(hist) + 1
      <4>1. hist'[i][x] = (Api')[x] /\ (Api')[x] \in S3PA
        BY <1>1, <1>3, <2>1, <2>2, <2>3, <3>1
      <4>. QED
        BY <4>1 DEF Older, S3PA
    <3>2. CASE i \in 1..Len(hist)
      <4>1. hist'[i][x] = hist[i][x] /\ Older(hist[i][x], Api[x])
        BY <2>1, <3>2 DEF HistOK
      <4>2. hist[i][x] \in S3PA /\ Api[x] \in S3PA /\ (Api')[x] \in S3PA
        BY <1>1, <1>3, <2>3, <3>2
      <4>3. CASE x \in FreshS3PAs
        BY <3>2, <4>1, <4>3 DEF FreshS3PAs, Older
      <4>4. CASE x \notin FreshS3PAs
        <5>1. \/ (Api')[x] = Api[x] \/ ~(Api')[x].live
              \/ Api[x].live /\ (Api')[x].rv > Api[x].rv
          BY <2>4, <4>4 DEF StoreMoves
        <5>. QED
          BY <4>1, <4>2, <5>1 DEF Older, S3PA
      <4>. QED
        BY <4>3, <4>4
    <3>. QED
      BY <1>1, <2>1, <3>1, <3>2
  <2>8. HistOK'
    BY <2>7 DEF HistOK
  <2>. QED
    BY <2>2, <2>4, <2>5, <2>6, <2>8
<1>. QED
  BY <1>2, <1>3 DEF Writes

(* A copy gets no newer and no other by what happens to the store. *)
LEMMA OlderKept ==
    ASSUME NEW obj \in S3PA, NEW a \in [S3PAs -> S3PA], NEW b \in [S3PAs -> S3PA],
           NEW n \in S3PAs \ FreshS3PAs, StoreMoves(a, b), Older(obj, a[n])
    PROVE  Older(obj, b[n])
<1>1. a[n] \in S3PA /\ b[n] \in S3PA
  OBVIOUS
<1>2. b[n] = a[n] \/ ~b[n].live \/ (a[n].live /\ b[n].rv > a[n].rv)
  BY DEF StoreMoves
<1>. QED
  BY <1>1, <1>2 DEF Older, S3PA

(* The Reconcile in progress, as r has it, keeps what it knew of its copy. *)
LEMMA CopyKept ==
    ASSUME TypeOK, CopyOK(rec, Api, pods), NEW b \in [S3PAs -> S3PA], NEW ps,
           StoreMoves(Api, b), PodsMove(pods, ps),
           NEW r, r.pc # "idle" => rec.pc # "idle", r.n = rec.n, r.obj = rec.obj, r.w = rec.w, r.active = rec.active,
           r.dups \subseteq rec.dups
    PROVE  CopyOK(r, b, ps)
<1>1. /\ rec \in RecType /\ (rec.pc # "idle" => rec.w \in Workloads) /\ Api \in [S3PAs -> S3PA]
      /\ rec.obj \in S3PA /\ rec.n \in S3PAs \cup {Nil}
      /\ rec.dups \subseteq S3PAs \X Nat
  BY StoreType DEF TypeOK, ReconcilerTypeOK, RecTypeOK, RecType
<1>2. ASSUME rec.n # Nil PROVE Older(rec.obj, b[rec.n])
  <2>1. rec.n \in S3PAs \ FreshS3PAs
    BY <1>1, <1>2 DEF FreshS3PAs
  <2>. QED
    BY <1>1, <1>2, <2>1, OlderKept DEF CopyOK
<1>3. ASSUME NEW d \in rec.dups, b[d[1]].live
      PROVE  d[2] <= b[d[1]].rv /\ (d[2] = b[d[1]].rv => b[d[1]].keys = {})
  <2>1. d[1] \in S3PAs \ FreshS3PAs /\ d[2] \in Nat
    BY <1>1, <1>3 DEF FreshS3PAs
  <2>2. b[d[1]] = Api[d[1]] \/ (Api[d[1]].live /\ b[d[1]].rv > Api[d[1]].rv)
    BY <1>3, <2>1 DEF StoreMoves
  <2>3. Api[d[1]].live => d[2] <= Api[d[1]].rv /\ (d[2] = Api[d[1]].rv => Api[d[1]].keys = {})
    BY <1>3 DEF CopyOK
  <2>4. Api[d[1]].rv \in Nat /\ b[d[1]].rv \in Nat
    BY <1>1, <2>1 DEF S3PA
  <2>. QED
    BY <1>3, <2>1, <2>2, <2>3, <2>4
<1>4. rec.pc # "idle" => ps[rec.w] # "absent" /\ (rec.active \/ Inactive(ps, rec.w))
  BY <1>1 DEF CopyOK, PodsMove
<1>. QED
  BY <1>2, <1>3, <1>4 DEF CopyOK

(* Annotations stay, and Pods change their version only when they are spawned. *)
LEMMA HandKept ==
    ASSUME TypeOK, HandOK(rec, mp, version), NEW q, MPsMove(mp, q)
    PROVE  HandOK(rec, q, version)
<1>1. rec.pc \in {"removeKey", "assign", "update", "create"} => rec.m \in MountpointPods
  BY DEF TypeOK, ReconcilerTypeOK, RecTypeOK
<1>. QED
  BY <1>1 DEF HandOK, MPsMove, Retired, OfVersion

(* So does the run of the cleaner. *)
LEMMA RunKept ==
    ASSUME TypeOK, RunOK(cl, Api, pods, aged, mp), NEW b \in [S3PAs -> S3PA], NEW ps, NEW q,
           NEW old, old \subseteq aged \/ cl.pc = "idle",
           StoreMoves(Api, b), PodsMove(pods, ps), MPsMove(mp, q)
    PROVE  RunOK(cl, b, ps, old, q)
<1>1. /\ cl \in CleanerType /\ Api \in [S3PAs -> S3PA] /\ (cl.pc = "s3pa" => cl.n \in S3PAs)
      /\ cl.obj \in S3PA /\ cl.list \in [S3PAs -> S3PA] /\ aged \subseteq Workloads
      /\ Len(hist) \in 1..Len(hist)
  BY StoreType DEF TypeOK, CleanerTypeOK, CleanerType, ClusterTypeOK
<1>2. ASSUME NEW n \in S3PAs PROVE Older(cl.list[n], b[n])
  <2>1. CASE n \in FreshS3PAs
    BY <2>1 DEF FreshS3PAs, Older
  <2>2. CASE n \notin FreshS3PAs
    BY <1>1, <2>2, OlderKept DEF RunOK
  <2>. QED
    BY <2>1, <2>2
<1>3. ASSUME cl.pc = "s3pa", b[cl.n].live
      PROVE  cl.obj.rv <= b[cl.n].rv /\ (cl.obj.rv = b[cl.n].rv => Filtered(cl.obj, b[cl.n], ps, q))
  <2>1. cl.n \in S3PAs \ FreshS3PAs
    BY <1>1, <1>3 DEF FreshS3PAs
  <2>2. b[cl.n] = Api[cl.n] \/ (Api[cl.n].live /\ b[cl.n].rv > Api[cl.n].rv)
    BY <1>3, <2>1 DEF StoreMoves
  <2>3. Api[cl.n].live =>
          cl.obj.rv <= Api[cl.n].rv /\ (cl.obj.rv = Api[cl.n].rv => Filtered(cl.obj, Api[cl.n], pods, mp))
    BY <1>3 DEF RunOK
  <2>4. Api[cl.n].rv \in Nat /\ b[cl.n].rv \in Nat /\ cl.obj.rv \in Nat
    BY <1>1, <2>1 DEF S3PA
  <2>5. ASSUME Filtered(cl.obj, Api[cl.n], pods, mp) PROVE Filtered(cl.obj, Api[cl.n], ps, q)
    <3>1. Api[cl.n].wl \in [MountpointPods -> SUBSET Workloads] /\ Api[cl.n].keys \subseteq MountpointPods
      BY <1>1, <2>1 DEF S3PA
    <3>2. \A m \in Api[cl.n].keys : m \notin FreshMPs
      BY <1>1, <2>1 DEF FreshMPs, Api
    <3>3. \A m \in MountpointPods : \A w \in Api[cl.n].wl[m] \ cl.obj.wl[m] : ps[w] = "gone"
      BY <2>5, <3>1 DEF Filtered, PodsMove
    <3>4. \A m \in Api[cl.n].keys \ cl.obj.keys : PodsFirst => Retired(q[m])
      BY <2>5, <3>1, <3>2 DEF Filtered, MPsMove, Retired
    <3>. QED
      BY <2>5, <3>3, <3>4 DEF Filtered
  <2>. QED
    BY <1>3, <2>2, <2>3, <2>4, <2>5
<1>4. ASSUME cl.pc # "idle", NEW w \in old \ cl.existing PROVE ps[w] = "gone"
  BY <1>1, <1>4 DEF RunOK, PodsMove
<1>. QED
  BY <1>2, <1>3, <1>4 DEF RunOK

(* Pods that a copy names are not spawned. *)
LEMMA NamedKept ==
    ASSUME TypeOK, NamedOK, SeenOK, MPsMove(mp, mp'), mpSeen' = mpSeen, Named' \subseteq Named
    PROVE  NamedOK' /\ SeenOK'
<1>1. \A m \in Named : m \in MountpointPods /\ m \notin FreshMPs
  <2>1. 1 \in 1..Len(hist) /\ Cached = hist[1]
    BY DEF TypeOK, ClusterTypeOK, Cached
  <2>. QED
    BY <2>1 DEF Named, FreshMPs
<1>2. \A m \in FreshMPs : mpSeen[m].phase = "none"
  BY DEF FreshMPs
<1>3. ASSUME NEW m \in Named' PROVE Known(mp'[m], mpSeen'[m])
  BY <1>1, <1>3 DEF NamedOK, Known, MPsMove
<1>4. ASSUME NEW m \in MountpointPods, mpSeen'[m].phase # "none"
      PROVE  OfVersion(mp'[m], mpSeen'[m].version)
  BY <1>2, <1>4 DEF SeenOK, OfVersion, MPsMove
<1>. QED
  BY <1>3, <1>4 DEF NamedOK, SeenOK

(* Everything together. *)
LEMMA StepKeeps ==
    ASSUME TypeOK, TypeOK', VersionInv, Writes, PodsMove(pods, pods'), MPsMove(mp, mp'),
           mpSeen' = mpSeen, Named' \subseteq Named, AgedOK',
           CopyOK(rec', Api', pods'), HandOK(rec', mp', version'),
           RunOK(cl', Api', pods', aged', mp')
    PROVE  VersionInv' /\ StepOK
<1>1. /\ HistOK' /\ StepOK /\ \A n \in S3PAs : EntryOK((Api')[n], pods)
  BY WritesKeep DEF VersionInv
<1>2. StoreOK'
  <2>1. Api' \in [S3PAs -> S3PA]
    BY DEF TypeOK, ClusterTypeOK, Api
  <2>2. ASSUME NEW n \in S3PAs PROVE EntryOK((Api')[n], pods')
    <3>1. (Api')[n].wl \in [MountpointPods -> SUBSET Workloads]
      BY <2>1 DEF S3PA
    <3>. QED
      BY <1>1, <3>1 DEF EntryOK, PodsMove
  <2>. QED
    BY <2>2 DEF StoreOK
<1>3. NamedOK' /\ SeenOK'
  BY NamedKept DEF VersionInv
<1>. QED
  BY <1>1, <1>2, <1>3 DEF VersionInv

(* Nothing moves. *)
LEMMA MovesNone ==
    /\ \A a : StoreMoves(a, a)
    /\ \A ps : PodsMove(ps, ps)
    /\ \A p : MPsMove(p, p)
BY DEF StoreMoves, PodsMove, MPsMove

(* An idle reconciler knows nothing. *)
LEMMA HandIdle ==
    ASSUME NEW a, NEW ps, NEW p, NEW v
    PROVE  CopyOK(RecIdle, a, ps) /\ HandOK(RecIdle, p, v)
BY DEF RecIdle, CopyOK, HandOK

(* An Update is a write of this kind, whatever its outcome, if it is one when  *)
(* the version it was made from is the current one, ...                        *)
LEMMA UpdateWrites ==
    ASSUME TypeOK, NEW n \in S3PAs, NEW obj \in S3PA, UpdateOk(n, obj) \/ UpdateFails(n, obj),
           VersionMatches(n, obj.rv) => GoodWrite(n, Api[n], [obj EXCEPT !.rv = @ + 1])
    PROVE  Writes /\ (UpdateOk(n, obj) => VersionMatches(n, obj.rv) /\ (Api')[n] = [obj EXCEPT !.rv = @ + 1])
<1>1. [obj EXCEPT !.rv = @ + 1] \in S3PA
  BY BumpType
<1>2. CASE hist' = hist
  <2>1. Len(hist) \in Nat
    BY DEF TypeOK, ClusterTypeOK
  <2>2. ~UpdateOk(n, obj)
    <3>. SUFFICES ASSUME UpdateOk(n, obj) PROVE FALSE
      OBVIOUS
    <3>1. Len(hist') = Len(hist) + 1
      BY DEF UpdateOk, CommitUpdate, Commit, TypeOK, ClusterTypeOK
    <3>. QED
      BY <1>2, <2>1, <3>1
  <2>. QED
    BY <1>2, <2>2 DEF Writes
<1>3. CASE CommitUpdate(n, obj)
  <2>1. VersionMatches(n, obj.rv) /\ hist' = Append(hist, [Api EXCEPT ![n] = [obj EXCEPT !.rv = @ + 1]])
    BY <1>3 DEF CommitUpdate, Commit
  <2>2. (Api')[n] = [obj EXCEPT !.rv = @ + 1]
    <3>1. /\ hist \in Seq([S3PAs -> S3PA]) /\ Api \in [S3PAs -> S3PA]
      BY StoreType DEF TypeOK, ClusterTypeOK
    <3>2. Api' = [Api EXCEPT ![n] = [obj EXCEPT !.rv = @ + 1]]
      BY <2>1, <3>1 DEF Api
    <3>. QED
      BY <3>1, <3>2
  <2>. QED
    BY <1>1, <2>1, <2>2 DEF Writes
<1>. QED
  BY <1>2, <1>3 DEF UpdateOk, UpdateFails

(* ... and so is a Delete. *)
LEMMA DeleteWrites ==
    ASSUME TypeOK, NEW n \in S3PAs, NEW rv, DeleteOk(n, rv) \/ DeleteFails(n, rv),
           VersionMatches(n, rv) => GoodWrite(n, Api[n], NoS3PA)
    PROVE  Writes
BY NoS3PAType DEF DeleteOk, DeleteFails, CommitDelete, Commit, Writes

(* A write of the Reconcile that is accepted was made from the current S3PA. *)
LEMMA CopyIsCurrent ==
    ASSUME TypeOK, VersionInv, rec.n \in S3PAs
    PROVE  /\ Api[rec.n] \in S3PA /\ EntryOK(Api[rec.n], pods) /\ rec.obj \in S3PA /\ rec.obj.live
           /\ VersionMatches(rec.n, rec.obj.rv) => Api[rec.n] = rec.obj /\ Api[rec.n].live
<1>1. Api[rec.n] \in S3PA /\ rec.n # Nil /\ rec.obj \in S3PA
  BY StoreType, NilAssumption DEF TypeOK, ReconcilerTypeOK, RecTypeOK, RecType
<1>. QED
  BY <1>1 DEF VersionInv, StoreOK, CopyOK, Older, VersionMatches

(* Annotating a Mountpoint Pod that a copy names retires it. *)
LEMMA AnnotateMoves ==
    ASSUME TypeOK, VersionInv, NEW m \in MountpointPods,
           AddNeedsUnmountAnnotation(m) \/ AddNeedsUnmountAnnotationFails(m)
    PROVE  /\ MPsMove(mp, mp')
           /\ AddNeedsUnmountAnnotation(m) /\ m \in Named /\ PodsFirst => Retired(mp'[m])
<1>1. mp \in [MountpointPods -> MountpointPod]
  BY DEF TypeOK, ClusterTypeOK
<1>2. CASE mp' = mp
  <2>1. AddNeedsUnmountAnnotation(m) => mpSeen[m].phase = "none" \/ Annotate(m)
    BY DEF AddNeedsUnmountAnnotation
  <2>2. Annotate(m) => mp'[m].needsUnmount
    BY <1>1 DEF Annotate, MountpointPod
  <2>3. m \in Named /\ PodsFirst /\ mpSeen[m].phase = "none" => mp[m].phase = "none"
    BY DEF VersionInv, NamedOK, Known
  <2>. QED
    BY <1>2, <2>1, <2>2, <2>3, MovesNone DEF Retired
<1>3. CASE Annotate(m)
  <2>1. /\ mp' = [mp EXCEPT ![m] = [mp[m] EXCEPT !.needsUnmount = TRUE]]
        /\ mp[m].phase # "none" /\ mp[m] \in MountpointPod
    BY <1>1, <1>3 DEF Annotate
  <2>2. /\ mp'[m].needsUnmount /\ mp'[m].version = mp[m].version
        /\ \A x \in MountpointPods \ {m} : mp'[x] = mp[x]
    BY <1>1, <2>1 DEF MountpointPod
  <2>. QED
    BY <2>1, <2>2 DEF MPsMove, Retired
<1>. QED
  BY <1>2, <1>3 DEF AddNeedsUnmountAnnotation, AddNeedsUnmountAnnotationFails

-----------------------------------------------------------------------------
(* The reconciler.                                                          *)

(* What a step of the reconciler does. *)
Reconciled ==
    /\ Writes /\ MPsMove(mp, mp') /\ aged' \subseteq aged
    /\ rec'.obj.keys \subseteq Named
    /\ CopyOK(rec', Api', pods) /\ HandOK(rec', mp', version)

(* It keeps the invariant. *)
LEMMA ReconciledKeeps ==
    ASSUME TypeOK, TypeOK', VersionInv, Reconciled, Untouched, cl' = cl
    PROVE  VersionInv' /\ StepOK
<1>1. mpSeen' = mpSeen /\ pods' = pods /\ version' = version
  BY DEF Untouched
<1>2. Cached' = Cached /\ StoreMoves(Api, Api')
  BY WritesKeep DEF VersionInv, Reconciled
<1>3. Named' \subseteq Named
  BY <1>2 DEF Named, Reconciled
<1>4. AgedOK'
  BY <1>1 DEF VersionInv, AgedOK, Reconciled
<1>5. RunOK(cl', Api', pods', aged', mp')
  <2>1. Api' \in [S3PAs -> S3PA]
    BY DEF TypeOK, ClusterTypeOK, Api
  <2>. QED
    BY <1>1, <1>2, <2>1, RunKept, MovesNone DEF VersionInv, Reconciled
<1>. QED
  BY <1>1, <1>3, <1>4, <1>5, StepKeeps, MovesNone DEF Reconciled

(* A Reconcile starts: its copies are what the cache shows. *)
LEMMA StartReconciled ==
    ASSUME TypeOK, VersionInv, NEW w \in Workloads, NEW pc \in {"listed", "recover"},
           NEW n \in S3PAs \cup {Nil}, n # Nil => n \in Live(Cached),
           NEW dups, \A d \in dups : \E x \in Live(Cached) : d = <<x, Cached[x].rv>> /\ Cached[x].keys = {},
           Start(w, pc, n, dups)
    PROVE  Reconciled
<1>1. /\ rec'.pc = pc /\ rec'.w = w /\ rec'.active = IsPodActive(w) /\ rec'.n = n
      /\ rec'.obj = (IF n = Nil THEN NoS3PA ELSE Cached[n]) /\ rec'.dups = dups
      /\ PodExists(w) /\ UNCHANGED <<hist, mp, aged, pods>>
  BY DEF Start, Untouched
<1>2. Writes /\ MPsMove(mp, mp') /\ Api' = Api
  BY <1>1, MovesNone DEF Writes, Api
<1>3. /\ Api \in [S3PAs -> S3PA] /\ Cached \in [S3PAs -> S3PA]
      /\ \A x \in S3PAs : Older(Cached[x], Api[x])
  <2>1. 1 \in 1..Len(hist)
    BY DEF TypeOK, ClusterTypeOK
  <2>2. \A x \in S3PAs : Older(Cached[x], Api[x])
    BY <2>1 DEF VersionInv, HistOK, Cached
  <2>. QED
    BY <2>2, StoreType DEF TypeOK
<1>4. rec'.obj.keys \subseteq Named
  <2>1. NoS3PA.keys = {} /\ (n # Nil => Cached[n].keys \subseteq MountpointPods)
    BY <1>3 DEF NoS3PA, S3PA
  <2>. QED
    BY <1>1, <2>1 DEF Named
<1>5. CopyOK(rec', Api, pods)
  <2>1. n # Nil => Cached[n].live /\ Older(Cached[n], Api[n])
    BY <1>3 DEF Live
  <2>2. pods[w] # "absent" /\ (IsPodActive(w) \/ Inactive(pods, w))
    BY <1>1 DEF PodExists, IsPodActive, Inactive
  <2>3. ASSUME NEW d \in dups, Api[d[1]].live
        PROVE  d[2] <= Api[d[1]].rv /\ (d[2] = Api[d[1]].rv => Api[d[1]].keys = {})
    <3>1. PICK x \in S3PAs : d = <<x, Cached[x].rv>> /\ Cached[x].keys = {} /\ Cached[x].live
      BY <2>3 DEF Live
    <3>2. d[1] = x /\ d[2] = Cached[x].rv
      BY <3>1
    <3>. QED
      BY <1>3, <2>3, <3>1, <3>2 DEF Older
  <2>. QED
    BY <1>1, <2>1, <2>2, <2>3 DEF CopyOK
<1>6. HandOK(rec', mp', version)
  BY <1>1 DEF HandOK
<1>. QED
  BY <1>1, <1>2, <1>4, <1>5, <1>6 DEF Reconciled

(* A workload is taken from the queue. *)
LEMMA WorkloadReconciled ==
    ASSUME TypeOK, TypeOK', VersionInv, NEW w \in Workloads, ReconcileWorkload(w), UNCHANGED cl
    PROVE  VersionInv' /\ StepOK
<1>1. CASE ReconcileNotFound(w) \/ ReconcileGivesUpOnDuplicates(w)
  <2>1. UNCHANGED <<hist, mp, aged, rec>> /\ Untouched
    BY <1>1 DEF ReconcileNotFound, ReconcileGivesUpOnDuplicates
  <2>2. Writes /\ MPsMove(mp, mp') /\ Api' = Api
    BY <2>1, MovesNone DEF Writes, Api
  <2>3. rec.obj.keys \subseteq Named
    BY DEF Named, TypeOK, ReconcilerTypeOK, RecTypeOK, RecType, S3PA
  <2>4. Reconciled
    BY <2>1, <2>2, <2>3 DEF Reconciled, VersionInv
  <2>. QED
    BY <2>1, <2>4, ReconciledKeeps
<1>2. CASE ReconcileFindsNone(w)
  <2>1. Start(w, "listed", Nil, {})
    BY <1>2 DEF ReconcileFindsNone
  <2>. QED
    BY <2>1, StartReconciled, ReconciledKeeps DEF Start
<1>3. CASE ReconcileFindsOne(w)
  <2>1. PICK n \in S3PAs : Live(Cached) = {n} /\ Start(w, "listed", n, {})
    BY <1>3 DEF ReconcileFindsOne
  <2>. QED
    BY <2>1, StartReconciled, ReconciledKeeps DEF Start
<1>4. CASE ReconcileFindsDuplicates(w)
  <2>. DEFINE dups == {<<d, Cached[d].rv>> : d \in NoMountpointPods}
  <2>1. PICK n \in S3PAs \cup {Nil} :
          /\ IF n = Nil THEN WithMountpointPods = {} ELSE WithMountpointPods = {n}
          /\ Start(w, "recover", n, dups)
    BY <1>4 DEF ReconcileFindsDuplicates
  <2>2. n # Nil => n \in Live(Cached)
    BY <2>1 DEF WithMountpointPods
  <2>3. \A d \in dups : \E x \in Live(Cached) : d = <<x, Cached[x].rv>> /\ Cached[x].keys = {}
    BY DEF NoMountpointPods
  <2>. HIDE DEF dups
  <2>4. Reconciled
    BY <2>1, <2>2, <2>3, StartReconciled
  <2>. QED
    BY <2>1, <2>4, ReconciledKeeps DEF Start
<1>. QED
  BY <1>1, <1>2, <1>3, <1>4 DEF ReconcileWorkload

(* A Mountpoint Pod that succeeded is deleted. *)
LEMMA MountpointPodReconciled ==
    ASSUME TypeOK, TypeOK', VersionInv, NEW m \in MountpointPods, ReconcileMountpointPod(m),
           UNCHANGED cl
    PROVE  VersionInv' /\ StepOK
<1>1. UNCHANGED <<hist, aged, rec>> /\ Untouched /\ mp' = [mp EXCEPT ![m] = NoPod]
  BY DEF ReconcileMountpointPod
<1>2. Writes /\ Api' = Api
  BY <1>1 DEF Writes, Api
<1>3. MPsMove(mp, mp')
  <2>1. mp'[m].phase = "none" /\ \A x \in MountpointPods \ {m} : mp'[x] = mp[x]
    BY <1>1 DEF TypeOK, ClusterTypeOK, NoPod
  <2>. QED
    BY <2>1 DEF MPsMove
<1>4. rec.obj.keys \subseteq Named
  BY DEF Named, TypeOK, ReconcilerTypeOK, RecTypeOK, RecType, S3PA
<1>5. HandOK(rec, mp', version)
  BY <1>3, HandKept DEF VersionInv
<1>6. Reconciled
  BY <1>1, <1>2, <1>3, <1>4, <1>5 DEF Reconciled, VersionInv
<1>. QED
  BY <1>1, <1>6, ReconciledKeeps

(* The steps of a Reconcile that attach a workload. *)
LEMMA AttachReconciled ==
    ASSUME TypeOK, TypeOK', VersionInv,
           \/ HandleExistingS3PodAttachment
           \/ AssignWorkload
           \/ HandleNewS3PodAttachment
           \/ SpawnMountpointPod(FreshMPs)
           \/ UpdateWithSpawned
           \/ CreateS3PodAttachment(FreshS3PAs)
           \/ CleanupSpawned
    PROVE  Reconciled
<1>. USE DEF At
<1>p. rec.pc # "idle"
  BY DEF HandleExistingS3PodAttachment, AssignWorkload, HandleNewS3PodAttachment, SpawnMountpointPod,
         UpdateWithSpawned, CreateS3PodAttachment, CleanupSpawned
<1>0. /\ RecTypeOK /\ rec \in RecType /\ rec.obj \in S3PA /\ rec.pc # "idle" /\ rec.w \in Workloads
      /\ CopyOK(rec, Api, pods) /\ HandOK(rec, mp, version) /\ HistOK /\ StoreOK /\ SeenOK
      /\ mp \in [MountpointPods -> MountpointPod] /\ Api' \in [S3PAs -> S3PA]
      /\ pods[rec.w] # "absent"
  <2>1. RecTypeOK /\ rec \in RecType /\ rec.obj \in S3PA /\ rec.w \in Workloads
    BY <1>p DEF TypeOK, ReconcilerTypeOK, RecTypeOK, RecType
  <2>2. mp \in [MountpointPods -> MountpointPod] /\ Api' \in [S3PAs -> S3PA]
    BY DEF TypeOK, ClusterTypeOK, Api
  <2>. QED
    BY <1>p, <2>1, <2>2 DEF VersionInv, CopyOK
<1>a. rec.obj.keys \subseteq Named /\ RecIdle.obj.keys \subseteq Named
  BY <1>0 DEF Named, S3PA, RecIdle, NoS3PA
<1>b. ASSUME Writes PROVE StoreMoves(Api, Api')
  BY <1>0, <1>b, WritesKeep
<1>c. ASSUME DontRequeue \/ Requeue, Writes, MPsMove(mp, mp'), aged' \subseteq aged PROVE Reconciled
  <2>1. rec' = RecIdle
    BY <1>c DEF DontRequeue, Requeue
  <2>. QED
    BY <1>a, <1>c, <2>1, HandIdle DEF Reconciled
<1>d. ASSUME rec'.n = rec.n, rec'.obj = rec.obj, rec'.w = rec.w, rec'.active = rec.active,
             rec'.dups = rec.dups, Writes, MPsMove(mp, mp'), aged' \subseteq aged,
             HandOK(rec', mp', version)
      PROVE  Reconciled
  <2>1. CopyOK(rec', Api', pods)
    BY <1>0, <1>b, <1>d, CopyKept, MovesNone
  <2>. QED
    BY <1>a, <1>d, <2>1 DEF Reconciled
<1>e. ASSUME NEW pc \in RecPCs, GoTo(pc)
      PROVE  /\ rec'.pc = pc /\ rec'.n = rec.n /\ rec'.obj = rec.obj /\ rec'.w = rec.w
             /\ rec'.active = rec.active /\ rec'.dups = rec.dups /\ rec'.m = rec.m
  BY <1>0, <1>e DEF GoTo, RecType
<1>f. ASSUME UNCHANGED hist PROVE Writes
  BY <1>f DEF Writes
<1>g. ASSUME UNCHANGED mp PROVE MPsMove(mp, mp')
  BY <1>g, MovesNone
<1>h. ASSUME rec.pc \in {"assign", "update"},
             \/ UpdateOk(rec.n, AppendWorkload(rec.obj, rec.m, rec.w))
             \/ UpdateFails(rec.n, AppendWorkload(rec.obj, rec.m, rec.w))
      PROVE  Writes
  <2>1. rec.n \in S3PAs /\ rec.m \in MountpointPods /\ OfVersion(mp[rec.m], version)
    BY <1>0, <1>h DEF RecTypeOK, HandOK
  <2>2. AppendWorkload(rec.obj, rec.m, rec.w) \in S3PA /\ AppendWorkload(rec.obj, rec.m, rec.w).rv = rec.obj.rv
    BY <1>0, <2>1, S3PAOpsType DEF AppendWorkload, S3PA
  <2>3. VersionMatches(rec.n, rec.obj.rv) =>
          GoodWrite(rec.n, Api[rec.n], [AppendWorkload(rec.obj, rec.m, rec.w) EXCEPT !.rv = @ + 1])
    BY <1>0, <2>1, CopyIsCurrent, AppendGood
  <2>. QED
    BY <1>h, <2>1, <2>2, <2>3, UpdateWrites
<1>1. CASE HandleExistingS3PodAttachment
  <2>1. Writes /\ MPsMove(mp, mp') /\ aged' \subseteq aged /\ mp' = mp
    BY <1>1, <1>f, <1>g DEF HandleExistingS3PodAttachment
  <2>2. CASE DontRequeue
    BY <1>c, <2>1, <2>2
  <2>3. CASE \E m \in rec.obj.keys : Suitable(m) /\ rec' = [rec EXCEPT !.pc = "assign", !.m = m]
    <3>1. PICK m \in rec.obj.keys : Suitable(m) /\ rec' = [rec EXCEPT !.pc = "assign", !.m = m]
      BY <2>3
    <3>2. /\ rec'.pc = "assign" /\ rec'.m = m /\ rec'.n = rec.n /\ rec'.obj = rec.obj
          /\ rec'.w = rec.w /\ rec'.active = rec.active /\ rec'.dups = rec.dups
      BY <1>0, <3>1 DEF RecType
    <3>3. OfVersion(mp[m], version)
      BY <1>0, <3>1 DEF Suitable, SeenOK, S3PA
    <3>4. HandOK(rec', mp', version)
      BY <2>1, <3>2, <3>3 DEF HandOK
    <3>. QED
      BY <1>d, <2>1, <3>2, <3>4
  <2>4. CASE GoTo("spawn")
    BY <1>d, <1>e, <2>1, <2>4 DEF HandOK, RecPCs
  <2>. QED
    BY <1>1, <2>2, <2>3, <2>4 DEF HandleExistingS3PodAttachment
<1>2. CASE AssignWorkload
  BY <1>2, <1>c, <1>g, <1>h DEF AssignWorkload
<1>3. CASE HandleNewS3PodAttachment
  <2>1. Writes /\ MPsMove(mp, mp') /\ aged' \subseteq aged
    BY <1>3, <1>f, <1>g DEF HandleNewS3PodAttachment
  <2>2. CASE DontRequeue \/ Requeue
    BY <1>c, <2>1, <2>2
  <2>3. CASE GoTo("spawn")
    BY <1>d, <1>e, <2>1, <2>3 DEF HandOK, RecPCs
  <2>. QED
    BY <1>3, <2>2, <2>3 DEF HandleNewS3PodAttachment
<1>4. CASE SpawnMountpointPod(FreshMPs)
  <2>1. PICK m \in FreshMPs :
          \/ /\ mp' = [mp EXCEPT ![m] = Spawned]
             /\ rec' = [rec EXCEPT !.pc = IF rec.n = Nil THEN "create" ELSE "update",
                                   !.m = m]
          \/ Requeue /\ mp' \in {mp, [mp EXCEPT ![m] = Spawned]}
    BY <1>4 DEF SpawnMountpointPod
  <2>2. Writes /\ aged' \subseteq aged /\ rec.pc = "spawn" /\ m \in MountpointPods
    BY <1>4, <1>f DEF SpawnMountpointPod, FreshMPs
  <2>3. MPsMove(mp, mp')
    BY <1>0, <2>1, <2>2 DEF MPsMove
  <2>4. CASE Requeue
    BY <1>c, <2>2, <2>3, <2>4
  <2>5. CASE /\ mp' = [mp EXCEPT ![m] = Spawned]
             /\ rec' = [rec EXCEPT !.pc = IF rec.n = Nil THEN "create" ELSE "update",
                                   !.m = m]
    <3>1. /\ rec'.pc \in {"create", "update"} /\ rec'.m = m /\ rec'.n = rec.n /\ rec'.obj = rec.obj
          /\ rec'.w = rec.w /\ rec'.active = rec.active /\ rec'.dups = rec.dups
      BY <1>0, <2>5 DEF RecType
    <3>2. mp'[m].version = version
      BY <1>0, <2>2, <2>5 DEF Spawned, NoPod
    <3>3. HandOK(rec', mp', version)
      BY <3>1, <3>2 DEF HandOK, OfVersion
    <3>. QED
      BY <1>d, <2>2, <2>3, <3>1, <3>3
  <2>. QED
    BY <2>1, <2>4, <2>5
<1>5. CASE UpdateWithSpawned
  <2>1. Writes /\ MPsMove(mp, mp') /\ aged' \subseteq aged
    BY <1>5, <1>g, <1>h DEF UpdateWithSpawned
  <2>2. CASE DontRequeue
    BY <1>c, <2>1, <2>2
  <2>3. CASE GoTo("cleanup")
    BY <1>d, <1>e, <2>1, <2>3 DEF HandOK, RecPCs
  <2>. QED
    BY <1>5, <2>2, <2>3 DEF UpdateWithSpawned
<1>6. CASE CreateS3PodAttachment(FreshS3PAs)
  <2>1. PICK n \in FreshS3PAs :
          \/ Commit(n, NewS3PA) /\ Requeue
          \/ GoTo("cleanup") /\ (UNCHANGED hist \/ Commit(n, NewS3PA))
    BY <1>6 DEF CreateS3PodAttachment
  <2>2. /\ n \in S3PAs /\ rec.m \in MountpointPods /\ OfVersion(mp[rec.m], version) /\ ~Api[n].live
        /\ Api[n] \in S3PA /\ EntryOK(Api[n], pods)
    <3>1. Len(hist) \in 1..Len(hist) /\ Api = hist[Len(hist)]
      BY DEF TypeOK, ClusterTypeOK, Api
    <3>. QED
      BY <1>0, <1>6, <3>1, StoreType DEF CreateS3PodAttachment, RecTypeOK, HandOK, FreshS3PAs, TypeOK, StoreOK
  <2>3. NewS3PA \in S3PA /\ GoodWrite(n, Api[n], NewS3PA)
    BY <1>0, <2>2, CreateGood
  <2>4. Writes
    BY <1>f, <2>1, <2>2, <2>3 DEF Writes, Commit
  <2>5. MPsMove(mp, mp') /\ aged' \subseteq aged
    BY <1>6, <1>g DEF CreateS3PodAttachment
  <2>6. CASE Requeue
    BY <1>c, <2>4, <2>5, <2>6
  <2>7. CASE GoTo("cleanup")
    BY <1>d, <1>e, <2>4, <2>5, <2>7 DEF HandOK, RecPCs
  <2>. QED
    BY <2>1, <2>6, <2>7
<1>7. CASE CleanupSpawned
  <2>1. Writes /\ aged' \subseteq aged /\ Requeue /\ rec.m \in MountpointPods
    BY <1>0, <1>7, <1>f DEF CleanupSpawned, RecTypeOK
  <2>2. MPsMove(mp, mp')
    BY <1>0, <1>7, <2>1 DEF CleanupSpawned, MPsMove, NoPod
  <2>. QED
    BY <1>c, <2>1, <2>2
<1>. QED
  BY <1>1, <1>2, <1>3, <1>4, <1>5, <1>6, <1>7

(* The steps of a Reconcile that detach a workload or delete duplicates. *)
LEMMA DetachReconciled ==
    ASSUME TypeOK, TypeOK', VersionInv,
           \/ \E d \in rec.dups : DeleteDuplicate(d)
           \/ HandleInactivePod
           \/ RemoveWorkload
           \/ \E m \in MountpointPods : AnnotateUnusedMP(m)
           \/ RemoveUnusedMP
           \/ RemoveS3PodAttachment
    PROVE  Reconciled
<1>. USE DEF At
<1>p. rec.pc # "idle"
  BY DEF DeleteDuplicate, HandleInactivePod, RemoveWorkload, AnnotateUnusedMP, RemoveUnusedMP,
         RemoveS3PodAttachment
<1>0. /\ RecTypeOK /\ rec \in RecType /\ rec.obj \in S3PA /\ rec.w \in Workloads
      /\ CopyOK(rec, Api, pods) /\ HandOK(rec, mp, version) /\ HistOK /\ StoreOK
      /\ rec.obj.keys \subseteq MountpointPods /\ rec.dups \subseteq S3PAs \X Nat
      /\ Api \in [S3PAs -> S3PA] /\ Api' \in [S3PAs -> S3PA]
  <2>1. /\ RecTypeOK /\ rec \in RecType /\ rec.obj \in S3PA /\ rec.w \in Workloads
        /\ rec.dups \subseteq S3PAs \X Nat
    BY <1>p DEF TypeOK, ReconcilerTypeOK, RecTypeOK, RecType
  <2>2. Api' \in [S3PAs -> S3PA] /\ Api \in [S3PAs -> S3PA]
    BY DEF TypeOK, ClusterTypeOK, Api
  <2>3. rec.obj.keys \subseteq MountpointPods
    BY <2>1 DEF S3PA
  <2>. QED
    BY <2>1, <2>2, <2>3 DEF VersionInv
<1>a. rec.obj.keys \subseteq Named /\ RecIdle.obj.keys \subseteq Named
  BY <1>0 DEF Named, RecIdle, NoS3PA
<1>b. ASSUME Writes PROVE StoreMoves(Api, Api')
  BY <1>0, <1>b, WritesKeep
<1>c. ASSUME DontRequeue \/ Requeue, Writes, MPsMove(mp, mp'), aged' \subseteq aged PROVE Reconciled
  <2>1. rec' = RecIdle
    BY <1>c DEF DontRequeue, Requeue
  <2>. QED
    BY <1>a, <1>c, <2>1, HandIdle DEF Reconciled
<1>d. ASSUME rec'.n = rec.n, rec'.obj = rec.obj, rec'.w = rec.w, rec'.active = rec.active,
             rec'.dups \subseteq rec.dups, Writes, MPsMove(mp, mp'), aged' \subseteq aged,
             HandOK(rec', mp', version)
      PROVE  Reconciled
  <2>1. CopyOK(rec', Api', pods)
    BY <1>0, <1>b, <1>d, <1>p, CopyKept, MovesNone
  <2>. QED
    BY <1>a, <1>d, <2>1 DEF Reconciled
<1>e. ASSUME NEW pc \in RecPCs, GoTo(pc)
      PROVE  /\ rec'.pc = pc /\ rec'.n = rec.n /\ rec'.obj = rec.obj /\ rec'.w = rec.w
             /\ rec'.active = rec.active /\ rec'.dups = rec.dups /\ rec'.m = rec.m
  BY <1>0, <1>e DEF GoTo, RecType
<1>f. ASSUME UNCHANGED hist PROVE Writes
  BY <1>f DEF Writes
<1>g. ASSUME UNCHANGED mp PROVE MPsMove(mp, mp')
  BY <1>g, MovesNone
(* After an accepted Update the copy is what was written. *)
<1>h. ASSUME NEW new \in S3PA, rec'.n = rec.n, rec'.obj = new, rec'.w = rec.w, rec'.active = rec.active,
             rec'.dups = rec.dups, rec'.pc = "removeMPs", ~rec.active, new.live, new.keys \subseteq rec.obj.keys,
             (Api')[rec.n] = new, Writes, MPsMove(mp, mp'), aged' \subseteq aged
      PROVE  Reconciled
  <2>. DEFINE r == [rec' EXCEPT !.obj = rec.obj]
  <2>1. rec' \in RecType
    BY DEF TypeOK, ReconcilerTypeOK, RecTypeOK
  <2>2. /\ r.n = rec.n /\ r.obj = rec.obj /\ r.w = rec.w /\ r.active = rec.active /\ r.dups = rec.dups
        /\ r.pc = "removeMPs"
    BY <1>h, <2>1 DEF RecType
  <2>. HIDE DEF r
  <2>3. CopyOK(r, Api', pods)
    BY <1>0, <1>b, <1>h, <1>p, <2>2, CopyKept, MovesNone
  <2>4. Older(new, (Api')[rec.n])
    BY <1>h DEF Older, S3PA
  <2>5. CopyOK(rec', Api', pods)
    BY <1>h, <2>2, <2>3, <2>4 DEF CopyOK
  <2>6. HandOK(rec', mp', version)
    BY <1>h DEF HandOK
  <2>. QED
    BY <1>a, <1>h, <2>5, <2>6 DEF Reconciled
<1>1. ASSUME NEW d \in rec.dups, DeleteDuplicate(d) PROVE Reconciled
  <2>1. d[1] \in S3PAs /\ Api[d[1]] \in S3PA /\ EntryOK(Api[d[1]], pods)
    BY <1>0 DEF StoreOK
  <2>2. VersionMatches(d[1], d[2]) => Api[d[1]].keys = {}
    BY <1>0 DEF VersionMatches, CopyOK
  <2>3. VersionMatches(d[1], d[2]) => GoodWrite(d[1], Api[d[1]], NoS3PA)
    BY <2>1, <2>2, DeleteGood
  <2>4. Writes
    BY <1>1, <2>1, <2>3, DeleteWrites DEF DeleteDuplicate
  <2>5. MPsMove(mp, mp') /\ aged' \subseteq aged /\ rec.pc = "recover"
    BY <1>1, <1>g DEF DeleteDuplicate
  <2>6. CASE Requeue
    BY <1>c, <2>4, <2>5, <2>6
  <2>7. CASE rec' = [rec EXCEPT !.dups = @ \ {d},
                                !.pc = IF rec.dups = {d} THEN "listed" ELSE @]
    <3>1. /\ rec'.n = rec.n /\ rec'.obj = rec.obj /\ rec'.w = rec.w /\ rec'.active = rec.active
          /\ rec'.dups \subseteq rec.dups /\ rec'.pc \in {"listed", "recover"}
      BY <1>0, <2>5, <2>7 DEF RecType
    <3>2. HandOK(rec', mp', version)
      BY <3>1 DEF HandOK
    <3>. QED
      BY <1>d, <2>4, <2>5, <3>1, <3>2
  <2>. QED
    BY <1>1, <2>6, <2>7 DEF DeleteDuplicate
<1>2. CASE HandleInactivePod
  <2>1. Writes /\ MPsMove(mp, mp') /\ aged' \subseteq aged /\ ~rec.active
    BY <1>2, <1>f, <1>g DEF HandleInactivePod
  <2>2. CASE DontRequeue
    BY <1>c, <2>1, <2>2
  <2>3. ASSUME NEW pc \in {"removeUID", "removeMPs"}, GoTo(pc) PROVE Reconciled
    <3>1. pc \in RecPCs
      BY <2>3 DEF RecPCs
    <3>2. HandOK(rec', mp', version)
      BY <1>e, <2>1, <2>3, <3>1 DEF HandOK
    <3>. QED
      BY <1>d, <1>e, <2>1, <2>3, <3>1, <3>2
  <2>. QED
    BY <1>2, <2>2, <2>3 DEF HandleInactivePod
<1>3. CASE RemoveWorkload
  <2>1. PICK m \in MountpointPods :
          \/ /\ UpdateOk(rec.n, FilterWorkload(rec.obj, m, rec.w))
             /\ rec' = [rec EXCEPT !.pc = "removeMPs",
                          !.obj = [FilterWorkload(rec.obj, m, rec.w) EXCEPT !.rv = @ + 1]]
          \/ UpdateFails(rec.n, FilterWorkload(rec.obj, m, rec.w)) /\ Requeue
    BY <1>3 DEF RemoveWorkload
  <2>. DEFINE obj == FilterWorkload(rec.obj, m, rec.w)
              new == [obj EXCEPT !.rv = @ + 1]
  <2>2. /\ rec.n \in S3PAs /\ ~rec.active /\ ~IsPodActive(rec.w)
        /\ MPsMove(mp, mp') /\ aged' \subseteq aged
    BY <1>0, <1>3, <1>g, <1>p DEF RemoveWorkload, RecTypeOK, HandOK, CopyOK, IsPodActive, Inactive
  <2>3. /\ obj \in S3PA /\ obj.rv = rec.obj.rv /\ new \in S3PA
        /\ new.live = rec.obj.live /\ new.keys = rec.obj.keys
    <3>1. obj \in S3PA
      BY <1>0, S3PAOpsType
    <3>2. obj.rv = rec.obj.rv /\ obj.live = rec.obj.live /\ obj.keys = rec.obj.keys
      BY <1>0 DEF FilterWorkload, S3PA
    <3>. HIDE DEF obj
    <3>. QED
      BY <3>1, <3>2, BumpType DEF S3PA
  <2>4. VersionMatches(rec.n, rec.obj.rv) => GoodWrite(rec.n, Api[rec.n], new)
    BY <1>0, <2>2, CopyIsCurrent, FilterGood
  <2>5. CASE UpdateFails(rec.n, obj) /\ Requeue
    BY <1>c, <2>2, <2>3, <2>4, <2>5, UpdateWrites
  <2>6. CASE UpdateOk(rec.n, obj) /\ rec' = [rec EXCEPT !.pc = "removeMPs", !.obj = new]
    <3>. HIDE DEF obj
    <3>1. Writes /\ (Api')[rec.n] = new
      BY <2>2, <2>3, <2>4, <2>6, UpdateWrites
    <3>. HIDE DEF new
    <3>2. /\ rec'.n = rec.n /\ rec'.obj = new /\ rec'.w = rec.w /\ rec'.active = rec.active
          /\ rec'.dups = rec.dups /\ rec'.pc = "removeMPs"
      BY <1>0, <2>6 DEF RecType
    <3>3. new.live
      BY <2>2, <2>3, CopyIsCurrent
    <3>. QED
      BY <1>h, <2>2, <2>3, <3>1, <3>2, <3>3
  <2>. QED
    BY <2>1, <2>5, <2>6
<1>4. ASSUME NEW m \in MountpointPods, AnnotateUnusedMP(m) PROVE Reconciled
  <2>1. /\ Writes /\ aged' \subseteq aged /\ ~rec.active /\ m \in rec.obj.keys /\ rec.obj.wl[m] = {}
    BY <1>0, <1>4, <1>f DEF AnnotateUnusedMP, HandOK, EmptyMPs
  <2>2. AddNeedsUnmountAnnotation(m) \/ AddNeedsUnmountAnnotationFails(m)
    BY <1>4 DEF AnnotateUnusedMP
  <2>3. /\ MPsMove(mp, mp')
        /\ AddNeedsUnmountAnnotation(m) /\ PodsFirst => Retired(mp'[m])
    BY <1>a, <2>1, <2>2, AnnotateMoves
  <2>4. CASE Requeue
    BY <1>c, <2>1, <2>3, <2>4
  <2>5. CASE AddNeedsUnmountAnnotation(m) /\ rec' = [rec EXCEPT !.pc = "removeKey", !.m = m]
    <3>1. /\ rec'.n = rec.n /\ rec'.obj = rec.obj /\ rec'.w = rec.w /\ rec'.active = rec.active
          /\ rec'.dups = rec.dups /\ rec'.pc = "removeKey" /\ rec'.m = m
      BY <1>0, <2>5 DEF RecType
    <3>2. HandOK(rec', mp', version)
      BY <2>1, <2>3, <2>5, <3>1 DEF HandOK
    <3>. QED
      BY <1>d, <2>1, <2>3, <3>1, <3>2
  <2>. QED
    BY <1>4, <2>4, <2>5 DEF AnnotateUnusedMP
<1>5. CASE RemoveUnusedMP
  <2>. DEFINE obj == DropKey(rec.obj, rec.m)
              new == [obj EXCEPT !.rv = @ + 1]
  <2>1. \/ UpdateOk(rec.n, obj) /\ rec' = [rec EXCEPT !.pc = "removeMPs", !.m = Nil, !.obj = new]
        \/ UpdateFails(rec.n, obj) /\ Requeue
    BY <1>5 DEF RemoveUnusedMP
  <2>2. /\ rec.n \in S3PAs /\ rec.m \in MountpointPods /\ ~rec.active
        /\ rec.obj.wl[rec.m] = {} /\ (PodsFirst => Retired(mp[rec.m]))
        /\ MPsMove(mp, mp') /\ aged' \subseteq aged
    BY <1>0, <1>5, <1>g DEF RemoveUnusedMP, RecTypeOK, HandOK
  <2>3. /\ obj \in S3PA /\ obj.rv = rec.obj.rv /\ new \in S3PA
        /\ new.live = rec.obj.live /\ new.keys \subseteq rec.obj.keys
    <3>1. obj \in S3PA
      BY <1>0, <2>2, S3PAOpsType
    <3>2. obj.rv = rec.obj.rv /\ obj.live = rec.obj.live /\ obj.keys \subseteq rec.obj.keys
      BY <1>0 DEF DropKey, S3PA
    <3>. HIDE DEF obj
    <3>. QED
      BY <3>1, <3>2, BumpType DEF S3PA
  <2>4. VersionMatches(rec.n, rec.obj.rv) => GoodWrite(rec.n, Api[rec.n], new)
    BY <1>0, <2>2, CopyIsCurrent, DropGood
  <2>5. CASE UpdateFails(rec.n, obj) /\ Requeue
    BY <1>c, <2>2, <2>3, <2>4, <2>5, UpdateWrites
  <2>6. CASE UpdateOk(rec.n, obj) /\ rec' = [rec EXCEPT !.pc = "removeMPs", !.m = Nil, !.obj = new]
    <3>. HIDE DEF obj
    <3>1. Writes /\ (Api')[rec.n] = new
      BY <2>2, <2>3, <2>4, <2>6, UpdateWrites
    <3>. HIDE DEF new
    <3>2. /\ rec'.n = rec.n /\ rec'.obj = new /\ rec'.w = rec.w /\ rec'.active = rec.active
          /\ rec'.dups = rec.dups /\ rec'.pc = "removeMPs"
      BY <1>0, <2>6 DEF RecType
    <3>3. new.live
      BY <2>2, <2>3, CopyIsCurrent
    <3>. QED
      BY <1>h, <2>2, <2>3, <3>1, <3>2, <3>3
  <2>. QED
    BY <2>1, <2>5, <2>6
<1>6. CASE RemoveS3PodAttachment
  <2>1. rec.n \in S3PAs /\ MPsMove(mp, mp') /\ aged' \subseteq aged /\ (DontRequeue \/ Requeue)
    BY <1>0, <1>6, <1>g DEF RemoveS3PodAttachment, RecTypeOK
  <2>2. ASSUME rec.obj.keys = {}, VersionMatches(rec.n, rec.obj.rv) PROVE GoodWrite(rec.n, Api[rec.n], NoS3PA)
    BY <1>0, <2>1, <2>2, CopyIsCurrent, DeleteGood
  <2>3. Writes
    BY <1>6, <1>f, <2>1, <2>2, DeleteWrites DEF RemoveS3PodAttachment
  <2>. QED
    BY <1>c, <2>1, <2>3
<1>. QED
  BY <1>1, <1>2, <1>3, <1>4, <1>5, <1>6

-----------------------------------------------------------------------------
(* The cleaner and the environment.                                         *)

(* A step of the cleaner keeps the invariant. *)
LEMMA VersionClean ==
    ASSUME TypeOK, TypeOK', VersionInv, CleanerStep, UNCHANGED reconcilerVars
    PROVE  VersionInv' /\ StepOK
<1>0. /\ cl \in CleanerType /\ (cl.pc = "s3pa" => cl.n \in S3PAs)
      /\ cl.obj \in S3PA /\ cl.list \in [S3PAs -> S3PA]
      /\ Api \in [S3PAs -> S3PA] /\ Api' \in [S3PAs -> S3PA] /\ Cached \in [S3PAs -> S3PA]
      /\ HistOK /\ StoreOK /\ AgedOK /\ CopyOK(rec, Api, pods) /\ HandOK(rec, mp, version)
      /\ RunOK(cl, Api, pods, aged, mp) /\ aged \subseteq Workloads /\ pods \in [Workloads -> PodStates]
  <2>1. /\ cl \in CleanerType /\ (cl.pc = "s3pa" => cl.n \in S3PAs)
        /\ cl.obj \in S3PA /\ cl.list \in [S3PAs -> S3PA]
    BY DEF TypeOK, CleanerTypeOK, CleanerType
  <2>2. Api \in [S3PAs -> S3PA] /\ Api' \in [S3PAs -> S3PA] /\ Cached \in [S3PAs -> S3PA]
    BY StoreType DEF TypeOK, ClusterTypeOK, Api
  <2>3. aged \subseteq Workloads /\ pods \in [Workloads -> PodStates]
    BY DEF TypeOK, ClusterTypeOK
  <2>. QED
    BY <2>1, <2>2, <2>3 DEF VersionInv
<1>1. CleanerUntouched
  BY DEF CleanerStep, CleanerListPods, CleanerListS3PAs, CleanerDone, FilterStale, CleanerAnnotate, CleanerWrite
<1>2. UNCHANGED <<rec, version, mpSeen, pods, aged>>
  BY <1>1 DEF reconcilerVars, CleanerUntouched
(* A step that writes well and whose run knows what it should. *)
<1>a. ASSUME Writes, MPsMove(mp, mp'), RunOK(cl', Api', pods, aged, mp'),
             cl'.obj.keys \subseteq Named, \A n \in S3PAs : cl'.list[n].keys \subseteq Named
      PROVE  VersionInv' /\ StepOK
  <2>1. Cached' = Cached /\ StoreMoves(Api, Api')
    BY <1>0, <1>a, WritesKeep
  <2>2. CopyOK(rec, Api', pods) /\ HandOK(rec, mp', version)
    BY <1>0, <1>a, <2>1, CopyKept, HandKept, MovesNone
  <2>3. Named' \subseteq Named
    BY <1>2, <1>a, <2>1 DEF Named
  <2>. QED
    BY <1>0, <1>2, <1>a, <2>2, <2>3, StepKeeps, MovesNone DEF AgedOK
<1>b. /\ cl.obj.keys \subseteq Named /\ NoS3PA.keys = {}
      /\ \A n \in S3PAs : cl.list[n].keys \subseteq Named /\ Cached[n].keys \subseteq Named
  BY <1>0 DEF Named, S3PA, NoS3PA
<1>c. ASSUME UNCHANGED <<hist, mp>> PROVE Writes /\ MPsMove(mp, mp') /\ Api' = Api /\ mp' = mp
  BY <1>c, MovesNone DEF Writes, Api
(* The run goes on to the next S3PA. *)
<1>d. ASSUME NextS3PA, cl.pc = "s3pa", Writes, MPsMove(mp, mp') PROVE VersionInv' /\ StepOK
  <2>1. cl'.pc = "loop" /\ cl'.obj = NoS3PA /\ cl'.list = cl.list /\ cl'.existing = cl.existing
    BY <1>0, <1>d DEF NextS3PA, CleanerType
  <2>2. StoreMoves(Api, Api')
    BY <1>0, <1>d, WritesKeep
  <2>3. RunOK(cl, Api', pods, aged, mp')
    BY <1>0, <1>d, <2>2, RunKept, MovesNone
  <2>4. RunOK(cl', Api', pods, aged, mp')
    BY <1>d, <2>1, <2>3 DEF RunOK
  <2>. QED
    BY <1>a, <1>b, <1>d, <2>1, <2>4
<1>3. CASE CleanerListPods
  <2>1. /\ cl'.pc = "pods" /\ cl'.obj = cl.obj /\ cl'.list = cl.list
        /\ cl'.existing = {w \in Workloads : PodExists(w)}
    BY <1>0, <1>3 DEF CleanerListPods, CleanerType
  <2>2. \A w \in aged \ cl'.existing : pods[w] = "gone"
    BY <1>0, <2>1 DEF AgedOK, PodExists
  <2>3. RunOK(cl', Api, pods, aged, mp)
    BY <1>0, <2>1, <2>2 DEF RunOK
  <2>4. Writes /\ MPsMove(mp, mp') /\ Api' = Api /\ mp' = mp
    BY <1>3, <1>c DEF CleanerListPods
  <2>5. cl'.obj.keys \subseteq Named /\ \A n \in S3PAs : cl'.list[n].keys \subseteq Named
    BY <1>b, <2>1
  <2>. QED
    BY <1>a, <2>3, <2>4, <2>5
<1>4. CASE CleanerListS3PAs
  <2>1. cl'.pc = "loop" /\ cl'.obj = cl.obj /\ cl'.list = Cached /\ cl'.existing = cl.existing /\ cl.pc = "pods"
    BY <1>0, <1>4 DEF CleanerListS3PAs, CleanerType
  <2>2. \A n \in S3PAs : Older(Cached[n], Api[n])
    <3>1. 1 \in 1..Len(hist)
      BY DEF TypeOK, ClusterTypeOK
    <3>. QED
      BY <1>0, <3>1 DEF HistOK, Cached
  <2>3. RunOK(cl', Api, pods, aged, mp)
    BY <1>0, <2>1, <2>2 DEF RunOK
  <2>4. Writes /\ MPsMove(mp, mp') /\ Api' = Api /\ mp' = mp
    BY <1>4, <1>c DEF CleanerListS3PAs
  <2>5. cl'.obj.keys \subseteq Named /\ \A n \in S3PAs : cl'.list[n].keys \subseteq Named
    BY <1>b, <2>1
  <2>. QED
    BY <1>a, <2>3, <2>4, <2>5
<1>5. CASE CleanerDone
  <2>1. cl'.pc = "idle" /\ cl'.obj = NoS3PA /\ \A n \in S3PAs : cl'.list[n] = NoS3PA
    BY <1>5 DEF CleanerDone, CleanerIdle
  <2>2. RunOK(cl', Api, pods, aged, mp)
    BY <2>1 DEF RunOK, Older, NoS3PA
  <2>4. Writes /\ MPsMove(mp, mp') /\ Api' = Api /\ mp' = mp
    BY <1>5, <1>c DEF CleanerDone
  <2>5. cl'.obj.keys \subseteq Named /\ \A n \in S3PAs : cl'.list[n].keys \subseteq Named
    BY <1>b, <2>1
  <2>. QED
    BY <1>a, <2>2, <2>4, <2>5
<1>6. ASSUME NEW n \in S3PAs, FilterStale(n) PROVE VersionInv' /\ StepOK
  <2>. DEFINE obj  == cl.list[n]
              kept == [m \in MountpointPods |-> {w \in obj.wl[m] : ~IsStale(w)}]
              new  == [obj EXCEPT !.wl = kept]
  <2>1. /\ cl.pc = "loop" /\ obj.live /\ obj \in S3PA
        /\ cl' = [cl EXCEPT !.pc = "s3pa", !.n = n, !.list = [cl.list EXCEPT ![n] = NoS3PA],
                            !.obj = new, !.modified = kept # obj.wl]
    BY <1>0, <1>6 DEF FilterStale, Live
  <2>2. /\ new.live = obj.live /\ new.rv = obj.rv /\ new.keys = obj.keys /\ new.wl = kept /\ obj.rv \in Nat
        /\ obj.wl \in [MountpointPods -> SUBSET Workloads]
    BY <2>1 DEF S3PA
  <2>3. \A m \in MountpointPods : kept[m] \subseteq obj.wl[m] /\ \A w \in obj.wl[m] \ kept[m] : IsStale(w)
    OBVIOUS
  <2>4. \A w \in Workloads : IsStale(w) => pods[w] = "gone"
    BY <1>0, <2>1 DEF RunOK, IsStale
  <2>. HIDE DEF new, kept
  <2>5. /\ cl'.pc = "s3pa" /\ cl'.n = n /\ cl'.list = [cl.list EXCEPT ![n] = NoS3PA] /\ cl'.obj = new
        /\ cl'.existing = cl.existing
    BY <1>0, <2>1 DEF CleanerType
  <2>6. Older(obj, Api[n])
    BY <1>0 DEF RunOK
  <2>. HIDE DEF obj
  <2>7. Filtered(new, obj, pods, mp)
    BY <2>1, <2>2, <2>3, <2>4 DEF Filtered
  <2>8. Api[n].live => new.rv <= Api[n].rv /\ (new.rv = Api[n].rv => Filtered(new, Api[n], pods, mp))
    BY <2>1, <2>2, <2>6, <2>7 DEF Older
  <2>9. \A x \in S3PAs : cl'.list[x] = NoS3PA \/ cl'.list[x] = cl.list[x]
    BY <1>0, <2>5
  <2>10. \A x \in S3PAs : Older(cl'.list[x], Api[x])
    BY <1>0, <2>9 DEF RunOK, Older, NoS3PA
  <2>11. RunOK(cl', Api, pods, aged, mp)
    BY <1>0, <2>1, <2>5, <2>8, <2>10 DEF RunOK
  <2>12. cl'.obj.keys \subseteq Named
    BY <1>b, <2>2, <2>5 DEF obj
  <2>13. \A x \in S3PAs : cl'.list[x].keys \subseteq Named
    BY <1>b, <2>9
  <2>. QED
    BY <1>6, <1>a, <1>c, <2>11, <2>12, <2>13 DEF FilterStale
<1>7. ASSUME NEW m \in MountpointPods, CleanerAnnotate(m) PROVE VersionInv' /\ StepOK
  <2>1. /\ cl.pc = "s3pa" /\ m \in cl.obj.keys /\ cl.obj.wl[m] = {} /\ UNCHANGED hist
        /\ AddNeedsUnmountAnnotation(m) \/ AddNeedsUnmountAnnotationFails(m)
    BY <1>7 DEF CleanerAnnotate, EmptyMPs
  <2>2. /\ MPsMove(mp, mp') /\ Writes /\ Api' = Api
        /\ AddNeedsUnmountAnnotation(m) /\ PodsFirst => Retired(mp'[m])
    BY <1>b, <2>1, AnnotateMoves DEF Writes, Api
  <2>3. CASE NextS3PA
    BY <1>d, <2>1, <2>2, <2>3
  <2>4. CASE AddNeedsUnmountAnnotation(m) /\ cl' = [cl EXCEPT !.obj = DropKey(@, m)]
    <3>1. /\ cl'.obj = DropKey(cl.obj, m) /\ cl'.list = cl.list /\ cl'.existing = cl.existing
          /\ cl'.pc = cl.pc /\ cl'.n = cl.n
      BY <1>0, <2>4 DEF CleanerType
    <3>2. /\ cl'.obj.live = cl.obj.live /\ cl'.obj.rv = cl.obj.rv /\ cl'.obj.keys = cl.obj.keys \ {m}
          /\ cl'.obj.wl = [cl.obj.wl EXCEPT ![m] = {}]
          /\ cl.obj.wl \in [MountpointPods -> SUBSET Workloads]
      BY <1>0, <3>1 DEF DropKey, S3PA
    <3>3. \A x \in MountpointPods : cl'.obj.wl[x] = cl.obj.wl[x]
      BY <2>1, <3>2
    <3>4. RunOK(cl, Api, pods, aged, mp')
      BY <1>0, <2>2, RunKept, MovesNone
    <3>5. ASSUME Filtered(cl.obj, Api[cl.n], pods, mp') PROVE Filtered(cl'.obj, Api[cl.n], pods, mp')
      <4>1. Api[cl.n].keys \subseteq MountpointPods
        BY <1>0, <2>1 DEF S3PA
      <4>2. PodsFirst => Retired(mp'[m])
        BY <2>2, <2>4
      <4>3. cl'.obj.live /\ cl'.obj.keys \subseteq Api[cl.n].keys
        BY <3>2, <3>5 DEF Filtered
      <4>4. \A x \in MountpointPods : cl'.obj.wl[x] \subseteq Api[cl.n].wl[x]
        BY <3>3, <3>5 DEF Filtered
      <4>5. \A x \in MountpointPods : \A w \in Api[cl.n].wl[x] \ cl'.obj.wl[x] : pods[w] = "gone"
        BY <3>3, <3>5 DEF Filtered
      <4>6. ASSUME NEW x \in Api[cl.n].keys \ cl'.obj.keys
            PROVE  cl'.obj.wl[x] = {} /\ (PodsFirst => Retired(mp'[x]))
        <5>1. CASE x = m
          BY <2>1, <3>3, <4>2, <5>1
        <5>2. CASE x # m
          <6>1. x \in Api[cl.n].keys \ cl.obj.keys /\ x \in MountpointPods
            BY <3>2, <4>1, <5>2
          <6>. QED
            BY <3>3, <3>5, <6>1 DEF Filtered
        <5>. QED
          BY <5>1, <5>2
      <4>. QED
        BY <4>3, <4>4, <4>5, <4>6 DEF Filtered
    <3>6. RunOK(cl', Api, pods, aged, mp')
      BY <3>1, <3>2, <3>4, <3>5 DEF RunOK
    <3>. QED
      BY <1>a, <1>b, <2>2, <3>1, <3>2, <3>6
  <2>. QED
    BY <1>7, <2>3, <2>4 DEF CleanerAnnotate
<1>8. CASE CleanerWrite
  <2>1. NextS3PA /\ cl.pc = "s3pa" /\ cl.n \in S3PAs /\ MPsMove(mp, mp')
    BY <1>0, <1>8, MovesNone DEF CleanerWrite
  <2>2. Api[cl.n] \in S3PA /\ EntryOK(Api[cl.n], pods)
    BY <1>0, <2>1 DEF StoreOK
  <2>3. ASSUME VersionMatches(cl.n, cl.obj.rv)
        PROVE  /\ GoodWrite(cl.n, Api[cl.n], [cl.obj EXCEPT !.rv = @ + 1])
               /\ cl.obj.keys = {} => GoodWrite(cl.n, Api[cl.n], NoS3PA)
    <3>1. Filtered(cl.obj, Api[cl.n], pods, mp) /\ Api[cl.n].live /\ cl.obj.rv = Api[cl.n].rv
      BY <1>0, <2>1, <2>3 DEF RunOK, VersionMatches
    <3>. QED
      BY <1>0, <2>2, <3>1, FilteredGood
  <2>4. Writes
    <3>1. CASE UNCHANGED hist
      BY <3>1 DEF Writes
    <3>2. CASE cl.obj.keys = {} /\ (DeleteOk(cl.n, cl.obj.rv) \/ DeleteFails(cl.n, cl.obj.rv))
      BY <2>1, <2>3, <3>2, DeleteWrites
    <3>3. CASE UpdateOk(cl.n, cl.obj) \/ UpdateFails(cl.n, cl.obj)
      BY <1>0, <2>1, <2>3, <3>3, UpdateWrites
    <3>. QED
      BY <1>8, <3>1, <3>2, <3>3 DEF CleanerWrite
  <2>. QED
    BY <1>d, <2>1, <2>4
<1>. QED
  BY <1>3, <1>4, <1>5, <1>6, <1>7, <1>8 DEF CleanerStep

(* Pods and Mountpoint Pods change, attachments age. *)
LEMMA VersionPods ==
    ASSUME TypeOK, TypeOK', VersionInv, UNCHANGED <<hist, rec, version, cl, mpSeen>>,
           PodsMove(pods, pods'), MPsMove(mp, mp'), AgedOK', aged' \subseteq aged \/ cl.pc = "idle"
    PROVE  VersionInv' /\ StepOK
<1>1. Writes /\ Api' = Api /\ Cached' = Cached
  BY DEF Writes, Api, Cached
<1>2. Api \in [S3PAs -> S3PA]
  BY StoreType DEF TypeOK
<1>3. CopyOK(rec, Api, pods') /\ HandOK(rec, mp', version) /\ RunOK(cl, Api, pods', aged', mp')
  BY <1>2, CopyKept, HandKept, RunKept, MovesNone DEF VersionInv
<1>4. Named' = Named
  BY <1>1 DEF Named
<1>. QED
  BY <1>1, <1>3, <1>4, StepKeeps

(* A step of the environment keeps the invariant. *)
LEMMA VersionEnvironment ==
    ASSUME TypeOK, TypeOK', VersionInv, Environment
    PROVE  VersionInv' /\ StepOK
<1>0. /\ pods \in [Workloads -> PodStates] /\ mp \in [MountpointPods -> MountpointPod]
      /\ mpSeen \in [MountpointPods -> MountpointPod] /\ AgedOK
      /\ aged \subseteq Workloads
  BY DEF TypeOK, ClusterTypeOK, VersionInv
<1>a. ASSUME UNCHANGED <<hist, rec, version, cl, mpSeen, mp, aged>>, PodsMove(pods, pods')
      PROVE  VersionInv' /\ StepOK
  <2>1. AgedOK'
    BY <1>0, <1>a DEF AgedOK, PodsMove
  <2>. QED
    BY <1>a, <2>1, VersionPods, MovesNone
<1>b. ASSUME UNCHANGED <<hist, rec, version, cl, mpSeen, pods, aged>>, MPsMove(mp, mp')
      PROVE  VersionInv' /\ StepOK
  <2>1. AgedOK'
    BY <1>0, <1>b DEF AgedOK
  <2>. QED
    BY <1>b, <2>1, VersionPods, MovesNone
<1>1. ASSUME NEW w \in Workloads, NEW from, NEW to, PodChange(w, from, to),
             \/ from = {"absent"} /\ to = "pending"
             \/ from = {"pending"} /\ to \in {"running", "terminating"}
             \/ to \in {"done", "gone"} /\ "absent" \notin from /\ "gone" \notin from
      PROVE  VersionInv' /\ StepOK
  <2>1. pods' = [pods EXCEPT ![w] = to] /\ pods[w] \in from
    BY <1>1 DEF PodChange
  <2>2. pods'[w] = to /\ \A x \in Workloads \ {w} : pods'[x] = pods[x]
    BY <1>0, <2>1
  <2>3. PodsMove(pods, pods')
    BY <1>1, <2>1, <2>2 DEF PodsMove, Inactive
  <2>. QED
    BY <1>1, <1>a, <2>3 DEF PodChange
<1>2. ASSUME NEW w \in Workloads,
             PodScheduled(w) \/ PodStarts(w) \/ PodTerminates(w) \/ PodFinishes(w) \/ PodVanishes(w)
      PROVE  VersionInv' /\ StepOK
  BY <1>1, <1>2 DEF PodScheduled, PodStarts, PodTerminates, PodFinishes, PodVanishes
<1>3. ASSUME NEW w \in Workloads, PodEvent(w) PROVE VersionInv' /\ StepOK
  BY <1>3, <1>a, MovesNone DEF PodEvent
<1>4. ASSUME NEW w \in Workloads, AttachmentAges(w) PROVE VersionInv' /\ StepOK
  <2>1. UNCHANGED <<hist, rec, version, cl, mpSeen, pods, mp>> /\ cl.pc = "idle" /\ aged' = aged \cup {w}
    BY <1>4 DEF AttachmentAges, reconcilerVars
  <2>2. pods[w] # "absent"
    BY <1>4 DEF AttachmentAges, Attached, ContainsWorkload, VersionInv, StoreOK, EntryOK
  <2>3. AgedOK'
    BY <1>0, <2>1, <2>2 DEF AgedOK
  <2>. QED
    BY <2>1, <2>3, VersionPods, MovesNone
<1>5. ASSUME NEW m \in MountpointPods, NEW p, MountpointPodChange(m, p),
             \/ p.phase = "none"
             \/ p.version = mp[m].version /\ (mp[m].needsUnmount => p.needsUnmount)
      PROVE  VersionInv' /\ StepOK
  <2>1. /\ mp[m].phase = "running" /\ mp' = [mp EXCEPT ![m] = p]
        /\ UNCHANGED <<hist, rec, version, cl, mpSeen, pods, aged>>
    BY <1>5 DEF MountpointPodChange, reconcilerVars
  <2>2. mp'[m] = p /\ \A x \in MountpointPods \ {m} : mp'[x] = mp[x]
    BY <1>0, <2>1
  <2>3. MPsMove(mp, mp')
    BY <1>5, <2>1, <2>2 DEF MPsMove
  <2>. QED
    BY <1>b, <2>1, <2>3
<1>6. ASSUME NEW m \in MountpointPods,
             MountpointPodSucceeds(m) \/ MountpointPodClosed(m) \/ MountpointPodEvicted(m)
      PROVE  VersionInv' /\ StepOK
  <2>0. mp[m] \in MountpointPod
    BY <1>0
  <2>1. /\ [mp[m] EXCEPT !.phase = "succeeded"].version = mp[m].version
        /\ [mp[m] EXCEPT !.phase = "succeeded"].needsUnmount = mp[m].needsUnmount
        /\ [mp[m] EXCEPT !.noNewWorkload = TRUE].version = mp[m].version
        /\ [mp[m] EXCEPT !.noNewWorkload = TRUE].needsUnmount = mp[m].needsUnmount
        /\ NoPod.phase = "none"
    BY <2>0 DEF MountpointPod, NoPod
  <2>. QED
    BY <1>5, <1>6, <2>1 DEF MountpointPodSucceeds, MountpointPodClosed, MountpointPodEvicted
<1>7. ASSUME NEW m \in MountpointPods, SyncMountpointPod(m) PROVE VersionInv' /\ StepOK
  <2>1. /\ mpSeen' = [mpSeen EXCEPT ![m] = mp[m]]
        /\ UNCHANGED <<hist, rec, version, cl, mp, pods, aged>>
    BY <1>7 DEF SyncMountpointPod, reconcilerVars
  <2>2. mpSeen'[m] = mp[m] /\ \A x \in MountpointPods \ {m} : mpSeen'[x] = mpSeen[x]
    BY <1>0, <2>1
  <2>3. Api' = Api /\ Cached' = Cached
    BY <2>1 DEF Api, Cached
  <2>4. Named' = Named /\ Named \subseteq MountpointPods
    BY <2>1, <2>3 DEF Named
  <2>5. NamedOK' /\ SeenOK'
    <3>1. \A x \in Named' : Known(mp'[x], mpSeen'[x])
      BY <2>1, <2>2, <2>4 DEF VersionInv, NamedOK, Known
    <3>2. \A x \in MountpointPods : mpSeen'[x].phase # "none" => OfVersion(mp'[x], mpSeen'[x].version)
      BY <2>1, <2>2 DEF VersionInv, SeenOK, OfVersion
    <3>. QED
      BY <3>1, <3>2 DEF NamedOK, SeenOK
  <2>6. HistOK' /\ StoreOK' /\ AgedOK'
    BY <2>1, <2>3 DEF VersionInv, HistOK, StoreOK, AgedOK
  <2>7. StepOK
    BY <2>3 DEF StepOK, SparesActive, JoinsOwnVersion, DropsRetired
  <2>. QED
    BY <2>1, <2>3, <2>5, <2>6, <2>7 DEF VersionInv
<1>8. CASE SyncS3PAs
  <2>1. /\ hist \in Seq([S3PAs -> S3PA]) /\ hist' = Tail(hist) /\ Len(hist) > 1
        /\ UNCHANGED <<rec, version, cl, mp, mpSeen, pods, aged>>
    BY <1>8 DEF SyncS3PAs, TypeOK, ClusterTypeOK, reconcilerVars
  <2>2. /\ Len(hist') = Len(hist) - 1 /\ Len(hist) \in Nat
        /\ \A i \in 1..Len(hist') : i + 1 \in 1..Len(hist) /\ hist'[i] = hist[i + 1]
    BY <2>1
  <2>3. Api' = Api /\ Cached' = hist[2]
    BY <2>1, <2>2 DEF Api, Cached
  <2>4. HistOK'
    <3>1. \A i \in 1..Len(hist') : \A n \in S3PAs : Older(hist'[i][n], (Api')[n])
      BY <2>2, <2>3 DEF VersionInv, HistOK
    <3>. QED
      BY <3>1 DEF HistOK
  <2>5. StoreOK' /\ AgedOK' /\ SeenOK'
    BY <2>1, <2>3 DEF VersionInv, StoreOK, AgedOK, SeenOK
  <2>6. NamedOK'
    <3>1. ASSUME NEW m \in Named' PROVE Known(mp'[m], mpSeen'[m])
      <4>1. CASE m \in Named
        BY <2>1, <4>1 DEF VersionInv, NamedOK
      <4>2. CASE m \notin Named
        <5>1. \E n \in S3PAs : m \in hist[2][n].keys
          BY <2>1, <2>3, <3>1, <4>2 DEF Named
        <5>. QED
          BY <1>8, <2>1, <5>1 DEF SyncS3PAs, Known
      <4>. QED
        BY <4>1, <4>2
    <3>. QED
      BY <3>1 DEF NamedOK
  <2>7. StepOK
    BY <2>3 DEF StepOK, SparesActive, JoinsOwnVersion, DropsRetired
  <2>. QED
    BY <2>1, <2>3, <2>4, <2>5, <2>6, <2>7 DEF VersionInv
<1>9. CASE Restart
  <2>1. rec' = RecIdle /\ cl' = CleanerIdle /\ UNCHANGED <<hist, mp, mpSeen, pods, aged>>
    BY <1>9 DEF Restart
  <2>2. Api' = Api /\ Cached' = Cached /\ Writes
    BY <2>1 DEF Api, Cached, Writes
  <2>3. /\ CleanerIdle.pc = "idle" /\ CleanerIdle.obj = NoS3PA
        /\ \A n \in S3PAs : CleanerIdle.list[n] = NoS3PA
    BY DEF CleanerIdle
  <2>4. RunOK(cl', Api, pods, aged, mp)
    BY <2>1, <2>3 DEF RunOK, Older, NoS3PA
  <2>5. Named' \subseteq Named
    BY <2>1, <2>2, <2>3 DEF Named, RecIdle, NoS3PA
  <2>6. AgedOK'
    BY <1>0, <2>1 DEF AgedOK
  <2>. QED
    BY <2>1, <2>2, <2>4, <2>5, <2>6, StepKeeps, HandIdle, MovesNone
<1>. QED
  BY <1>2, <1>3, <1>4, <1>6, <1>7, <1>8, <1>9 DEF Environment

(* The invariant is inductive, and every step does what the properties say. *)
LEMMA VersionNext == TypeOK /\ VersionInv /\ [Next]_vars => VersionInv' /\ StepOK
<1>. SUFFICES ASSUME TypeOK, VersionInv, [Next]_vars PROVE VersionInv' /\ StepOK
  OBVIOUS
<1>0. TypeOK'
  BY NextType
<1>1. CASE \E w \in Workloads : ReconcileWorkload(w) /\ UNCHANGED cl
  BY <1>0, <1>1, WorkloadReconciled
<1>2. CASE \E m \in MountpointPods : ReconcileMountpointPod(m) /\ UNCHANGED cl
  BY <1>0, <1>2, MountpointPodReconciled
<1>3. CASE Reconcile
  <2>1. Reconciled
    BY <1>0, <1>3, AttachReconciled, DetachReconciled DEF Reconcile, ReconcileStep
  <2>2. Untouched
    BY <1>3 DEF Reconcile, ReconcileStep, DeleteDuplicate, HandleExistingS3PodAttachment, AssignWorkload,
                HandleNewS3PodAttachment, SpawnMountpointPod, UpdateWithSpawned, CreateS3PodAttachment,
                CleanupSpawned, HandleInactivePod, RemoveWorkload, AnnotateUnusedMP, RemoveUnusedMP,
                RemoveS3PodAttachment
  <2>. QED
    BY <1>0, <1>3, <2>1, <2>2, ReconciledKeeps DEF Reconcile
<1>4. CASE Clean
  BY <1>0, <1>4, VersionClean DEF Clean
<1>5. CASE Environment
  BY <1>0, <1>5, VersionEnvironment
<1>6. CASE UNCHANGED vars
  <2>1. UNCHANGED <<hist, rec, version, cl, mpSeen, pods, mp, aged>>
    BY <1>6 DEF vars, clusterVars, reconcilerVars
  <2>2. AgedOK'
    BY <2>1 DEF VersionInv, AgedOK
  <2>. QED
    BY <1>0, <2>1, <2>2, VersionPods, MovesNone
<1>. QED
  BY <1>1, <1>2, <1>3, <1>4, <1>5, <1>6 DEF Next

(* At first there are no S3PAs, no Mountpoint Pods and no copies. *)
LEMMA VersionInit == Init => VersionInv
<1>. SUFFICES ASSUME Init PROVE VersionInv
  OBVIOUS
<1>1. /\ Len(hist) = 1 /\ hist[1] = [n \in S3PAs |-> NoS3PA] /\ aged = {}
      /\ \A m \in MountpointPods : mp[m] = NoPod /\ mpSeen[m] = NoPod
      /\ rec = RecIdle /\ cl = CleanerIdle
  BY DEF Init, ClusterInit, ReconcilerInit, CleanerInit
<1>2. \A n \in S3PAs : Api[n] = NoS3PA /\ Cached[n] = NoS3PA
  BY <1>1 DEF Api, Cached
<1>3. /\ ~NoS3PA.live /\ NoS3PA.keys = {} /\ \A m \in MountpointPods : NoS3PA.wl[m] = {}
  BY DEF NoS3PA
<1>4. HistOK /\ StoreOK /\ AgedOK
  BY <1>1, <1>2, <1>3 DEF HistOK, StoreOK, AgedOK, Older, EntryOK
<1>5. NamedOK /\ SeenOK
  BY <1>1 DEF NamedOK, SeenOK, Known, NoPod, Named
<1>6. RunOK(cl, Api, pods, aged, mp)
  BY <1>1, <1>3 DEF RunOK, CleanerIdle, Older
<1>. QED
  BY <1>1, <1>4, <1>5, <1>6, HandIdle DEF VersionInv

(* No lost update: every write of a S3PA that is accepted is made from the     *)
(* S3PA in the store, so the reconciler and the cleaner, each with a copy of   *)
(* any age, never take an attachment from a workload that is active.           *)
THEOREM ActiveStaysAttachedCorrect == Spec => ActiveStaysAttached
<1>1. TypeOK /\ VersionInv /\ [Next]_vars => SparesActive
  BY VersionNext DEF StepOK
<1>. QED
  BY <1>1, TypeCorrect, VersionInit, VersionNext, PTL DEF Spec, ActiveStaysAttached, SparesActive

(* Upgrades: a workload is attached only to a Mountpoint Pod of the version of *)
(* the controller that attaches it, whatever versions the cache still shows    *)
(* and whenever the controller is replaced.                                    *)
THEOREM SameVersionCorrect == Spec => SameVersionOnly
<1>1. TypeOK /\ VersionInv /\ [Next]_vars => JoinsOwnVersion
  BY VersionNext DEF StepOK
<1>. QED
  BY <1>1, TypeCorrect, VersionInit, VersionNext, PTL DEF Spec, SameVersionOnly, JoinsOwnVersion

(* The entry of a Mountpoint Pod leaves the S3PA only once the Pod is          *)
(* annotated "needs-unmount" or gone, if the cache shows a Mountpoint Pod      *)
(* before it shows a S3PA that names it (PodsFirst).                           *)
THEOREM RetiredCorrect ==
    ASSUME PodsFirst
    PROVE  Spec => RetiredMPIsAnnotated
<1>1. TypeOK /\ VersionInv /\ [Next]_vars => DropsRetired
  BY VersionNext DEF StepOK
<1>. QED
  BY <1>1, TypeCorrect, VersionInit, VersionNext, PTL DEF Spec, RetiredMPIsAnnotated, DropsRetired

-----------------------------------------------------------------------------
(* The expectation is backed; the stores h lie between the cache and the API   *)
(* server.                                                                     *)

(* The cleaner deletes a S3PA while one is expected.  It has no access to the  *)
(* expectations, where RemoveS3PodAttachment clears the one it deletes.        *)
ForgetsExpectation ==
    pending /\ Clean /\ \E n \in S3PAs : Api[n].live /\ ~(Api')[n].live

End(h) == h[Len(h)]

(* A name is not taken again while a store still shows it. *)
Continuous(h) ==
    \A n \in S3PAs : \A i, j, k \in 1..Len(h) :
        i < j /\ j < k /\ h[i][n].live /\ h[k][n].live => h[j][n].live

(* Versions tell contents apart. *)
Ordered(h) ==
    \A n \in S3PAs : \A i, j \in 1..Len(h) :
        i < j /\ h[i][n].live /\ h[j][n].live =>
            h[i][n].rv <= h[j][n].rv /\ (h[i][n].rv = h[j][n].rv => h[i][n].keys = h[j][n].keys)

(* Only a S3PA that the cache showed is emptied or deleted. *)
SeenFirst(h) ==
    \A n \in S3PAs : \A i \in 1..Len(h) :
        h[i][n].live /\ (h[i][n].keys = {} \/ ~End(h)[n].live) => h[1][n].live

OneEmpty(h) ==
    \A i \in 1..Len(h) : \A n, o \in S3PAs :
        h[i][n].live /\ h[i][o].live /\ h[i][n].keys = {} /\ h[i][o].keys = {} => n = o

HistInv(h) == Continuous(h) /\ Ordered(h) /\ SeenFirst(h) /\ OneEmpty(h)

(* A S3PA that was read from the cache is in all stores, or deleted. *)
InAll(h, n) == \A i \in 1..Len(h) : h[i][n].live

(* All others have Mountpoint Pods. *)
OthersUsed(h, names) ==
    \A o \in S3PAs \ names : End(h)[o].live => End(h)[o].keys # {}

(* The S3PA in hand *)
HandInv(h, r) ==
    r.pc # "idle" /\ r.n # Nil =>
        /\ r.obj.live
        /\ End(h)[r.n].live => InAll(h, r.n)
        /\ OthersUsed(h, {r.n} \cup {d[1] : d \in r.dups})

(* A duplicate is deleted for one that has Mountpoint Pods; a later version of *)
(* it stays.                                                                   *)
DupInv(h, r) ==
    IF r.pc = "recover"
    THEN /\ r.n # Nil
         /\ \E d \in r.dups :
              /\ r.dups = {d} /\ d[1] # r.n
              /\ End(h)[d[1]].live =>
                    /\ d[2] \in Nat /\ d[2] <= End(h)[d[1]].rv
                    /\ End(h)[d[1]].rv = d[2] =>
                          \A i \in 1..Len(h) : h[i][d[1]].live /\ h[i][d[1]].keys = {}
    ELSE r.dups = {}

(* No store from the cached one on shows S3PA b next to one that has           *)
(* Mountpoint Pods and is deleted by now.                                      *)
LastOfThose(h, b) ==
    \A i \in 1..Len(h) : \A n \in S3PAs :
        h[i][b].live /\ h[i][n].live /\ h[i][n].keys # {} => End(h)[n].live

(* While a S3PA is expected nothing is attached, and there is one that is not  *)
(* about to be deleted as the duplicate of one that is gone.                   *)
PendingInv(h, r, p) ==
    p =>
        /\ r.pc \notin {"assign", "spawn", "update", "create", "cleanup"}
        /\ \E b \in S3PAs :
              /\ End(h)[b].live
              /\ LastOfThose(h, b)
              /\ r.pc = "recover" => End(h)[r.n].live \/ \A d \in r.dups : d[1] # b

Backing(h, r, p) ==
    /\ HistInv(h) /\ HandInv(h, r) /\ DupInv(h, r) /\ PendingInv(h, r, p)
    /\ r.pc = "create" => r.n = Nil

(* The cleaner's list and the S3PA it has in hand *)
CleanInv(h, c) ==
    /\ c.pc = "s3pa" => c.obj.live /\ (End(h)[c.n].live => InAll(h, c.n))
    /\ \A n \in S3PAs : c.list[n].live /\ End(h)[n].live => InAll(h, n)

Backed(p) == ~lost => Backing(hist, rec, p) /\ CleanInv(hist, cl)

(* What always holds, even when the cleaner has deleted the S3PA expected; and *)
(* what makes an expectation safe.                                             *)
KnownInv  == Backed(FALSE)
BackedInv == Backed(pending)

(* p and p2: whether an expectation is to be backed, before and after a step.  *)
StepExpects(p, p2) == (p => pending) /\ (p2 => pending') /\ (pending /\ p2 => p)

(* Stores: not empty, as TypeOK has them *)
IsHist(h) == h \in Seq([S3PAs -> S3PA]) /\ Len(h) \in Nat /\ Len(h) > 0

(* One S3PA is written. *)
With(h, n, obj) == Append(h, [End(h) EXCEPT ![n] = obj])

LEMMA WithShape ==
    ASSUME NEW h, IsHist(h), NEW n \in S3PAs, NEW obj
    PROVE  /\ Len(With(h, n, obj)) = Len(h) + 1
           /\ \A i \in 1..Len(h) : With(h, n, obj)[i] = h[i] /\ i \in 1..Len(With(h, n, obj))
           /\ End(With(h, n, obj)) = With(h, n, obj)[Len(h) + 1]
           /\ End(With(h, n, obj))[n] = obj
           /\ \A o \in S3PAs \ {n} : End(With(h, n, obj))[o] = End(h)[o]
           /\ \A i \in 1..Len(With(h, n, obj)) : i \in 1..Len(h) \/ i = Len(h) + 1
           /\ 1 \in 1..Len(h) /\ Len(h) \in 1..Len(h) /\ Len(h) + 1 \in 1..Len(With(h, n, obj))
           /\ \A o \in S3PAs : \A i \in 1..Len(h) : h[i][o].rv \in Nat
<1>. DEFINE s == [End(h) EXCEPT ![n] = obj]
            g == With(h, n, obj)
<1>1. End(h) \in [S3PAs -> S3PA] /\ \A i \in 1..Len(h) : h[i] \in [S3PAs -> S3PA]
  BY DEF IsHist, End
<1>2. s[n] = obj /\ \A o \in S3PAs \ {n} : s[o] = End(h)[o]
  BY <1>1
<1>3. g = Append(h, s)
  BY DEF With
<1>. HIDE DEF s, g
<1>4. Len(g) = Len(h) + 1 /\ (\A i \in 1..Len(h) : g[i] = h[i]) /\ g[Len(h) + 1] = s
  BY <1>3 DEF IsHist
<1>5. End(g) = g[Len(h) + 1]
  BY <1>4 DEF End
<1>6. \A o \in S3PAs : \A i \in 1..Len(h) : h[i][o].rv \in Nat
  BY <1>1 DEF S3PA
<1>7. /\ \A i \in 1..Len(h) : i \in 1..Len(g)
      /\ \A i \in 1..Len(g) : i \in 1..Len(h) \/ i = Len(h) + 1
      /\ 1 \in 1..Len(h) /\ Len(h) \in 1..Len(h) /\ Len(h) + 1 \in 1..Len(g)
  BY <1>4 DEF IsHist
<1>8. /\ Len(g) = Len(h) + 1 /\ (\A i \in 1..Len(h) : g[i] = h[i] /\ i \in 1..Len(g))
      /\ End(g) = g[Len(h) + 1] /\ End(g)[n] = obj /\ (\A o \in S3PAs \ {n} : End(g)[o] = End(h)[o])
  BY <1>2, <1>4, <1>5, <1>7
<1>. QED
  BY <1>6, <1>7, <1>8 DEF g

(* A S3PA that the cache showed is updated or deleted, or a new one created. *)
LEMMA HistWith ==
    ASSUME NEW h, IsHist(h), HistInv(h), NEW n \in S3PAs, NEW obj,
           \/ /\ InAll(h, n)
              /\ obj.live => /\ obj.rv \in Nat /\ obj.rv > End(h)[n].rv
                             /\ obj.keys = {} => OthersUsed(h, {n})
           \/ obj.live /\ obj.keys # {} /\ \A i \in 1..Len(h) : ~h[i][n].live
    PROVE  HistInv(With(h, n, obj))
<1>. DEFINE g == With(h, n, obj)
            z == Len(h)
<1>1. /\ Len(g) = z + 1 /\ (\A i \in 1..z : g[i] = h[i] /\ i \in 1..Len(g))
      /\ End(g) = g[z + 1] /\ End(g)[n] = obj /\ (\A o \in S3PAs \ {n} : End(g)[o] = End(h)[o])
      /\ \A i \in 1..Len(g) : i \in 1..z \/ i = z + 1
  BY WithShape
<1>2. z \in Nat /\ 1 \in 1..z /\ z \in 1..z /\ End(h) = h[z] /\ (\A o \in S3PAs : \A i \in 1..z : h[i][o].rv \in Nat)
  BY WithShape DEF IsHist, End
<1>. HIDE DEF g, z
<1>3. Continuous(h) /\ Ordered(h) /\ SeenFirst(h) /\ OneEmpty(h) /\ Len(h) = z
  BY DEF HistInv, z
<1>4. Continuous(g)
  <2>. SUFFICES ASSUME NEW o \in S3PAs, NEW i \in 1..Len(g), NEW j \in 1..Len(g), NEW k \in 1..Len(g),
                       i < j, j < k, g[i][o].live, g[k][o].live
                PROVE  g[j][o].live
    BY DEF Continuous
  <2>1. i \in 1..z /\ j \in 1..z /\ g[i] = h[i] /\ g[j] = h[j]
    BY <1>1, <1>2
  <2>2. CASE k \in 1..z
    BY <1>1, <1>3, <2>1, <2>2 DEF Continuous
  <2>3. CASE k = z + 1 /\ o # n
    <3>1. h[z][o].live
      BY <1>1, <1>2, <2>3
    <3>2. j = z \/ j < z
      BY <1>2, <2>1
    <3>. QED
      BY <1>2, <1>3, <2>1, <3>1, <3>2 DEF Continuous
  <2>4. CASE o = n /\ k = z + 1
    BY <1>3, <2>1, <2>4 DEF InAll
  <2>. QED
    BY <1>1, <2>2, <2>3, <2>4
<1>5. Ordered(g)
  <2>. SUFFICES ASSUME NEW o \in S3PAs, NEW i \in 1..Len(g), NEW j \in 1..Len(g), i < j, g[i][o].live, g[j][o].live
                PROVE  g[i][o].rv <= g[j][o].rv /\ (g[i][o].rv = g[j][o].rv => g[i][o].keys = g[j][o].keys)
    BY DEF Ordered
  <2>1. i \in 1..z /\ g[i] = h[i]
    BY <1>1, <1>2
  <2>2. CASE j \in 1..z
    BY <1>1, <1>3, <2>1, <2>2 DEF Ordered
  <2>3. CASE j = z + 1
    <3>1. i = z \/ i < z
      BY <1>2, <2>1
    <3>2. h[z][o].live => /\ h[i][o].rv <= h[z][o].rv /\ (h[i][o].rv = h[z][o].rv => h[i][o].keys = h[z][o].keys)
      BY <1>2, <1>3, <2>1, <3>1 DEF Ordered
    <3>3. CASE o # n
      BY <1>1, <1>2, <2>1, <2>3, <3>2, <3>3
    <3>4. CASE o = n
      <4>1. h[z][n].live /\ obj.rv \in Nat /\ obj.rv > h[z][n].rv /\ g[j][o] = obj
        BY <1>1, <1>2, <1>3, <2>1, <2>3, <3>4 DEF InAll
      <4>2. h[i][n].rv <= h[z][n].rv /\ h[i][n].rv \in Nat /\ h[z][n].rv \in Nat
        BY <1>2, <2>1, <3>2, <3>4, <4>1
      <4>3. h[i][n].rv < obj.rv
        BY <4>1, <4>2
      <4>. QED
        BY <2>1, <3>4, <4>1, <4>2, <4>3
    <3>. QED
      BY <3>3, <3>4
  <2>. QED
    BY <1>1, <2>2, <2>3
<1>6. SeenFirst(g)
  <2>. SUFFICES ASSUME NEW o \in S3PAs, NEW i \in 1..Len(g), g[i][o].live, g[i][o].keys = {} \/ ~End(g)[o].live
                PROVE  h[1][o].live
    BY <1>1, <1>2 DEF SeenFirst
  <2>1. CASE o # n
    BY <1>1, <1>2, <1>3, <2>1 DEF SeenFirst
  <2>2. CASE o = n
    BY <1>1, <1>2, <1>3, <2>2 DEF InAll
  <2>. QED
    BY <2>1, <2>2
<1>7. OneEmpty(g)
  <2>. SUFFICES ASSUME NEW i \in 1..Len(g), NEW o \in S3PAs, NEW q \in S3PAs, o # q,
                       g[i][o].live, g[i][q].live, g[i][o].keys = {}, g[i][q].keys = {}
                PROVE  FALSE
    BY DEF OneEmpty
  <2>1. CASE i \in 1..z
    BY <1>1, <1>3, <2>1 DEF OneEmpty
  <2>2. CASE i = z + 1 /\ o # n /\ q # n
    BY <1>1, <1>2, <1>3, <2>2 DEF OneEmpty
  <2>3. ASSUME i = z + 1, NEW x \in S3PAs, x # n, g[i][n].live, g[i][n].keys = {}, g[i][x].live, g[i][x].keys = {}
        PROVE  FALSE
    <3>1. obj.live /\ obj.keys = {} /\ End(h)[x].live /\ End(h)[x].keys = {}
      BY <1>1, <2>3
    <3>2. OthersUsed(h, {n})
      BY <3>1
    <3>. QED
      BY <2>3, <3>1, <3>2 DEF OthersUsed
  <2>. QED
    BY <1>1, <2>1, <2>2, <2>3
<1>8. HistInv(g)
  BY <1>4, <1>5, <1>6, <1>7 DEF HistInv
<1>. QED
  BY <1>8 DEF g

(* The cache is one store further. *)
LEMMA TailShape ==
    ASSUME NEW h, IsHist(h), Len(h) > 1
    PROVE  /\ End(Tail(h)) = End(h)
           /\ \A i \in 1..Len(Tail(h)) : Tail(h)[i] = h[i + 1] /\ i + 1 \in 1..Len(h)
           /\ 1 \in 1..Len(h) /\ 2 \in 1..Len(h) /\ 1 \in 1..Len(Tail(h)) /\ Tail(h)[1] = h[2]
<1>1. Len(Tail(h)) = Len(h) - 1 /\ \A i \in 1..Len(Tail(h)) : Tail(h)[i] = h[i + 1]
  BY DEF IsHist
<1>2. /\ \A i \in 1..Len(Tail(h)) : i + 1 \in 1..Len(h)
      /\ 1 \in 1..Len(h) /\ 2 \in 1..Len(h) /\ 1 \in 1..Len(Tail(h)) /\ Len(Tail(h)) \in 1..Len(Tail(h))
      /\ Len(Tail(h)) + 1 = Len(h) /\ 1 + 1 = 2
  BY <1>1 DEF IsHist
<1>3. End(Tail(h)) = End(h)
  BY <1>1, <1>2 DEF End
<1>4. Tail(h)[1] = h[2]
  BY <1>1, <1>2
<1>. QED
  BY <1>1, <1>2, <1>3, <1>4

LEMMA HistTail ==
    ASSUME NEW h, IsHist(h), Len(h) > 1, HistInv(h)
    PROVE  HistInv(Tail(h))
<1>. DEFINE g == Tail(h)
<1>1. /\ End(g) = End(h) /\ (\A i \in 1..Len(g) : g[i] = h[i + 1] /\ i + 1 \in 1..Len(h))
      /\ 1 \in 1..Len(h) /\ 2 \in 1..Len(h) /\ g[1] = h[2]
  BY TailShape
<1>. HIDE DEF g
<1>2. Continuous(h) /\ Ordered(h) /\ SeenFirst(h) /\ OneEmpty(h)
  BY DEF HistInv
<1>3. Continuous(g)
  <2>. SUFFICES ASSUME NEW n \in S3PAs, NEW i \in 1..Len(g), NEW j \in 1..Len(g), NEW k \in 1..Len(g),
                       i < j, j < k, g[i][n].live, g[k][n].live
                PROVE  g[j][n].live
    BY DEF Continuous
  <2>1. i + 1 < j + 1 /\ j + 1 < k + 1
    OBVIOUS
  <2>2. /\ i + 1 \in 1..Len(h) /\ j + 1 \in 1..Len(h) /\ k + 1 \in 1..Len(h)
        /\ h[i + 1][n].live /\ h[k + 1][n].live /\ g[j] = h[j + 1]
    BY <1>1
  <2>3. h[j + 1][n].live
    BY <1>2, <2>1, <2>2 DEF Continuous
  <2>. QED
    BY <2>2, <2>3
<1>4. Ordered(g)
  BY <1>1, <1>2 DEF Ordered
<1>5. SeenFirst(g)
  <2>. SUFFICES ASSUME NEW n \in S3PAs, NEW i \in 1..Len(g), g[i][n].live, g[i][n].keys = {} \/ ~End(g)[n].live
                PROVE  h[2][n].live
    BY <1>1 DEF SeenFirst
  <2>1. h[1][n].live
    BY <1>1, <1>2 DEF SeenFirst
  <2>2. i + 1 = 2 \/ 2 < i + 1
    OBVIOUS
  <2>. QED
    BY <1>1, <1>2, <2>1, <2>2 DEF Continuous
<1>6. OneEmpty(g)
  BY <1>1, <1>2 DEF OneEmpty
<1>7. HistInv(g)
  BY <1>3, <1>4, <1>5, <1>6 DEF HistInv
<1>. QED
  BY <1>7 DEF g

LEMMA BackSync ==
    ASSUME NEW h, IsHist(h), Len(h) > 1, NEW r, NEW p \in BOOLEAN, Backing(h, r, p)
    PROVE  Backing(Tail(h), r, p)
<1>. DEFINE g == Tail(h)
<1>1. /\ End(g) = End(h) /\ \A i \in 1..Len(g) : g[i] = h[i + 1] /\ i + 1 \in 1..Len(h)
  BY TailShape
<1>2. HistInv(g)
  BY HistTail DEF Backing
<1>. HIDE DEF g
<1>3. HandInv(g, r)
  BY <1>1 DEF Backing, HandInv, InAll, OthersUsed
<1>4. DupInv(g, r)
  BY SMTT(60), <1>1 DEF Backing, DupInv
<1>5. PendingInv(g, r, p)
  <2>. SUFFICES ASSUME p PROVE PendingInv(g, r, p)
    BY DEF PendingInv
  <2>1. PICK b \in S3PAs : /\ End(h)[b].live /\ LastOfThose(h, b)
                           /\ r.pc = "recover" => End(h)[r.n].live \/ \A d \in r.dups : d[1] # b
    BY DEF Backing, PendingInv
  <2>2. LastOfThose(g, b)
    BY <1>1, <2>1 DEF LastOfThose
  <2>. QED
    BY <1>1, <2>1, <2>2 DEF Backing, PendingInv
<1>6. Backing(g, r, p)
  BY <1>2, <1>3, <1>4, <1>5 DEF Backing
<1>. QED
  BY <1>6 DEF g

LEMMA CleanSync ==
    ASSUME NEW h, IsHist(h), Len(h) > 1, NEW c, CleanInv(h, c)
    PROVE  CleanInv(Tail(h), c)
<1>. DEFINE g == Tail(h)
<1>1. /\ End(g) = End(h) /\ \A i \in 1..Len(g) : g[i] = h[i + 1] /\ i + 1 \in 1..Len(h)
  BY TailShape
<1>. HIDE DEF g
<1>2. CleanInv(g, c)
  BY <1>1 DEF CleanInv, InAll
<1>. QED
  BY <1>2 DEF g

(* A Reconcile ends. *)
LEMMA BackIdle ==
    ASSUME NEW h, NEW r, NEW p \in BOOLEAN, Backing(h, r, p), NEW p2 \in BOOLEAN, p2 => p
    PROVE  Backing(h, RecIdle, p2)
<1>1. RecIdle.pc = "idle" /\ RecIdle.n = Nil /\ RecIdle.dups = {}
  BY DEF RecIdle
<1>2. HandInv(h, RecIdle) /\ DupInv(h, RecIdle)
  BY <1>1 DEF HandInv, DupInv
<1>3. PendingInv(h, RecIdle, p2)
  BY <1>1 DEF Backing, PendingInv
<1>. QED
  BY <1>1, <1>2, <1>3 DEF Backing

(* It goes on with what it has in hand. *)
LEMMA BackMoves ==
    ASSUME NEW h, NEW r, NEW p \in BOOLEAN, Backing(h, r, p), r.pc \notin {"idle", "recover"},
           NEW r2, r2.n = r.n, r.obj.live => r2.obj.live, r2.dups = r.dups, r2.pc \notin {"idle", "recover"},
           r2.pc = "create" => r.n = Nil,
           NEW p2 \in BOOLEAN, p2 => p,
           p2 => r2.pc \notin {"assign", "spawn", "update", "create", "cleanup"}
    PROVE  Backing(h, r2, p2)
<1>1. HandInv(h, r2)
  BY DEF Backing, HandInv
<1>2. DupInv(h, r2)
  BY DEF Backing, DupInv
<1>3. PendingInv(h, r2, p2)
  BY DEF Backing, PendingInv
<1>. QED
  BY <1>1, <1>2, <1>3 DEF Backing

(* The S3PA in hand is updated. *)
LEMMA BackUpdates ==
    ASSUME NEW h, IsHist(h), NEW r, NEW p \in BOOLEAN, Backing(h, r, p), r.pc \notin {"idle", "recover"},
           r.n \in S3PAs, NEW obj, obj.live, obj.rv \in Nat, obj.rv > End(h)[r.n].rv, End(h)[r.n].live
    PROVE  Backing(With(h, r.n, obj), r, p)
<1>. DEFINE g == With(h, r.n, obj)
            z == Len(h)
<1>1. /\ Len(g) = z + 1 /\ (\A i \in 1..z : g[i] = h[i] /\ i \in 1..Len(g))
      /\ End(g) = g[z + 1] /\ End(g)[r.n] = obj /\ (\A o \in S3PAs \ {r.n} : End(g)[o] = End(h)[o])
      /\ \A i \in 1..Len(g) : i \in 1..z \/ i = z + 1
  BY WithShape
<1>2. r.n # Nil /\ r.dups = {} /\ InAll(h, r.n) /\ OthersUsed(h, {r.n}) /\ r.obj.live /\ HistInv(h)
  BY NilAssumption DEF Backing, HandInv, DupInv
<1>3. HistInv(g)
  BY <1>2, HistWith
<1>4. \A o \in S3PAs : End(g)[o].live <=> End(h)[o].live
  BY <1>1
<1>. HIDE DEF g
<1>5. HandInv(g, r)
  <2>1. InAll(g, r.n)
    BY <1>1, <1>2 DEF InAll
  <2>2. OthersUsed(g, {r.n})
    BY <1>1, <1>2 DEF OthersUsed
  <2>. QED
    BY <1>2, <2>1, <2>2 DEF HandInv
<1>6. DupInv(g, r)
  BY <1>2 DEF DupInv
<1>7. PendingInv(g, r, p)
  <2>. SUFFICES ASSUME p PROVE PendingInv(g, r, p)
    BY DEF PendingInv
  <2>1. PICK b \in S3PAs : End(h)[b].live /\ LastOfThose(h, b)
    BY DEF Backing, PendingInv
  <2>2. ASSUME NEW i \in 1..Len(g), NEW o \in S3PAs, g[i][b].live, g[i][o].live, g[i][o].keys # {}
        PROVE  End(g)[o].live
    <3>1. CASE i \in 1..z
      BY <1>1, <1>4, <2>1, <2>2, <3>1 DEF LastOfThose
    <3>2. CASE i = z + 1
      BY <1>1, <2>2, <3>2
    <3>. QED
      BY <1>1, <3>1, <3>2
  <2>3. End(g)[b].live /\ LastOfThose(g, b)
    BY <1>4, <2>1, <2>2 DEF LastOfThose
  <2>. QED
    BY <2>3 DEF Backing, PendingInv
<1>8. Backing(g, r, p)
  BY <1>3, <1>5, <1>6, <1>7 DEF Backing
<1>. QED
  BY <1>8 DEF g

(* It is deleted, and the expectation cleared. *)
LEMMA BackDeletes ==
    ASSUME NEW h, IsHist(h), NEW r, NEW p \in BOOLEAN, Backing(h, r, p), r.pc \notin {"idle", "recover"},
           r.n \in S3PAs, End(h)[r.n].live
    PROVE  Backing(With(h, r.n, NoS3PA), RecIdle, FALSE)
<1>1. InAll(h, r.n) /\ HistInv(h) /\ ~NoS3PA.live
  BY NilAssumption DEF Backing, HandInv, NoS3PA
<1>2. HistInv(With(h, r.n, NoS3PA))
  BY <1>1, HistWith
<1>3. RecIdle.pc = "idle" /\ RecIdle.n = Nil /\ RecIdle.dups = {}
  BY DEF RecIdle
<1>. QED
  BY <1>2, <1>3 DEF Backing, HandInv, DupInv, PendingInv

(* A duplicate is deleted. *)
LEMMA BackDeletesDuplicate ==
    ASSUME NEW h, IsHist(h), NEW r, NEW p \in BOOLEAN, Backing(h, r, p), r.pc = "recover",
           NEW d \in r.dups, d[1] \in S3PAs, End(h)[d[1]].live, End(h)[d[1]].rv = d[2], r.n \in S3PAs \cup {Nil},
           NEW r2, r2.pc = "listed", r2.n = r.n, r2.obj = r.obj, r2.dups = {}
    PROVE  r.dups = {d} /\ r.n # Nil /\ Backing(With(h, d[1], NoS3PA), r2, p)
<1>. DEFINE n == d[1]
            g == With(h, n, NoS3PA)
            z == Len(h)
<1>1. /\ Len(g) = z + 1 /\ (\A i \in 1..z : g[i] = h[i] /\ i \in 1..Len(g))
      /\ End(g) = g[z + 1] /\ End(g)[n] = NoS3PA /\ (\A o \in S3PAs \ {n} : End(g)[o] = End(h)[o])
      /\ \A i \in 1..Len(g) : i \in 1..z \/ i = z + 1
  BY WithShape
<1>2. /\ r.dups = {d} /\ n # r.n /\ r.n # Nil
      /\ \A i \in 1..Len(h) : h[i][n].live /\ h[i][n].keys = {}
  BY DEF Backing, DupInv
<1>3. ~NoS3PA.live /\ InAll(h, n) /\ HistInv(h)
  BY <1>2 DEF NoS3PA, InAll, Backing
<1>4. HistInv(g)
  BY <1>3, HistWith
<1>. HIDE DEF g
<1>5. HandInv(g, r2)
  <2>1. r.obj.live /\ (End(h)[r.n].live => InAll(h, r.n)) /\ OthersUsed(h, {r.n, n})
    <3>1. {r.n} \cup {x[1] : x \in r.dups} = {r.n, n}
      BY <1>2
    <3>. QED
      BY <1>2, <3>1 DEF Backing, HandInv
  <2>2. End(g)[r.n].live => InAll(g, r.n)
    BY <1>1, <1>2, <2>1 DEF InAll
  <2>3. OthersUsed(g, {r.n})
    BY <1>1, <1>3, <2>1 DEF OthersUsed
  <2>4. {r2.n} \cup {x[1] : x \in r2.dups} = {r.n}
    OBVIOUS
  <2>. QED
    BY <2>1, <2>2, <2>3, <2>4 DEF HandInv
<1>6. DupInv(g, r2)
  BY DEF DupInv
<1>7. PendingInv(g, r2, p)
  <2>. SUFFICES ASSUME p PROVE PendingInv(g, r2, p)
    BY DEF PendingInv
  <2>1. PICK b \in S3PAs : /\ End(h)[b].live /\ LastOfThose(h, b)
                           /\ End(h)[r.n].live \/ b # n
    BY <1>2 DEF Backing, PendingInv
  <2>2. ASSUME NEW i \in 1..Len(g), NEW o \in S3PAs, g[i][o].live, g[i][o].keys # {},
               i \in 1..z => h[i][b].live
        PROVE  End(g)[o].live
    <3>1. CASE i \in 1..z
      <4>1. o # n
        BY <1>1, <1>2, <2>2, <3>1
      <4>. QED
        BY <1>1, <2>1, <2>2, <3>1, <4>1 DEF LastOfThose
    <3>2. CASE i = z + 1
      BY <1>1, <2>2, <3>2
    <3>. QED
      BY <1>1, <3>1, <3>2
  <2>3. CASE b # n
    <3>1. End(g)[b].live /\ LastOfThose(g, b)
      BY <1>1, <2>1, <2>2, <2>3 DEF LastOfThose
    <3>. QED
      BY <3>1 DEF PendingInv
  <2>4. CASE b = n
    <3>1. End(g)[r.n].live /\ r.n \in S3PAs
      BY <1>1, <1>2, <2>1, <2>4
    <3>2. LastOfThose(g, r.n)
      BY <1>2, <2>2, <2>4 DEF LastOfThose
    <3>. QED
      BY <3>1, <3>2 DEF PendingInv
  <2>. QED
    BY <2>3, <2>4
<1>8. Backing(g, r2, p)
  BY <1>4, <1>5, <1>6, <1>7 DEF Backing
<1>. QED
  BY <1>2, <1>8 DEF g

(* A S3PA is created, and expected. *)
LEMMA BackCreates ==
    ASSUME NEW h, IsHist(h), NEW r, NEW p \in BOOLEAN, Backing(h, r, p), r.pc = "create",
           NEW n \in S3PAs, \A i \in 1..Len(h) : ~h[i][n].live, NEW obj, obj.live, obj.keys # {}
    PROVE  Backing(With(h, n, obj), RecIdle, TRUE)
<1>. DEFINE g == With(h, n, obj)
            z == Len(h)
<1>1. /\ Len(g) = z + 1 /\ (\A i \in 1..z : g[i] = h[i] /\ i \in 1..Len(g))
      /\ End(g) = g[z + 1] /\ End(g)[n] = obj /\ (\A o \in S3PAs \ {n} : End(g)[o] = End(h)[o])
      /\ \A i \in 1..Len(g) : i \in 1..z \/ i = z + 1
  BY WithShape
<1>2. HistInv(g)
  BY HistWith DEF Backing
<1>. HIDE DEF g
<1>3. RecIdle.pc = "idle" /\ RecIdle.n = Nil /\ RecIdle.dups = {}
  BY DEF RecIdle
<1>4. End(g)[n].live /\ LastOfThose(g, n)
  <2>. SUFFICES ASSUME NEW i \in 1..Len(g), NEW o \in S3PAs, g[i][n].live, g[i][o].live PROVE End(g)[o].live
    BY <1>1 DEF LastOfThose
  <2>. QED
    BY <1>1
<1>5. PendingInv(g, RecIdle, TRUE)
  BY <1>3, <1>4 DEF PendingInv
<1>6. HandInv(g, RecIdle) /\ DupInv(g, RecIdle)
  BY <1>3 DEF HandInv, DupInv
<1>7. Backing(g, RecIdle, TRUE)
  BY <1>2, <1>3, <1>5, <1>6 DEF Backing
<1>. QED
  BY <1>7 DEF g

(* The cleaner updates or deletes a S3PA that the cache showed. *)
LEMMA BackCleans ==
    ASSUME NEW h, IsHist(h), NEW r \in RecType, NEW p \in BOOLEAN, Backing(h, r, p),
           NEW n \in S3PAs, InAll(h, n), NEW obj,
           \/ obj.live /\ obj.keys # {} /\ obj.rv \in Nat /\ obj.rv > End(h)[n].rv
           \/ ~obj.live /\ ~p
    PROVE  Backing(With(h, n, obj), r, p)
<1>. DEFINE g == With(h, n, obj)
            z == Len(h)
<1>1. /\ Len(g) = z + 1 /\ (\A i \in 1..z : g[i] = h[i] /\ i \in 1..Len(g))
      /\ End(g) = g[z + 1] /\ End(g)[n] = obj /\ (\A o \in S3PAs \ {n} : End(g)[o] = End(h)[o])
      /\ \A i \in 1..Len(g) : i \in 1..z \/ i = z + 1
  BY WithShape
<1>2. End(h)[n].live /\ End(h)[n].rv \in Nat /\ HistInv(h)
  BY WithShape DEF Backing, InAll, End
<1>t. (r.n # Nil => r.n \in S3PAs) /\ \A d \in r.dups : d[1] \in S3PAs
  BY DEF RecType
<1>3. HistInv(g)
  BY <1>2, HistWith
<1>4. \A o \in S3PAs : End(g)[o].live => End(h)[o].live
  BY <1>1, <1>2
<1>. HIDE DEF g
<1>5. ASSUME NEW o \in S3PAs, InAll(h, o), End(g)[o].live PROVE InAll(g, o)
  BY <1>1, <1>5 DEF InAll
<1>6. HandInv(g, r)
  <2>. SUFFICES ASSUME r.pc # "idle", r.n # Nil PROVE HandInv(g, r)
    BY DEF HandInv
  <2>1. OthersUsed(g, {r.n} \cup {d[1] : d \in r.dups})
    BY <1>1 DEF Backing, HandInv, OthersUsed
  <2>2. r.obj.live /\ (End(g)[r.n].live => InAll(g, r.n))
    BY <1>4, <1>5, <1>t DEF Backing, HandInv
  <2>. QED
    BY <2>1, <2>2 DEF HandInv
<1>7. DupInv(g, r)
  <2>. SUFFICES ASSUME r.pc = "recover" PROVE DupInv(g, r)
    BY DEF Backing, DupInv
  <2>1. PICK d \in r.dups :
          /\ r.dups = {d} /\ d[1] # r.n
          /\ End(h)[d[1]].live =>
                /\ d[2] \in Nat /\ d[2] <= End(h)[d[1]].rv
                /\ End(h)[d[1]].rv = d[2] => \A i \in 1..z : h[i][d[1]].live /\ h[i][d[1]].keys = {}
    BY DEF Backing, DupInv
  <2>2. CASE d[1] # n
    <3>1. d[1] \in S3PAs /\ End(g)[d[1]] = End(h)[d[1]] /\ g[z + 1][d[1]] = h[z][d[1]] /\ z \in 1..z
      BY <1>1, <1>t, <2>2, WithShape DEF End
    <3>2. ASSUME \A i \in 1..z : h[i][d[1]].live /\ h[i][d[1]].keys = {}, NEW i \in 1..Len(g)
          PROVE  g[i][d[1]].live /\ g[i][d[1]].keys = {}
      BY <1>1, <3>1, <3>2
    <3>. QED
      BY <2>1, <3>1, <3>2 DEF Backing, DupInv
  <2>3. CASE d[1] = n
    BY <1>1, <1>2, <2>1, <2>3 DEF Backing, DupInv
  <2>. QED
    BY <2>2, <2>3
<1>8. PendingInv(g, r, p)
  <2>. SUFFICES ASSUME p PROVE PendingInv(g, r, p)
    BY DEF PendingInv
  <2>1. obj.live /\ \A o \in S3PAs : End(g)[o].live <=> End(h)[o].live
    BY <1>1, <1>2
  <2>2. PICK b \in S3PAs : /\ End(h)[b].live /\ LastOfThose(h, b)
                           /\ r.pc = "recover" => End(h)[r.n].live \/ \A d \in r.dups : d[1] # b
    BY DEF Backing, PendingInv
  <2>3. ASSUME NEW i \in 1..Len(g), NEW o \in S3PAs, g[i][b].live, g[i][o].live, g[i][o].keys # {}
        PROVE  End(g)[o].live
    <3>1. CASE i \in 1..z
      BY <1>1, <2>1, <2>2, <2>3, <3>1 DEF LastOfThose
    <3>2. CASE i = z + 1
      BY <1>1, <2>3, <3>2
    <3>. QED
      BY <1>1, <3>1, <3>2
  <2>4. End(g)[b].live /\ LastOfThose(g, b)
    BY <2>1, <2>2, <2>3 DEF LastOfThose
  <2>5. r.pc = "recover" => End(g)[r.n].live \/ \A d \in r.dups : d[1] # b
    BY <1>t, <2>1, <2>2 DEF Backing, DupInv
  <2>. QED
    BY <2>4, <2>5 DEF Backing, PendingInv
<1>9. Backing(g, r, p)
  BY <1>3, <1>6, <1>7, <1>8 DEF Backing
<1>. QED
  BY <1>9 DEF g

(* A write leaves the cleaner's copies as they are: it is of a S3PA in all     *)
(* stores, or deletes one, or creates one the cleaner knows nothing of.        *)
LEMMA CleanWith ==
    ASSUME NEW h, IsHist(h), NEW c, CleanInv(h, c), c.pc = "s3pa" => c.n \in S3PAs,
           NEW n \in S3PAs, NEW obj,
           InAll(h, n) \/ ~obj.live \/ (n # c.n /\ ~c.list[n].live)
    PROVE  CleanInv(With(h, n, obj), c)
<1>. DEFINE g == With(h, n, obj)
            z == Len(h)
<1>1. /\ Len(g) = z + 1 /\ (\A i \in 1..z : g[i] = h[i] /\ i \in 1..Len(g))
      /\ End(g) = g[z + 1] /\ End(g)[n] = obj /\ (\A o \in S3PAs \ {n} : End(g)[o] = End(h)[o])
      /\ \A i \in 1..Len(g) : i \in 1..z \/ i = z + 1
  BY WithShape
<1>. HIDE DEF g
<1>2. ASSUME NEW o \in S3PAs, InAll(h, o), End(g)[o].live PROVE InAll(g, o)
  BY <1>1, <1>2 DEF InAll
<1>3. ASSUME NEW o \in S3PAs, o = n => InAll(h, n) \/ ~obj.live, End(h)[o].live => InAll(h, o), End(g)[o].live
      PROVE  InAll(g, o)
  BY <1>1, <1>2, <1>3
<1>4. c.pc = "s3pa" => c.obj.live /\ (End(g)[c.n].live => InAll(g, c.n))
  BY <1>3 DEF CleanInv
<1>5. ASSUME NEW o \in S3PAs, c.list[o].live, End(g)[o].live PROVE InAll(g, o)
  BY <1>3, <1>5 DEF CleanInv
<1>6. CleanInv(g, c)
  BY <1>4, <1>5 DEF CleanInv
<1>. QED
  BY <1>6 DEF g

(* The cache is listed: nothing, *)
LEMMA BackListsNone ==
    ASSUME NEW h, IsHist(h), NEW r, NEW p \in BOOLEAN, Backing(h, r, p), Live(h[1]) = {},
           NEW r2, r2.pc = "listed", r2.n = Nil, r2.dups = {}
    PROVE  Backing(h, r2, p)
<1>1. HandInv(h, r2) /\ DupInv(h, r2)
  BY DEF HandInv, DupInv
<1>2. PendingInv(h, r2, p)
  BY DEF Backing, PendingInv
<1>. QED
  BY <1>1, <1>2 DEF Backing

(* What the cache shows is in every store, or deleted; what it does not show   *)
(* is not empty.                                                               *)
LEMMA ListedInHand ==
    ASSUME NEW h, IsHist(h), HistInv(h)
    PROVE  /\ \A n \in S3PAs : h[1][n].live /\ End(h)[n].live => InAll(h, n)
           /\ OthersUsed(h, Live(h[1]))
<1>1. 1 \in 1..Len(h) /\ Len(h) \in 1..Len(h) /\ End(h) = h[Len(h)] /\ Len(h) \in Nat
  BY DEF IsHist, End
<1>2. ASSUME NEW n \in S3PAs, h[1][n].live, End(h)[n].live, NEW i \in 1..Len(h) PROVE h[i][n].live
  <2>1. i = 1 \/ i = Len(h) \/ (1 < i /\ i < Len(h))
    BY <1>1
  <2>. QED
    BY <1>1, <1>2, <2>1 DEF HistInv, Continuous
<1>3. OthersUsed(h, Live(h[1]))
  BY <1>1 DEF HistInv, SeenFirst, OthersUsed, Live
<1>. QED
  BY <1>2, <1>3 DEF InAll

(* one S3PA, *)
LEMMA BackListsOne ==
    ASSUME NEW h, IsHist(h), NEW r, NEW p \in BOOLEAN, Backing(h, r, p), NEW n \in S3PAs, Live(h[1]) = {n},
           NEW r2, r2.pc = "listed", r2.n = n, r2.obj = h[1][n], r2.dups = {}
    PROVE  Backing(h, r2, p)
<1>1. h[1][n].live /\ HistInv(h)
  BY DEF Live, Backing
<1>2. {r2.n} \cup {d[1] : d \in r2.dups} = Live(h[1])
  OBVIOUS
<1>3. HandInv(h, r2)
  BY <1>1, <1>2, ListedInHand DEF HandInv
<1>4. DupInv(h, r2)
  BY DEF DupInv
<1>5. PendingInv(h, r2, p)
  BY DEF Backing, PendingInv
<1>. QED
  BY <1>1, <1>3, <1>4, <1>5 DEF Backing

(* or several: a duplicate, and another that has Mountpoint Pods. *)
LEMMA BackListsDuplicates ==
    ASSUME NEW h, IsHist(h), NEW r, NEW p \in BOOLEAN, Backing(h, r, p),
           NEW n \in S3PAs, NEW x \in S3PAs, x # n, Live(h[1]) = {n, x}, h[1][n].keys # {}, h[1][x].keys = {},
           NEW r2, NEW d, d[1] = x, d[2] = h[1][x].rv,
           r2.pc = "recover", r2.n = n, r2.obj = h[1][n], r2.dups = {d}
    PROVE  Backing(h, r2, p)
<1>1. /\ 1 \in 1..Len(h) /\ Len(h) \in 1..Len(h) /\ End(h) = h[Len(h)] /\ Len(h) \in Nat
      /\ HistInv(h) /\ Ordered(h)
  BY DEF IsHist, End, Backing, HistInv
<1>2. h[1][n].live /\ h[1][x].live /\ n # Nil
  BY NilAssumption DEF Live
<1>3. {r2.n} \cup {e[1] : e \in r2.dups} = {n, x}
  OBVIOUS
<1>4. HandInv(h, r2)
  <2>1. End(h)[n].live => InAll(h, n)
    BY <1>1, <1>2, ListedInHand
  <2>2. OthersUsed(h, {n, x})
    BY <1>1, ListedInHand
  <2>. QED
    BY <1>2, <1>3, <2>1, <2>2 DEF HandInv
<1>5. DupInv(h, r2)
  <2>1. ASSUME End(h)[x].live, End(h)[x].rv = h[1][x].rv, NEW i \in 1..Len(h)
        PROVE  h[i][x].live /\ h[i][x].keys = {}
    <3>1. h[i][x].live /\ h[Len(h)][x].live
      BY <1>1, <1>2, <2>1, ListedInHand DEF InAll
    <3>2. h[1][x].rv \in Nat /\ h[i][x].rv \in Nat
      BY <1>1 DEF IsHist, S3PA
    <3>3. i = 1 \/ (1 < i /\ h[1][x].rv <= h[i][x].rv)
      BY <1>1, <1>2, <3>1 DEF Ordered
    <3>4. i = Len(h) \/ (i < Len(h) /\ h[i][x].rv <= h[Len(h)][x].rv)
      BY <1>1, <3>1 DEF Ordered
    <3>5. h[i][x].rv = h[1][x].rv
      BY <1>1, <2>1, <3>2, <3>3, <3>4
    <3>. QED
      BY <1>1, <1>2, <3>1, <3>3, <3>5 DEF Ordered
  <2>2. ASSUME End(h)[x].live PROVE h[1][x].rv \in Nat /\ h[1][x].rv <= End(h)[x].rv
    <3>1. h[1][x].rv \in Nat
      BY <1>1 DEF IsHist, S3PA
    <3>2. CASE Len(h) = 1
      BY <1>1, <3>1, <3>2
    <3>3. CASE 1 < Len(h)
      BY <1>1, <1>2, <2>2, <3>1, <3>3 DEF Ordered
    <3>4. Len(h) = 1 \/ 1 < Len(h)
      <4>1. Len(h) \in Nat /\ Len(h) > 0
        BY DEF IsHist
      <4>2. \A k \in Nat : k > 0 => k = 1 \/ 1 < k
        OBVIOUS
      <4>. QED
        BY <4>1, <4>2
    <3>. QED
      BY <3>2, <3>3, <3>4
  <2>. QED
    BY <1>2, <2>1, <2>2 DEF DupInv
<1>6. PendingInv(h, r2, p)
  <2>. SUFFICES ASSUME p PROVE PendingInv(h, r2, p)
    BY DEF PendingInv
  <2>1. PICK b \in S3PAs : End(h)[b].live /\ LastOfThose(h, b)
    BY DEF Backing, PendingInv
  <2>2. b = x => End(h)[n].live
    BY <1>1, <1>2, <2>1 DEF LastOfThose
  <2>. QED
    BY <2>1, <2>2 DEF PendingInv
<1>. QED
  BY <1>1, <1>4, <1>5, <1>6 DEF Backing

(* There are no more: two S3PAs without Mountpoint Pods do not exist. *)
LEMMA OneDuplicate ==
    ASSUME NEW s, \A x, y \in S3PAs : s[x].live /\ s[y].live /\ s[x].keys = {} /\ s[y].keys = {} => x = y,
           SeveralIn(Live(s)), NEW n \in S3PAs \cup {Nil},
           IF n = Nil THEN {x \in Live(s) : s[x].keys # {}} = {} ELSE {x \in Live(s) : s[x].keys # {}} = {n}
    PROVE  n \in S3PAs /\ \E x \in S3PAs : /\ x # n /\ Live(s) = {n, x} /\ s[n].keys # {} /\ s[x].keys = {}
                                           /\ {y \in Live(s) : s[y].keys = {}} = {x}
<1>1. PICK a \in Live(s), b \in Live(s) : a # b
  BY DEF SeveralIn
<1>2. a \in S3PAs /\ b \in S3PAs /\ a \in Live(s) /\ b \in Live(s) /\ s[a].live /\ s[b].live
  BY <1>1 DEF Live
<1>3. n # Nil
  <2>. SUFFICES ASSUME n = Nil PROVE FALSE
    OBVIOUS
  <2>1. {x \in Live(s) : s[x].keys # {}} = {}
    OBVIOUS
  <2>. QED
    BY <1>1, <1>2, <2>1
<1>4. {x \in Live(s) : s[x].keys # {}} = {n} /\ n \in Live(s) /\ s[n].keys # {} /\ n \in S3PAs
  BY <1>3
<1>5. PICK x \in Live(s) : x # n
  BY <1>1
<1>6. x \in S3PAs /\ s[x].live /\ s[x].keys = {}
  BY <1>4, <1>5 DEF Live
<1>7. \A y \in Live(s) : y = n \/ y = x
  BY <1>4, <1>6 DEF Live
<1>8. Live(s) = {n, x}
  BY <1>4, <1>5, <1>7
<1>. QED
  BY <1>4, <1>5, <1>6, <1>8

-----------------------------------------------------------------------------
(* Each step keeps the expectation backed. *)
LEMMA BackedShape ==
    ASSUME TypeOK
    PROVE  /\ IsHist(hist) /\ Api = End(hist) /\ pending \in BOOLEAN /\ lost \in BOOLEAN
           /\ rec \in RecType /\ 1 \in 1..Len(hist)
BY DEF TypeOK, ClusterTypeOK, ReconcilerTypeOK, RecTypeOK, IsHist, Api, End

(* Whether an expectation is to be backed, with less to show when it is not *)
LEMMA BackExpects ==
    ASSUME NEW h, NEW r, NEW p \in BOOLEAN, Backing(h, r, p), NEW p2 \in BOOLEAN, p2 => p
    PROVE  Backing(h, r, p2)
BY DEF Backing, PendingInv

LEMMA BackedListed ==
    ASSUME TypeOK, NEW p \in BOOLEAN, NEW p2 \in BOOLEAN, StepExpects(p, p2), Backed(p),
           NEW w \in Workloads, ReconcileWorkload(w), ~lost'
    PROVE  Backing(hist', rec', p2) /\ hist' = hist /\ ~lost
<1>0. IsHist(hist) /\ 1 \in 1..Len(hist) /\ Cached = hist[1]
  BY BackedShape DEF Cached
<1>1. UNCHANGED <<hist, pending, lost>>
  BY DEF ReconcileWorkload, ReconcileNotFound, ReconcileFindsNone, ReconcileFindsOne,
         ReconcileFindsDuplicates, ReconcileGivesUpOnDuplicates, Start
<1>2. Backing(hist, rec, p) /\ (p2 => p)
  BY <1>1 DEF Backed, StepExpects
<1>. SUFFICES Backing(hist, rec', p)
  BY <1>1, <1>2, BackExpects
<1>3. ASSUME NEW pc, NEW n, NEW dups, Start(w, pc, n, dups)
      PROVE  rec'.pc = pc /\ rec'.n = n /\ rec'.dups = dups /\ (n # Nil => rec'.obj = hist[1][n])
  BY <1>0, <1>3 DEF Start
<1>4. CASE ReconcileNotFound(w) \/ ReconcileGivesUpOnDuplicates(w)
  BY <1>2, <1>4 DEF ReconcileNotFound, ReconcileGivesUpOnDuplicates
<1>5. CASE ReconcileFindsNone(w)
  <2>1. Live(hist[1]) = {} /\ rec'.pc = "listed" /\ rec'.n = Nil /\ rec'.dups = {}
    BY <1>0, <1>3, <1>5 DEF ReconcileFindsNone
  <2>. QED
    BY <1>0, <1>2, <2>1, BackListsNone
<1>6. CASE ReconcileFindsOne(w)
  <2>1. PICK n \in S3PAs : Live(hist[1]) = {n} /\ Start(w, "listed", n, {})
    BY <1>0, <1>6 DEF ReconcileFindsOne
  <2>2. rec'.pc = "listed" /\ rec'.n = n /\ rec'.dups = {} /\ rec'.obj = hist[1][n]
    BY <1>3, <2>1, NilAssumption
  <2>. QED
    BY <1>0, <1>2, <2>1, <2>2, BackListsOne
<1>7. CASE ReconcileFindsDuplicates(w)
  <2>1. PICK n \in S3PAs \cup {Nil} :
          /\ IF n = Nil THEN WithMountpointPods = {} ELSE WithMountpointPods = {n}
          /\ Start(w, "recover", n, {<<d, Cached[d].rv>> : d \in NoMountpointPods})
    BY <1>7 DEF ReconcileFindsDuplicates
  <2>2. /\ WithMountpointPods = {x \in Live(hist[1]) : hist[1][x].keys # {}}
        /\ NoMountpointPods = {x \in Live(hist[1]) : hist[1][x].keys = {}}
        /\ SeveralIn(Live(hist[1]))
    BY <1>0, <1>7 DEF WithMountpointPods, NoMountpointPods, ReconcileFindsDuplicates
  <2>3. \A x, y \in S3PAs : hist[1][x].live /\ hist[1][y].live /\ hist[1][x].keys = {}
            /\ hist[1][y].keys = {} => x = y
    BY <1>0, <1>2 DEF Backing, HistInv, OneEmpty
  <2>4. /\ n \in S3PAs
        /\ \E x \in S3PAs : /\ x # n /\ Live(hist[1]) = {n, x} /\ hist[1][n].keys # {} /\ hist[1][x].keys = {}
                            /\ {y \in Live(hist[1]) : hist[1][y].keys = {}} = {x}
    <3>1. IF n = Nil THEN {x \in Live(hist[1]) : hist[1][x].keys # {}} = {}
                     ELSE {x \in Live(hist[1]) : hist[1][x].keys # {}} = {n}
      BY <2>1, <2>2
    <3>. QED
      BY <2>2, <2>3, <3>1, OneDuplicate
  <2>5. PICK x \in S3PAs : /\ x # n /\ Live(hist[1]) = {n, x} /\ hist[1][n].keys # {} /\ hist[1][x].keys = {}
                           /\ NoMountpointPods = {x}
    BY <2>2, <2>4
  <2>6. rec'.pc = "recover" /\ rec'.n = n /\ rec'.obj = hist[1][n] /\ rec'.dups = {<<x, hist[1][x].rv>>}
    BY <1>0, <1>3, <2>1, <2>4, <2>5, NilAssumption
  <2>7. PICK d : d[1] = x /\ d[2] = hist[1][x].rv /\ rec'.dups = {d}
    <3>. DEFINE d == <<x, hist[1][x].rv>>
    <3>1. d[1] = x /\ d[2] = hist[1][x].rv /\ rec'.dups = {d}
      BY <2>6
    <3>. QED
      BY <3>1
  <2>8. n \in S3PAs
    BY <2>4
  <2>. QED
    BY <1>0, <1>2, <2>5, <2>6, <2>7, <2>8, BackListsDuplicates
<1>. QED
  BY <1>4, <1>5, <1>6, <1>7 DEF ReconcileWorkload

(* A write that succeeds; one that fails has no effect unless its reply is lost. *)
LEMMA BackedUpdate ==
    ASSUME TypeOK, NEW p \in BOOLEAN, Backing(hist, rec, p), rec.pc \notin {"idle", "recover"},
           rec.n \in S3PAs, NEW obj, obj.live, obj.rv \in Nat, UpdateOk(rec.n, obj),
           [obj EXCEPT !.rv = @ + 1].live, [obj EXCEPT !.rv = @ + 1].rv = obj.rv + 1
    PROVE  Backing(hist', rec, p)
<1>1. IsHist(hist) /\ Api = End(hist)
  BY BackedShape
<1>2. /\ End(hist)[rec.n].live /\ End(hist)[rec.n].rv = obj.rv
      /\ hist' = With(hist, rec.n, [obj EXCEPT !.rv = @ + 1])
  BY <1>1 DEF UpdateOk, CommitUpdate, VersionMatches, Commit, With
<1>. DEFINE o == [obj EXCEPT !.rv = @ + 1]
<1>3. o.live /\ o.rv \in Nat /\ o.rv > End(hist)[rec.n].rv
  BY <1>2
<1>. HIDE DEF o
<1>4. Backing(With(hist, rec.n, o), rec, p)
  BY <1>1, <1>2, <1>3, BackUpdates
<1>. QED
  BY <1>2, <1>4 DEF o

LEMMA BackedFails ==
    ASSUME NEW n, NEW obj, NEW rv, UpdateFails(n, obj) \/ DeleteFails(n, rv), ~lost'
    PROVE  hist' = hist
BY DEF UpdateFails, DeleteFails

(* What is written of the S3PA in hand *)
LEMMA HandWritten ==
    ASSUME NEW o \in S3PA, o.live, NEW m \in MountpointPods, NEW w \in Workloads
    PROVE  \A obj \in {AppendWorkload(o, m, w), FilterWorkload(o, m, w), DropKey(o, m)} :
              /\ obj.live /\ obj.rv \in Nat
              /\ [obj EXCEPT !.rv = @ + 1].live /\ [obj EXCEPT !.rv = @ + 1].rv = obj.rv + 1
BY DEF AppendWorkload, FilterWorkload, DropKey, S3PA

LEMMA BackedReconcile ==
    ASSUME TypeOK, NEW p \in BOOLEAN, NEW p2 \in BOOLEAN, StepExpects(p, p2), Backed(p),
           ReconcileStep(FreshMPs, FreshS3PAs), ~lost'
    PROVE  Backing(hist', rec', p2)
<1>. USE DEF At
<1>0. /\ IsHist(hist) /\ pending \in BOOLEAN /\ rec \in RecType /\ RecTypeOK /\ Api = End(hist)
  BY BackedShape DEF TypeOK, ReconcilerTypeOK
<1>1. ~lost
  BY DEF ReconcileStep, DeleteDuplicate, HandleExistingS3PodAttachment, AssignWorkload,
         HandleNewS3PodAttachment, SpawnMountpointPod, UpdateWithSpawned, CreateS3PodAttachment,
         CleanupSpawned, HandleInactivePod, RemoveWorkload, AnnotateUnusedMP, RemoveUnusedMP,
         RemoveS3PodAttachment, UpdateOk, UpdateFails, DeleteOk, DeleteFails
<1>2. Backing(hist, rec, p)
  BY <1>1 DEF Backed
<1>s. (p2 => pending') /\ (pending /\ p2 => p) /\ (UNCHANGED pending \/ pending' = FALSE => (p2 => p))
  BY DEF StepExpects
<1>3. /\ p => rec.pc \notin {"assign", "spawn", "update", "create", "cleanup"}
      /\ rec.pc # "idle" /\ rec.n # Nil => rec.obj.live
  BY <1>2 DEF Backing, PendingInv, HandInv
<1>b. ASSUME NEW pc \in RecPCs, GoTo(pc)
      PROVE  rec'.n = rec.n /\ rec'.pc = pc /\ rec'.obj = rec.obj /\ rec'.dups = rec.dups
  BY <1>0, <1>b DEF GoTo, RecType
<1>c. ASSUME DontRequeue \/ Requeue PROVE rec' = RecIdle
  BY <1>c DEF DontRequeue, Requeue
<1>d. ASSUME hist' = hist, rec' = RecIdle, UNCHANGED pending \/ pending' = FALSE
      PROVE  Backing(hist', rec', p2)
  <2>1. p2 => p
    BY <1>s, <1>d
  <2>. QED
    BY <1>0, <1>2, <1>d, <2>1, BackIdle
<1>e. ASSUME hist' = hist, UNCHANGED pending \/ pending' = FALSE,
             rec.pc \notin {"idle", "recover"}, rec'.pc \notin {"idle", "recover"},
             rec'.pc = "create" => rec.n = Nil,
             rec'.n = rec.n, rec'.obj = rec.obj, rec'.dups = rec.dups,
             p2 => rec'.pc \notin {"assign", "spawn", "update", "create", "cleanup"}
      PROVE  Backing(hist', rec', p2)
  <2>1. p2 => p
    BY <1>s, <1>e
  <2>. QED
    BY <1>0, <1>2, <1>e, <2>1, BackMoves
<1>4. ASSUME NEW d \in rec.dups, DeleteDuplicate(d) PROVE Backing(hist', rec', p2)
  <2>1. d[1] \in S3PAs /\ rec.n \in S3PAs \cup {Nil} /\ rec.pc = "recover"
    BY <1>0, <1>4 DEF RecType, DeleteDuplicate
  <2>2. CASE DeleteFails(d[1], d[2]) /\ Requeue /\ UNCHANGED pending
    <3>1. hist' = hist
      BY <2>2, BackedFails
    <3>. QED
      BY <1>c, <1>d, <2>2, <3>1
  <2>3. CASE /\ DeleteOk(d[1], d[2])
             /\ rec' = [rec EXCEPT !.dups = @ \ {d}, !.pc = IF rec.dups = {d} THEN "listed" ELSE @]
             /\ pending' = (pending /\ ~(rec.dups = {d} /\ rec.n = Nil))
    <3>1. End(hist)[d[1]].live /\ End(hist)[d[1]].rv = d[2] /\ hist' = With(hist, d[1], NoS3PA)
      BY <1>0, <2>3 DEF DeleteOk, CommitDelete, VersionMatches, Commit, With
    <3>2. rec.dups = {d} /\ rec.n # Nil
      <4>1. PICK e \in rec.dups : rec.dups = {e}
        BY <1>2, <2>1 DEF Backing, DupInv
      <4>. QED
        BY <1>2, <2>1, <4>1 DEF Backing, DupInv
    <3>3. rec'.pc = "listed" /\ rec'.n = rec.n /\ rec'.obj = rec.obj /\ rec'.dups = {}
      BY <1>0, <2>3, <3>2 DEF RecType
    <3>4. p2 => p
      BY <1>s, <2>3
    <3>5. Backing(With(hist, d[1], NoS3PA), rec', p)
      BY <1>0, <1>2, <2>1, <3>1, <3>3, BackDeletesDuplicate
    <3>. QED
      BY <3>1, <3>4, <3>5, BackExpects
  <2>. QED
    BY <1>4, <2>2, <2>3 DEF DeleteDuplicate
<1>5. CASE HandleExistingS3PodAttachment
  <2>1. rec.pc = "listed" /\ rec.n # Nil /\ pending' = FALSE /\ hist' = hist
    BY <1>5 DEF HandleExistingS3PodAttachment
  <2>2. CASE DontRequeue
    BY <1>c, <1>d, <2>1, <2>2
  <2>3. CASE \E m \in rec.obj.keys : rec' = [rec EXCEPT !.pc = "assign", !.m = m]
    <3>1. rec'.n = rec.n /\ rec'.pc = "assign" /\ rec'.obj = rec.obj /\ rec'.dups = rec.dups
      BY <1>0, <2>3 DEF RecType
    <3>. QED
      BY <1>e, <1>s, <2>1, <3>1
  <2>4. CASE GoTo("spawn")
    BY <1>b, <1>e, <1>s, <2>1, <2>4 DEF RecPCs
  <2>. QED
    BY <1>5, <2>2, <2>3, <2>4 DEF HandleExistingS3PodAttachment
<1>6. CASE AssignWorkload
  <2>1. rec.n \in S3PAs /\ rec.pc = "assign" /\ rec.m \in MountpointPods /\ rec.w \in Workloads
    BY <1>0, <1>6 DEF AssignWorkload, RecTypeOK
  <2>2. rec' = RecIdle /\ UNCHANGED pending
    BY <1>6, <1>c DEF AssignWorkload
  <2>. DEFINE obj == AppendWorkload(rec.obj, rec.m, rec.w)
  <2>3. CASE UpdateFails(rec.n, obj)
    BY <1>d, <2>2, <2>3, BackedFails
  <2>4. CASE UpdateOk(rec.n, obj)
    <3>1. rec.obj \in S3PA /\ rec.obj.live
      BY <1>0, <1>3, <2>1, NilAssumption DEF RecType
    <3>2. /\ obj.live /\ obj.rv \in Nat
          /\ [obj EXCEPT !.rv = @ + 1].live /\ [obj EXCEPT !.rv = @ + 1].rv = obj.rv + 1
      BY <2>1, <3>1, HandWritten
    <3>. HIDE DEF obj
    <3>3. Backing(hist', rec, p)
      BY <1>2, <2>1, <2>4, <3>2, BackedUpdate
    <3>. QED
      BY <1>s, <2>2, <3>3, BackIdle
  <2>. QED
    BY <1>6, <2>3, <2>4 DEF AssignWorkload
<1>7. CASE HandleNewS3PodAttachment
  <2>1. rec.pc = "listed" /\ rec.n = Nil /\ UNCHANGED pending /\ hist' = hist
    BY <1>7 DEF HandleNewS3PodAttachment
  <2>2. CASE DontRequeue \/ Requeue
    BY <1>c, <1>d, <2>1, <2>2
  <2>3. CASE ~pending /\ GoTo("spawn")
    BY <1>b, <1>e, <1>s, <2>1, <2>3 DEF RecPCs
  <2>. QED
    BY <1>7, <2>2, <2>3 DEF HandleNewS3PodAttachment
<1>8. CASE SpawnMountpointPod(FreshMPs)
  <2>1. rec.pc = "spawn" /\ UNCHANGED pending /\ hist' = hist
    BY <1>8 DEF SpawnMountpointPod
  <2>2. CASE Requeue
    BY <1>c, <1>d, <2>1, <2>2
  <2>3. CASE \E m \in FreshMPs :
               rec' = [rec EXCEPT !.pc = IF rec.n = Nil THEN "create" ELSE "update", !.m = m]
    <3>1. /\ rec'.n = rec.n /\ rec'.pc \in {"create", "update"} /\ (rec'.pc = "create" => rec.n = Nil)
          /\ rec'.obj = rec.obj /\ rec'.dups = rec.dups
      BY <1>0, <2>3 DEF RecType
    <3>2. ~p2
      BY <1>3, <1>s, <2>1
    <3>. QED
      BY <1>e, <2>1, <3>1, <3>2
  <2>. QED
    BY <1>8, <2>2, <2>3 DEF SpawnMountpointPod
<1>9. CASE UpdateWithSpawned
  <2>1. rec.n \in S3PAs /\ rec.pc = "update" /\ rec.m \in MountpointPods /\ rec.w \in Workloads
    BY <1>0, <1>9 DEF UpdateWithSpawned, RecTypeOK
  <2>2. UNCHANGED pending
    BY <1>9 DEF UpdateWithSpawned
  <2>. DEFINE obj == AppendWorkload(rec.obj, rec.m, rec.w)
  <2>3. CASE UpdateFails(rec.n, obj) /\ GoTo("cleanup")
    <3>1. hist' = hist /\ ~p2
      BY <1>3, <1>s, <2>1, <2>2, <2>3, BackedFails
    <3>2. rec'.n = rec.n /\ rec'.pc = "cleanup" /\ rec'.obj = rec.obj /\ rec'.dups = rec.dups
      BY <1>b, <2>3 DEF RecPCs
    <3>. QED
      BY <1>e, <2>1, <2>2, <3>1, <3>2
  <2>4. CASE UpdateOk(rec.n, obj) /\ DontRequeue
    <3>1. rec.obj \in S3PA /\ rec.obj.live
      BY <1>0, <1>3, <2>1, NilAssumption DEF RecType
    <3>2. /\ obj.live /\ obj.rv \in Nat
          /\ [obj EXCEPT !.rv = @ + 1].live /\ [obj EXCEPT !.rv = @ + 1].rv = obj.rv + 1
      BY <2>1, <3>1, HandWritten
    <3>. HIDE DEF obj
    <3>3. Backing(hist', rec, p)
      BY <1>2, <2>1, <2>4, <3>2, BackedUpdate
    <3>. QED
      BY <1>c, <1>s, <2>2, <2>4, <3>3, BackIdle
  <2>. QED
    BY <1>9, <2>3, <2>4 DEF UpdateWithSpawned
<1>10. CASE CreateS3PodAttachment(FreshS3PAs)
  <2>1. rec.pc = "create" /\ rec.m \in MountpointPods /\ ~p
    BY <1>0, <1>3, <1>10 DEF CreateS3PodAttachment, RecTypeOK
  <2>2. ASSUME NEW n \in FreshS3PAs, Commit(n, NewS3PA), pending' = TRUE, Requeue
        PROVE  Backing(hist', rec', p2)
    <3>1. n \in S3PAs /\ \A i \in 1..Len(hist) : ~hist[i][n].live
      BY <2>2 DEF FreshS3PAs
    <3>2. NewS3PA.live /\ NewS3PA.keys # {}
      <4>1. [NoS3PA EXCEPT !.live = TRUE, !.rv = 1] \in S3PA
        BY NoS3PAType DEF S3PA
      <4>2. [NoS3PA EXCEPT !.live = TRUE, !.rv = 1].live
        BY DEF NoS3PA
      <4>. QED
        BY <2>1, <4>1, <4>2 DEF NewS3PA, AppendWorkload, S3PA
    <3>3. hist' = With(hist, n, NewS3PA)
      BY <1>0, <2>2 DEF Commit, With
    <3>4. Backing(With(hist, n, NewS3PA), RecIdle, TRUE)
      BY <1>0, <1>2, <2>1, <3>1, <3>2, BackCreates
    <3>. QED
      BY <1>c, <2>2, <3>3, <3>4, BackExpects
  <2>3. CASE GoTo("cleanup") /\ UNCHANGED <<hist, pending>>
    <3>1. rec'.n = rec.n /\ rec'.pc = "cleanup" /\ rec'.obj = rec.obj /\ rec'.dups = rec.dups
      BY <1>b, <2>3 DEF RecPCs
    <3>. QED
      BY <1>e, <1>s, <2>1, <2>3, <3>1
  <2>. QED
    BY <1>10, <2>2, <2>3 DEF CreateS3PodAttachment
<1>11. CASE CleanupSpawned
  BY <1>11, <1>c, <1>d DEF CleanupSpawned
<1>12. CASE HandleInactivePod
  <2>1. rec.pc = "listed" /\ UNCHANGED pending /\ hist' = hist
    BY <1>12 DEF HandleInactivePod
  <2>2. CASE DontRequeue
    BY <1>c, <1>d, <2>1, <2>2
  <2>3. CASE GoTo("removeUID") \/ GoTo("removeMPs")
    <3>1. /\ rec'.n = rec.n /\ rec'.pc \in {"removeUID", "removeMPs"}
          /\ rec'.obj = rec.obj /\ rec'.dups = rec.dups
      BY <1>b, <2>3 DEF RecPCs
    <3>. QED
      BY <1>e, <2>1, <3>1
  <2>. QED
    BY <1>12, <2>2, <2>3 DEF HandleInactivePod
<1>f. ASSUME rec.pc \in {"removeUID", "removeKey"}, NEW obj, UpdateOk(rec.n, obj), UNCHANGED pending,
             obj.live, obj.rv \in Nat,
             [obj EXCEPT !.rv = @ + 1].live, [obj EXCEPT !.rv = @ + 1].rv = obj.rv + 1,
             rec'.n = rec.n, rec'.pc = "removeMPs", rec'.obj = [obj EXCEPT !.rv = @ + 1], rec'.dups = rec.dups
      PROVE  Backing(hist', rec', p2)
  <2>1. rec.n \in S3PAs /\ rec.obj.live
    BY <1>0, <1>3, <1>f, NilAssumption DEF RecTypeOK
  <2>2. Backing(hist', rec, p)
    BY <1>2, <1>f, <2>1, BackedUpdate
  <2>3. /\ rec'.n = rec.n /\ (rec.obj.live => rec'.obj.live) /\ rec'.dups = rec.dups /\ rec.n # Nil
        /\ rec.pc \notin {"idle", "recover"} /\ rec'.pc = "removeMPs"
    BY <1>f, <2>1, NilAssumption
  <2>a. p2 => p
    BY <1>f, <1>s
  <2>4. Backing(hist', rec', p2)
    BY <2>2, <2>3, <2>a, BackMoves
  <2>. QED
    BY <2>4
<1>13. CASE RemoveWorkload
  <2>1. rec.n \in S3PAs /\ rec.pc = "removeUID" /\ UNCHANGED pending /\ rec.w \in Workloads
    BY <1>0, <1>13 DEF RemoveWorkload, RecTypeOK
  <2>2. PICK m \in MountpointPods :
          \/ /\ UpdateOk(rec.n, FilterWorkload(rec.obj, m, rec.w))
             /\ rec' = [rec EXCEPT !.pc = "removeMPs",
                                   !.obj = [FilterWorkload(rec.obj, m, rec.w) EXCEPT !.rv = @ + 1]]
          \/ UpdateFails(rec.n, FilterWorkload(rec.obj, m, rec.w)) /\ Requeue
    BY <1>13 DEF RemoveWorkload
  <2>. DEFINE obj == FilterWorkload(rec.obj, m, rec.w)
  <2>3. CASE UpdateFails(rec.n, obj) /\ Requeue
    BY <1>c, <1>d, <2>1, <2>3, BackedFails
  <2>4. CASE UpdateOk(rec.n, obj) /\ rec' = [rec EXCEPT !.pc = "removeMPs", !.obj = [obj EXCEPT !.rv = @ + 1]]
    <3>1. rec.obj \in S3PA /\ rec.obj.live
      BY <1>0, <1>3, <2>1, NilAssumption DEF RecType
    <3>2. /\ obj.live /\ obj.rv \in Nat
          /\ [obj EXCEPT !.rv = @ + 1].live /\ [obj EXCEPT !.rv = @ + 1].rv = obj.rv + 1
      BY <2>1, <3>1, HandWritten
    <3>. HIDE DEF obj
    <3>3. /\ rec'.n = rec.n /\ rec'.pc = "removeMPs" /\ rec'.dups = rec.dups
          /\ rec'.obj = [obj EXCEPT !.rv = @ + 1]
      BY <1>0, <2>4 DEF RecType
    <3>. QED
      BY <1>f, <2>1, <2>4, <3>2, <3>3
  <2>. QED
    BY <2>2, <2>3, <2>4
<1>14. ASSUME NEW m \in MountpointPods, AnnotateUnusedMP(m) PROVE Backing(hist', rec', p2)
  <2>1. rec.pc = "removeMPs" /\ UNCHANGED pending /\ hist' = hist
    BY <1>14 DEF AnnotateUnusedMP
  <2>2. CASE Requeue
    BY <1>c, <1>d, <2>1, <2>2
  <2>3. CASE rec' = [rec EXCEPT !.pc = "removeKey", !.m = m]
    <3>1. rec'.n = rec.n /\ rec'.pc = "removeKey" /\ rec'.obj = rec.obj /\ rec'.dups = rec.dups
      BY <1>0, <2>3 DEF RecType
    <3>. QED
      BY <1>e, <2>1, <3>1
  <2>. QED
    BY <1>14, <2>2, <2>3 DEF AnnotateUnusedMP
<1>15. CASE RemoveUnusedMP
  <2>1. rec.n \in S3PAs /\ rec.pc = "removeKey" /\ UNCHANGED pending /\ rec.m \in MountpointPods /\ rec.w \in Workloads
    BY <1>0, <1>15 DEF RemoveUnusedMP, RecTypeOK
  <2>. DEFINE obj == DropKey(rec.obj, rec.m)
  <2>2. CASE UpdateFails(rec.n, obj) /\ Requeue
    BY <1>c, <1>d, <2>1, <2>2, BackedFails
  <2>3. CASE /\ UpdateOk(rec.n, obj)
             /\ rec' = [rec EXCEPT !.pc = "removeMPs", !.m = Nil, !.obj = [obj EXCEPT !.rv = @ + 1]]
    <3>1. rec.obj \in S3PA /\ rec.obj.live
      BY <1>0, <1>3, <2>1, NilAssumption DEF RecType
    <3>2. /\ obj.live /\ obj.rv \in Nat
          /\ [obj EXCEPT !.rv = @ + 1].live /\ [obj EXCEPT !.rv = @ + 1].rv = obj.rv + 1
      BY <2>1, <3>1, HandWritten
    <3>. HIDE DEF obj
    <3>3. /\ rec'.n = rec.n /\ rec'.pc = "removeMPs" /\ rec'.dups = rec.dups
          /\ rec'.obj = [obj EXCEPT !.rv = @ + 1]
      BY <1>0, <2>3 DEF RecType
    <3>. QED
      BY <1>f, <2>1, <2>3, <3>2, <3>3
  <2>. QED
    BY <1>15, <2>2, <2>3 DEF RemoveUnusedMP
<1>16. CASE RemoveS3PodAttachment
  <2>1. rec.n \in S3PAs /\ rec.pc = "removeMPs" /\ rec' = RecIdle
    BY <1>0, <1>16, <1>c DEF RemoveS3PodAttachment, RecTypeOK
  <2>2. CASE UNCHANGED <<hist, pending>>
    BY <1>d, <2>1, <2>2
  <2>3. CASE DeleteFails(rec.n, rec.obj.rv) /\ UNCHANGED pending
    BY <1>d, <2>1, <2>3, BackedFails
  <2>4. CASE DeleteOk(rec.n, rec.obj.rv) /\ pending' = FALSE
    <3>1. End(hist)[rec.n].live /\ hist' = With(hist, rec.n, NoS3PA)
      BY <1>0, <2>4 DEF DeleteOk, CommitDelete, VersionMatches, Commit, With
    <3>2. Backing(With(hist, rec.n, NoS3PA), RecIdle, FALSE)
      BY <1>0, <1>2, <2>1, <3>1, BackDeletes
    <3>. QED
      BY <1>s, <2>1, <2>4, <3>1, <3>2
  <2>. QED
    BY <1>16, <2>2, <2>3, <2>4 DEF RemoveS3PodAttachment
<1>. QED
  BY <1>4, <1>5, <1>6, <1>7, <1>8, <1>9, <1>10, <1>11, <1>12, <1>13, <1>14, <1>15, <1>16 DEF ReconcileStep

(* What the reconciler writes leaves the cleaner's copies as they are. *)
LEMMA CleanReconcile ==
    ASSUME TypeOK, NEW p, Backed(p), ReconcileStep(FreshMPs, FreshS3PAs), UNCHANGED cl, ~lost'
    PROVE  CleanInv(hist', cl')
<1>. USE DEF At
<1>0. /\ IsHist(hist) /\ RecTypeOK /\ rec \in RecType /\ Api = End(hist) /\ ~NoS3PA.live
      /\ cl.pc = "s3pa" => cl.n \in S3PAs
  BY BackedShape DEF TypeOK, ReconcilerTypeOK, CleanerTypeOK, NoS3PA
<1>1. ~lost
  BY DEF ReconcileStep, DeleteDuplicate, HandleExistingS3PodAttachment, AssignWorkload,
         HandleNewS3PodAttachment, SpawnMountpointPod, UpdateWithSpawned, CreateS3PodAttachment,
         CleanupSpawned, HandleInactivePod, RemoveWorkload, AnnotateUnusedMP, RemoveUnusedMP,
         RemoveS3PodAttachment, UpdateOk, UpdateFails, DeleteOk, DeleteFails
<1>2. Backing(hist, rec, p) /\ CleanInv(hist, cl)
  BY <1>1 DEF Backed
<1>a. ASSUME hist' = hist PROVE CleanInv(hist', cl')
  BY <1>2, <1>a
<1>b. ASSUME NEW n \in S3PAs, NEW obj, hist' = With(hist, n, obj),
             InAll(hist, n) \/ ~obj.live \/ (n # cl.n /\ ~cl.list[n].live)
      PROVE  CleanInv(hist', cl')
  <2>1. CleanInv(With(hist, n, obj), cl)
    BY <1>0, <1>2, <1>b, CleanWith
  <2>. QED
    BY <1>b, <2>1
<1>c. ASSUME rec.n \in S3PAs, rec.pc # "idle", NEW obj, UpdateOk(rec.n, obj) \/ UpdateFails(rec.n, obj)
      PROVE  CleanInv(hist', cl')
  <2>1. CASE UpdateFails(rec.n, obj)
    BY <1>a, <2>1 DEF UpdateFails
  <2>2. CASE UpdateOk(rec.n, obj)
    <3>1. /\ End(hist)[rec.n].live
          /\ hist' = With(hist, rec.n, [obj EXCEPT !.rv = @ + 1])
      BY <1>0, <2>2 DEF UpdateOk, CommitUpdate, VersionMatches, Commit, With
    <3>2. InAll(hist, rec.n)
      BY <1>2, <1>c, <3>1, NilAssumption DEF Backing, HandInv
    <3>. QED
      BY <1>b, <1>c, <3>1, <3>2
  <2>. QED
    BY <1>c, <2>1, <2>2
<1>d. ASSUME NEW n \in S3PAs, NEW rv, DeleteOk(n, rv) \/ DeleteFails(n, rv)
      PROVE  CleanInv(hist', cl')
  <2>1. CASE DeleteFails(n, rv)
    BY <1>a, <2>1 DEF DeleteFails
  <2>2. CASE DeleteOk(n, rv)
    <3>1. hist' = With(hist, n, NoS3PA)
      BY <1>0, <2>2 DEF DeleteOk, CommitDelete, Commit, With
    <3>. QED
      BY <1>0, <1>b, <3>1
  <2>. QED
    BY <1>d, <2>1, <2>2
<1>3. ASSUME NEW d \in rec.dups, DeleteDuplicate(d) PROVE CleanInv(hist', cl')
  <2>1. d[1] \in S3PAs /\ (DeleteOk(d[1], d[2]) \/ DeleteFails(d[1], d[2]))
    BY <1>0, <1>3 DEF RecType, DeleteDuplicate
  <2>. QED
    BY <1>d, <2>1
<1>4. CASE AssignWorkload
  BY <1>0, <1>4, <1>c DEF AssignWorkload, RecTypeOK
<1>5. CASE UpdateWithSpawned
  BY <1>0, <1>5, <1>c DEF UpdateWithSpawned, RecTypeOK
<1>6. CASE CreateS3PodAttachment(FreshS3PAs)
  <2>1. PICK n \in FreshS3PAs : Commit(n, NewS3PA) \/ UNCHANGED hist
    BY <1>6 DEF CreateS3PodAttachment
  <2>2. n \in S3PAs /\ n # cl.n /\ ~cl.list[n].live
    BY DEF FreshS3PAs
  <2>3. CASE Commit(n, NewS3PA)
    <3>1. hist' = With(hist, n, NewS3PA)
      BY <1>0, <2>3 DEF Commit, With
    <3>. QED
      BY <1>b, <2>2, <3>1
  <2>. QED
    BY <1>a, <2>1, <2>3
<1>7. CASE RemoveWorkload
  BY <1>0, <1>7, <1>c DEF RemoveWorkload, RecTypeOK
<1>8. CASE RemoveUnusedMP
  BY <1>0, <1>8, <1>c DEF RemoveUnusedMP, RecTypeOK
<1>9. CASE RemoveS3PodAttachment
  BY <1>0, <1>9, <1>a, <1>d DEF RemoveS3PodAttachment, RecTypeOK
<1>10. CASE HandleExistingS3PodAttachment \/ HandleNewS3PodAttachment \/ SpawnMountpointPod(FreshMPs)
            \/ CleanupSpawned \/ HandleInactivePod \/ \E m \in MountpointPods : AnnotateUnusedMP(m)
  BY <1>10, <1>a DEF HandleExistingS3PodAttachment, HandleNewS3PodAttachment, SpawnMountpointPod,
                     CleanupSpawned, HandleInactivePod, AnnotateUnusedMP
<1>. QED
  BY <1>3, <1>4, <1>5, <1>6, <1>7, <1>8, <1>9, <1>10 DEF ReconcileStep

(* What the cleaner writes, but for a S3PA deleted while one is expected,      *)
(* leaves the expectation backed.                                              *)
LEMMA BackedClean ==
    ASSUME TypeOK, NEW p \in BOOLEAN, NEW p2 \in BOOLEAN, StepExpects(p, p2), Backed(p), Clean, ForgetsExpectation => ~p, ~lost'
    PROVE  Backing(hist', rec', p2) /\ CleanInv(hist', cl')
<1>0. /\ IsHist(hist) /\ Api = End(hist) /\ ~NoS3PA.live /\ rec \in RecType /\ Cached = hist[1]
      /\ cl \in CleanerType /\ (cl.pc = "s3pa" => cl.n \in S3PAs)
      /\ UNCHANGED <<rec, pending>>
  BY BackedShape DEF TypeOK, CleanerTypeOK, NoS3PA, Cached, Clean, reconcilerVars
<1>1. ~lost
  BY DEF Clean, CleanerStep, CleanerListPods, CleanerListS3PAs, CleanerDone, FilterStale, CleanerAnnotate,
         CleanerWrite, UpdateOk, UpdateFails, DeleteOk, DeleteFails
<1>2. Backing(hist, rec, p) /\ CleanInv(hist, cl) /\ (p2 => p) /\ (p => pending)
  BY <1>0, <1>1 DEF Backed, StepExpects
<1>. SUFFICES Backing(hist', rec, p) /\ CleanInv(hist', cl')
  BY <1>0, <1>2, BackExpects
<1>3. CleanerIdle.pc = "idle" /\ \A n \in S3PAs : ~CleanerIdle.list[n].live
  BY <1>0 DEF CleanerIdle
<1>4. CASE CleanerListPods
  <2>1. hist' = hist /\ cl'.pc = "pods" /\ cl'.list = cl.list
    BY <1>0, <1>4 DEF CleanerListPods, CleanerType
  <2>. QED
    BY <1>2, <2>1 DEF CleanInv
<1>5. CASE CleanerListS3PAs
  <2>1. hist' = hist /\ cl'.pc = "loop" /\ cl'.list = hist[1]
    BY <1>0, <1>5 DEF CleanerListS3PAs, CleanerType
  <2>2. \A n \in S3PAs : hist[1][n].live /\ End(hist)[n].live => InAll(hist, n)
    BY <1>0, <1>2, ListedInHand DEF Backing
  <2>. QED
    BY <1>2, <2>1, <2>2 DEF CleanInv
<1>6. CASE CleanerDone
  <2>1. hist' = hist /\ cl' = CleanerIdle
    BY <1>6 DEF CleanerDone
  <2>. QED
    BY <1>2, <1>3, <2>1 DEF CleanInv
<1>7. ASSUME NEW n \in S3PAs, FilterStale(n) PROVE Backing(hist', rec, p) /\ CleanInv(hist', cl')
  <2>1. /\ hist' = hist /\ cl'.pc = "s3pa" /\ cl'.n = n /\ cl'.obj.live = cl.list[n].live
        /\ cl'.list = [cl.list EXCEPT ![n] = NoS3PA] /\ cl.list[n].live
    BY <1>0, <1>7 DEF FilterStale, CleanerType, S3PA, Live
  <2>2. \A o \in S3PAs : cl'.list[o].live => cl.list[o].live
    BY <1>0, <2>1 DEF CleanerType
  <2>. QED
    BY <1>2, <2>1, <2>2 DEF CleanInv
<1>b. ASSUME NextS3PA PROVE cl'.pc = "loop" /\ cl'.list = cl.list
  BY <1>0, <1>b DEF NextS3PA, CleanerType
<1>8. ASSUME NEW m \in MountpointPods, CleanerAnnotate(m)
      PROVE  Backing(hist', rec, p) /\ CleanInv(hist', cl')
  <2>1. hist' = hist
    BY <1>8 DEF CleanerAnnotate
  <2>2. CASE cl' = [cl EXCEPT !.obj = DropKey(@, m)]
    <3>1. cl'.pc = cl.pc /\ cl'.n = cl.n /\ cl'.list = cl.list /\ cl'.obj.live = cl.obj.live
      BY <1>0, <2>2 DEF CleanerType, DropKey, S3PA
    <3>. QED
      BY <1>2, <2>1, <3>1 DEF CleanInv
  <2>3. CASE NextS3PA
    BY <1>2, <1>b, <2>1, <2>3 DEF CleanInv
  <2>. QED
    BY <1>8, <2>2, <2>3 DEF CleanerAnnotate
<1>9. CASE CleanerWrite
  <2>1. cl.pc = "s3pa" /\ cl.n \in S3PAs /\ cl.obj \in S3PA /\ cl.obj.live /\ cl'.pc = "loop" /\ cl'.list = cl.list
    BY <1>0, <1>2, <1>9, <1>b DEF CleanerWrite, CleanerType, CleanInv
  <2>2. CASE hist' = hist
    BY <1>2, <2>1, <2>2 DEF CleanInv
  <2>3. ASSUME NEW obj, hist' = With(hist, cl.n, obj), End(hist)[cl.n].live,
               Backing(With(hist, cl.n, obj), rec, p)
        PROVE  Backing(hist', rec, p) /\ CleanInv(hist', cl')
    <3>1. InAll(hist, cl.n)
      BY <1>2, <2>1, <2>3 DEF CleanInv
    <3>2. CleanInv(With(hist, cl.n, obj), cl)
      BY <1>0, <1>2, <2>1, <3>1, CleanWith
    <3>. QED
      BY <2>1, <2>3, <3>2 DEF CleanInv
  <2>4. CASE DeleteOk(cl.n, cl.obj.rv)
    <3>1. End(hist)[cl.n].live /\ hist' = With(hist, cl.n, NoS3PA)
      BY <1>0, <2>4 DEF DeleteOk, CommitDelete, VersionMatches, Commit, With
    <3>2. InAll(hist, cl.n)
      BY <1>2, <2>1, <3>1 DEF CleanInv
    <3>3. ~p
      <4>1. Api[cl.n].live
        BY <1>0, <3>1
      <4>2. (Api')[cl.n] = NoS3PA
        <5>1. Api' = End(hist')
          BY DEF Api, End
        <5>. QED
          BY <1>0, <2>1, <3>1, <5>1, WithShape
      <4>. QED
        BY <1>0, <1>2, <2>1, <4>1, <4>2 DEF ForgetsExpectation
    <3>4. Backing(With(hist, cl.n, NoS3PA), rec, p)
      BY <1>0, <1>2, <2>1, <3>2, <3>3, BackCleans
    <3>. QED
      BY <2>3, <3>1, <3>4
  <2>5. CASE UpdateOk(cl.n, cl.obj) /\ cl.obj.keys # {}
    <3>1. /\ End(hist)[cl.n].live /\ End(hist)[cl.n].rv = cl.obj.rv
          /\ hist' = With(hist, cl.n, [cl.obj EXCEPT !.rv = @ + 1])
      BY <1>0, <2>5 DEF UpdateOk, CommitUpdate, VersionMatches, Commit, With
    <3>2. InAll(hist, cl.n)
      BY <1>2, <2>1, <3>1 DEF CleanInv
    <3>3. PICK obj : /\ obj = [cl.obj EXCEPT !.rv = @ + 1]
                     /\ obj.live /\ obj.keys # {} /\ obj.rv \in Nat /\ obj.rv > End(hist)[cl.n].rv
      BY <2>1, <2>5, <3>1 DEF S3PA
    <3>4. Backing(With(hist, cl.n, obj), rec, p)
      BY <1>0, <1>2, <2>1, <3>2, <3>3, BackCleans
    <3>. QED
      BY <2>3, <3>1, <3>3, <3>4
  <2>. QED
    BY <1>9, <2>2, <2>4, <2>5 DEF CleanerWrite, UpdateFails, DeleteFails
<1>. QED
  BY <1>4, <1>5, <1>6, <1>7, <1>8, <1>9 DEF Clean, CleanerStep

(* Every step keeps the expectation backed, unless the cleaner deletes a S3PA  *)
(* while one is expected ...                                                   *)
LEMMA BackedStep ==
    ASSUME TypeOK, NEW p \in BOOLEAN, NEW p2 \in BOOLEAN, StepExpects(p, p2), Backed(p),
           [Next]_vars, ForgetsExpectation => ~p, ~lost'
    PROVE  Backing(hist', rec', p2) /\ CleanInv(hist', cl')
<1>s. /\ (p => pending) /\ (p2 => pending') /\ (pending /\ p2 => p)
      /\ ~lost => Backing(hist, rec, p) /\ CleanInv(hist, cl)
  BY DEF StepExpects, Backed
<1>a. ASSUME UNCHANGED <<hist, rec, cl, pending, lost>> PROVE Backing(hist', rec', p2) /\ CleanInv(hist', cl')
  BY <1>a, <1>s, BackExpects
<1>1. ASSUME NEW m \in MountpointPods, ReconcileMountpointPod(m), UNCHANGED cl
      PROVE  Backing(hist', rec', p2) /\ CleanInv(hist', cl')
  BY <1>1, <1>a DEF ReconcileMountpointPod, Untouched
<1>2. ASSUME NEW w \in Workloads, ReconcileWorkload(w), UNCHANGED cl
      PROVE  Backing(hist', rec', p2) /\ CleanInv(hist', cl')
  BY <1>2, <1>s, BackedListed
<1>3. CASE Reconcile
  BY <1>3, BackedReconcile, CleanReconcile DEF Reconcile
<1>4. CASE SyncS3PAs
  <2>1. Len(hist) > 1 /\ hist' = Tail(hist) /\ UNCHANGED <<rec, cl, pending, lost>>
    BY <1>4 DEF SyncS3PAs, reconcilerVars
  <2>2. Backing(Tail(hist), rec, p)
    BY <1>s, <2>1, BackedShape, BackSync
  <2>3. CleanInv(Tail(hist), cl)
    BY <1>s, <2>1, BackedShape, CleanSync
  <2>. QED
    BY <1>s, <2>1, <2>2, <2>3, BackExpects
<1>5. CASE Restart
  <2>1. hist' = hist /\ rec' = RecIdle /\ cl' = CleanerIdle /\ pending' = FALSE /\ UNCHANGED lost
    BY <1>5 DEF Restart
  <2>2. Backing(hist, RecIdle, p2)
    BY <1>s, <2>1, BackIdle
  <2>3. CleanInv(hist, CleanerIdle)
    BY DEF CleanInv, CleanerIdle, NoS3PA
  <2>. QED
    BY <2>1, <2>2, <2>3
<1>6. CASE Environment
  BY <1>4, <1>5, <1>6, <1>a, EnvironmentSteps
<1>7. CASE UNCHANGED vars
  BY <1>7, <1>a DEF vars, clusterVars, reconcilerVars
<1>. QED
  BY <1>1, <1>2, <1>3, <1>6, <1>7, BackedClean DEF Next

LEMMA KnownNext == TypeOK /\ KnownInv /\ [Next]_vars => KnownInv'
<1>. SUFFICES ASSUME TypeOK, KnownInv, [Next]_vars, ~lost' PROVE Backing(hist', rec', FALSE) /\ CleanInv(hist', cl')
  BY DEF KnownInv, Backed
<1>1. StepExpects(FALSE, FALSE) /\ Backed(FALSE)
  BY DEF StepExpects, KnownInv
<1>. QED
  BY <1>1, BackedStep

LEMMA BackedNext == TypeOK /\ BackedInv /\ [Next]_vars /\ [~ForgetsExpectation]_vars => BackedInv'
<1>. SUFFICES ASSUME TypeOK, BackedInv, [Next]_vars, [~ForgetsExpectation]_vars, ~lost'
              PROVE  Backing(hist', rec', pending') /\ CleanInv(hist', cl')
  BY DEF BackedInv, Backed
<1>1. CASE UNCHANGED vars
  BY <1>1 DEF vars, clusterVars, reconcilerVars, BackedInv, Backed
<1>2. CASE ~ForgetsExpectation
  <2>1. pending \in BOOLEAN /\ pending' \in BOOLEAN
    BY NextType DEF TypeOK, ReconcilerTypeOK
  <2>2. StepExpects(pending, pending') /\ Backed(pending)
    BY <2>1 DEF StepExpects, BackedInv
  <2>. QED
    BY <1>2, <2>1, <2>2, BackedStep
<1>. QED
  BY <1>1, <1>2

(* ... and at first there is no S3PA and none is expected. *)
LEMMA KnownInit == Init => KnownInv
<1>. SUFFICES ASSUME Init PROVE KnownInv
  OBVIOUS
<1>1. Len(hist) = 1 /\ (\A n \in S3PAs : ~hist[1][n].live) /\ rec = RecIdle /\ pending = FALSE
  BY DEF Init, ClusterInit, ReconcilerInit, NoS3PA
<1>2. \A i \in 1..Len(hist) : \A n \in S3PAs : ~hist[i][n].live
  BY <1>1
<1>3. HistInv(hist)
  BY <1>2 DEF HistInv, Continuous, Ordered, SeenFirst, OneEmpty
<1>4. RecIdle.pc = "idle" /\ RecIdle.dups = {}
  BY DEF RecIdle
<1>5. HandInv(hist, RecIdle) /\ DupInv(hist, RecIdle) /\ PendingInv(hist, RecIdle, FALSE)
  BY <1>4 DEF HandInv, DupInv, PendingInv
<1>6. Backing(hist, RecIdle, FALSE)
  BY <1>3, <1>4, <1>5 DEF Backing
<1>7. CleanInv(hist, cl)
  BY DEF Init, CleanerInit, CleanerIdle, CleanInv, NoS3PA
<1>. QED
  BY <1>1, <1>6, <1>7 DEF KnownInv, Backed

(* An expectation outlives the S3PAs, and handleNewS3PodAttachment waits for   *)
(* one that does not come, only after the cleaner deleted a S3PA while one was *)
(* expected (ForgetsExpectation) or a reply was lost.  Nothing else the        *)
(* cleaner does, nor any lag of the cache, failed call, order of Reconciles,   *)
(* restart or duplicate that a restart leaves behind, takes the S3PAs away     *)
(* from an expectation, whatever happened before it was set.                   *)
THEOREM PendingCorrect ==
    Spec => [](~pending /\ [][~ForgetsExpectation]_vars => []PendingIsBacked)
<1>1. TypeOK /\ BackedInv => PendingIsBacked
  <2>. SUFFICES ASSUME TypeOK, BackedInv, pending, ~lost
                PROVE  \E i \in 1..Len(hist) : Live(hist[i]) # {}
    BY DEF PendingIsBacked
  <2>1. Len(hist) \in 1..Len(hist) /\ End(hist) = hist[Len(hist)]
    BY BackedShape DEF IsHist, End
  <2>2. PICK n \in S3PAs : End(hist)[n].live
    BY DEF BackedInv, Backed, Backing, PendingInv
  <2>3. n \in Live(hist[Len(hist)])
    BY <2>1, <2>2 DEF Live
  <2>. QED
    BY <2>1, <2>3
<1>2. TypeOK /\ KnownInv /\ ~pending => BackedInv
  <2>. SUFFICES ASSUME TypeOK, KnownInv, ~pending PROVE Backed(pending)
    BY DEF BackedInv
  <2>1. pending = FALSE
    BY DEF TypeOK, ReconcilerTypeOK
  <2>. QED
    BY <2>1 DEF KnownInv
<1>. QED
  BY <1>1, <1>2, TypeCorrect, KnownInit, KnownNext, BackedNext, PTL DEF Spec

-----------------------------------------------------------------------------
(* The controller implements Attachments.                                   *)

(* Decisions, as what replaces the S3PA old: a workload is attached, ... *)
Joins(old, new) ==
    \E m \in MountpointPods, w \in Workloads :
        /\ pods[w] # "absent" /\ OfVersion(mp[m], version)
        /\ ~ContainsWorkload(old, w)
        /\ new.live /\ new.keys = old.keys \cup {m}
        /\ new.wl = [old.wl EXCEPT ![m] = old.wl[m] \cup {w}]

(* ... or workloads that are over, and Mountpoint Pods without any, leave. *)
Leaves(old, new) ==
    /\ old.live /\ new.keys \subseteq old.keys /\ (new.live \/ new.keys = {})
    /\ \A m \in MountpointPods : new.wl[m] \subseteq old.wl[m]
    /\ \A m \in MountpointPods : \A w \in old.wl[m] \ new.wl[m] : Inactive(pods, w)
    /\ \A m \in MountpointPods : m \notin new.keys => new.wl[m] = {}
    /\ \A m \in old.keys \ new.keys : Retired(mp[m])

Decided ==
    \/ hist' = hist
    \/ \E n \in S3PAs, new \in S3PA :
          /\ hist' = Append(hist, [Api EXCEPT ![n] = new])
          /\ Joins(Api[n], new) \/ Leaves(Api[n], new)

(* Where the S3PAs, the Pods and the version stay, so do the attachments. *)
LEMMA Seen ==
    ASSUME UNCHANGED <<Api, pods, mp, version>>
    PROVE  UNCHANGED <<StoredS3PAs, WorkloadLives, MountpointPodLives, version>>
BY DEF StoredS3PAs, WorkloadLives, MountpointPodLives, IsPodActive

(* Attaching a workload. *)
LEMMA JoinsAttach ==
    ASSUME Api \in [S3PAs -> S3PA], NEW n \in S3PAs, NEW new \in S3PA, Api' = [Api EXCEPT ![n] = new],
           UNCHANGED <<pods, mp, version>>, Joins(Api[n], new)
    PROVE  \E m \in MountpointPods, w \in Workloads : Promised!Attach(n, m, w)
<1>1. PICK m \in MountpointPods, w \in Workloads :
        /\ pods[w] # "absent" /\ OfVersion(mp[m], version)
        /\ ~ContainsWorkload(Api[n], w)
        /\ new.live /\ new.keys = Api[n].keys \cup {m}
        /\ new.wl = [Api[n].wl EXCEPT ![m] = Api[n].wl[m] \cup {w}]
  BY DEF Joins
<1>2. UNCHANGED <<WorkloadLives, MountpointPodLives, version>>
  BY DEF WorkloadLives, MountpointPodLives, IsPodActive
<1>3. WorkloadLives[w] # "absent" /\ MountpointPodLives[m].version \in {version, Nil}
  BY <1>1 DEF WorkloadLives, MountpointPodLives, OfVersion
<1>4. /\ StoredS3PAs[n].live = Api[n].live /\ StoredS3PAs[n].pods = Api[n].keys
      /\ StoredS3PAs[n].workloads = Api[n].wl
  BY DEF StoredS3PAs
<1>5. \A x \in MountpointPods : w \notin StoredS3PAs[n].workloads[x]
  BY <1>1, <1>4 DEF ContainsWorkload
<1>6. StoredS3PAs' = [StoredS3PAs EXCEPT ![n] = Promised!With(StoredS3PAs[n], m, w)]
  <2>1. Promised!With(StoredS3PAs[n], m, w) = [live |-> new.live, pods |-> new.keys, workloads |-> new.wl]
    BY <1>1, <1>4 DEF Promised!With
  <2>2. StoredS3PAs' = [x \in S3PAs |-> [live |-> (Api')[x].live, pods |-> (Api')[x].keys,
                                         workloads |-> (Api')[x].wl]]
    BY DEF StoredS3PAs
  <2>. QED
    BY <2>1, <2>2 DEF StoredS3PAs
<1>7. Promised!Attach(n, m, w)
  BY <1>2, <1>3, <1>5, <1>6 DEF Promised!Attach
<1>. QED
  BY <1>7

(* Detaching workloads, retiring Mountpoint Pods, deleting the S3PA. *)
LEMMA LeavesDetach ==
    ASSUME Api \in [S3PAs -> S3PA], NEW n \in S3PAs, NEW new \in S3PA, Api' = [Api EXCEPT ![n] = new],
           UNCHANGED <<pods, mp, version>>, Leaves(Api[n], new)
    PROVE  Promised!Detach(n)
<1>1. UNCHANGED <<WorkloadLives, MountpointPodLives, version>>
  BY DEF WorkloadLives, MountpointPodLives, IsPodActive
<1>2. /\ StoredS3PAs[n].live = Api[n].live /\ StoredS3PAs[n].pods = Api[n].keys
      /\ StoredS3PAs[n].workloads = Api[n].wl
      /\ (StoredS3PAs')[n].live = new.live /\ (StoredS3PAs')[n].pods = new.keys
      /\ (StoredS3PAs')[n].workloads = new.wl
  BY DEF StoredS3PAs
<1>3. \A x \in S3PAs \ {n} : (StoredS3PAs')[x] = StoredS3PAs[x]
  BY DEF StoredS3PAs
<1>4. \A w \in Workloads : Inactive(pods, w) => WorkloadLives[w] = "over"
  BY DEF WorkloadLives, Inactive, IsPodActive
<1>5. \A m \in MountpointPods : Retired(mp[m]) => MountpointPodLives[m].retired
  BY DEF MountpointPodLives, Retired
<1>6. Api[n].keys \subseteq MountpointPods /\ \A m \in MountpointPods : Api[n].wl[m] \subseteq Workloads
  BY DEF S3PA
<1>7. Promised!Less(StoredS3PAs[n], (StoredS3PAs')[n])
  <2>1. \A m \in MountpointPods : \A w \in Api[n].wl[m] \ new.wl[m] : WorkloadLives[w] = "over"
    BY <1>4, <1>6 DEF Leaves
  <2>2. \A m \in Api[n].keys \ new.keys : MountpointPodLives[m].retired
    BY <1>5, <1>6 DEF Leaves
  <2>. QED
    BY <1>2, <2>1, <2>2 DEF Promised!Less, Leaves
<1>. QED
  BY <1>1, <1>3, <1>7 DEF Promised!Detach

(* A decision is a step of Attachments. *)
LEMMA DecidedMaps ==
    ASSUME TypeOK, Decided, UNCHANGED <<pods, mp, version>>
    PROVE  [Promised!Next]_(Promised!vars)
<1>1. CASE hist' = hist
  BY <1>1, Seen DEF Promised!vars, Api
<1>2. ASSUME NEW n \in S3PAs, NEW new \in S3PA, hist' = Append(hist, [Api EXCEPT ![n] = new]),
             Joins(Api[n], new) \/ Leaves(Api[n], new)
      PROVE  Promised!Next
  <2>1. hist \in Seq([S3PAs -> S3PA]) /\ Api \in [S3PAs -> S3PA]
    BY StoreType DEF TypeOK, ClusterTypeOK
  <2>2. Api' = [Api EXCEPT ![n] = new]
    BY <1>2, <2>1 DEF Api
  <2>. QED
    BY <1>2, <2>1, <2>2, JoinsAttach, LeavesDetach DEF Promised!Next
<1>. QED
  BY <1>1, <1>2 DEF Decided

-----------------------------------------------------------------------------
(* The writes are decisions.                                                *)

(* Adding a workload that is not in the S3PA. *)
LEMMA AppendJoins ==
    ASSUME NEW old \in S3PA, old.live, NEW m \in MountpointPods, NEW w \in Workloads,
           pods[w] # "absent", OfVersion(mp[m], version), ~ContainsWorkload(old, w)
    PROVE  Joins(old, [AppendWorkload(old, m, w) EXCEPT !.rv = @ + 1])
<1>. DEFINE new == [AppendWorkload(old, m, w) EXCEPT !.rv = @ + 1]
<1>1. /\ new.live /\ new.keys = old.keys \cup {m}
      /\ new.wl = [old.wl EXCEPT ![m] = old.wl[m] \cup {w}]
  BY DEF AppendWorkload, S3PA
<1>. HIDE DEF new
<1>2. Joins(old, new)
  BY <1>1 DEF Joins
<1>. QED
  BY <1>2 DEF new

(* Removing a workload that is over. *)
LEMMA FilterLeaves ==
    ASSUME NEW old \in S3PA, EntryOK(old, pods), old.live,
           NEW m \in MountpointPods, NEW w \in Workloads, Inactive(pods, w)
    PROVE  Leaves(old, [FilterWorkload(old, m, w) EXCEPT !.rv = @ + 1])
<1>. DEFINE new == [FilterWorkload(old, m, w) EXCEPT !.rv = @ + 1]
<1>1. /\ new.live /\ new.keys = old.keys
      /\ new.wl = [old.wl EXCEPT ![m] = old.wl[m] \ {w}]
      /\ old.wl \in [MountpointPods -> SUBSET Workloads]
  BY DEF FilterWorkload, S3PA
<1>. HIDE DEF new
<1>2. Leaves(old, new)
  BY <1>1 DEF Leaves, EntryOK
<1>. QED
  BY <1>2 DEF new

(* Removing the entry of a retired Mountpoint Pod without workloads. *)
LEMMA DropLeaves ==
    ASSUME NEW old \in S3PA, EntryOK(old, pods), old.live,
           NEW m \in MountpointPods, old.wl[m] = {}, Retired(mp[m])
    PROVE  Leaves(old, [DropKey(old, m) EXCEPT !.rv = @ + 1])
<1>. DEFINE new == [DropKey(old, m) EXCEPT !.rv = @ + 1]
<1>1. /\ new.live /\ new.keys = old.keys \ {m} /\ new.wl = [old.wl EXCEPT ![m] = {}]
      /\ old.wl \in [MountpointPods -> SUBSET Workloads]
  BY DEF DropKey, S3PA
<1>. HIDE DEF new
<1>2. \A x \in MountpointPods : new.wl[x] = old.wl[x]
  BY <1>1
<1>3. \A x \in MountpointPods : x \notin new.keys => new.wl[x] = {}
  BY <1>1, <1>2 DEF EntryOK
<1>4. Leaves(old, new)
  BY <1>1, <1>2, <1>3 DEF Leaves
<1>. QED
  BY <1>4 DEF new

(* Deleting a S3PA with an empty map. *)
LEMMA DeleteLeaves ==
    ASSUME NEW old \in S3PA, EntryOK(old, pods), old.live, old.keys = {}
    PROVE  Leaves(old, NoS3PA)
<1>1. /\ ~NoS3PA.live /\ NoS3PA.keys = {} /\ \A m \in MountpointPods : NoS3PA.wl[m] = {}
  BY DEF NoS3PA
<1>. QED
  BY <1>1 DEF Leaves, EntryOK

(* Writing, or deleting, what the cleaner made of the S3PA. *)
LEMMA FilteredLeaves ==
    ASSUME PodsFirst, NEW old \in S3PA, EntryOK(old, pods), old.live,
           NEW obj \in S3PA, Filtered(obj, old, pods, mp)
    PROVE  /\ Leaves(old, [obj EXCEPT !.rv = @ + 1])
           /\ obj.keys = {} => Leaves(old, NoS3PA)
<1>. DEFINE new == [obj EXCEPT !.rv = @ + 1]
<1>1. new.live = obj.live /\ new.keys = obj.keys /\ new.wl = obj.wl /\ old.keys \subseteq MountpointPods
  BY DEF S3PA
<1>. HIDE DEF new
<1>2. \A m \in MountpointPods : m \notin obj.keys => obj.wl[m] = {}
  BY DEF Filtered, EntryOK
<1>3. \A m \in MountpointPods : \A w \in old.wl[m] \ obj.wl[m] : Inactive(pods, w)
  BY DEF Filtered, Inactive
<1>4. Leaves(old, new)
  BY <1>1, <1>2, <1>3 DEF Leaves, Filtered
<1>5. ASSUME obj.keys = {} PROVE Leaves(old, NoS3PA)
  <2>1. /\ ~NoS3PA.live /\ NoS3PA.keys = {} /\ \A m \in MountpointPods : NoS3PA.wl[m] = {}
    BY DEF NoS3PA
  <2>2. \A m \in MountpointPods : obj.wl[m] = {}
    BY <1>2, <1>5
  <2>. QED
    BY <1>3, <1>5, <2>1, <2>2 DEF Leaves, Filtered
<1>. QED
  BY <1>4, <1>5 DEF new

(* The new S3PA. *)
LEMMA CreateJoins ==
    ASSUME NEW old \in S3PA, EntryOK(old, pods), ~old.live,
           rec.m \in MountpointPods, rec.w \in Workloads, pods[rec.w] # "absent",
           OfVersion(mp[rec.m], version)
    PROVE  NewS3PA \in S3PA /\ Joins(old, NewS3PA)
<1>. DEFINE e == [NoS3PA EXCEPT !.live = TRUE, !.rv = 1]
<1>1. e \in S3PA /\ e.live /\ e.keys = {} /\ e.wl = [m \in MountpointPods |-> {}]
  BY NoS3PAType DEF NoS3PA, S3PA
<1>2. NewS3PA = AppendWorkload(e, rec.m, rec.w)
  BY DEF NewS3PA
<1>. HIDE DEF e
<1>3. /\ NewS3PA.live /\ NewS3PA.keys = {rec.m}
      /\ NewS3PA.wl = [e.wl EXCEPT ![rec.m] = {rec.w}]
  BY <1>1, <1>2 DEF AppendWorkload, S3PA
<1>4. old.keys = {} /\ old.wl = [m \in MountpointPods |-> {}]
  <2>1. old.wl \in [MountpointPods -> SUBSET Workloads] /\ old.keys = {}
    BY DEF S3PA, EntryOK
  <2>2. \A m \in MountpointPods : old.wl[m] = {}
    BY <2>1 DEF EntryOK
  <2>. QED
    BY <2>1, <2>2
<1>5. ~ContainsWorkload(old, rec.w)
  BY <1>4 DEF ContainsWorkload
<1>6. NewS3PA.wl = [old.wl EXCEPT ![rec.m] = old.wl[rec.m] \cup {rec.w}]
  BY <1>1, <1>3, <1>4
<1>7. NewS3PA.keys = old.keys \cup {rec.m}
  BY <1>3, <1>4
<1>8. Joins(old, NewS3PA)
  <2>. SUFFICES \E m \in MountpointPods, w \in Workloads :
        /\ pods[w] # "absent" /\ OfVersion(mp[m], version)
        /\ ~ContainsWorkload(old, w)
        /\ NewS3PA.live /\ NewS3PA.keys = old.keys \cup {m}
        /\ NewS3PA.wl = [old.wl EXCEPT ![m] = old.wl[m] \cup {w}]
    BY DEF Joins
  <2>. WITNESS rec.m \in MountpointPods, rec.w \in Workloads
  <2>. QED
    BY <1>3, <1>5, <1>6, <1>7
<1>. QED
  BY <1>1, <1>2, <1>8, S3PAOpsType

(* An Update is a decision, whatever its outcome, if it is one when the version *)
(* it was made from is the current one, ...                                    *)
LEMMA UpdateDecides ==
    ASSUME NEW n \in S3PAs, NEW obj \in S3PA, UpdateOk(n, obj) \/ UpdateFails(n, obj),
           VersionMatches(n, obj.rv) =>
              \/ Joins(Api[n], [obj EXCEPT !.rv = @ + 1])
              \/ Leaves(Api[n], [obj EXCEPT !.rv = @ + 1])
    PROVE  Decided
<1>1. [obj EXCEPT !.rv = @ + 1] \in S3PA
  BY BumpType
<1>2. CASE hist' = hist
  BY <1>2 DEF Decided
<1>3. CASE CommitUpdate(n, obj)
  BY <1>1, <1>3 DEF CommitUpdate, Commit, Decided
<1>. QED
  BY <1>2, <1>3 DEF UpdateOk, UpdateFails

(* ... and so is a Delete. *)
LEMMA DeleteDecides ==
    ASSUME NEW n \in S3PAs, NEW rv, DeleteOk(n, rv) \/ DeleteFails(n, rv),
           VersionMatches(n, rv) => Leaves(Api[n], NoS3PA)
    PROVE  Decided
BY NoS3PAType DEF DeleteOk, DeleteFails, CommitDelete, Commit, Decided

(* The writes of the reconciler. *)
LEMMA ReconcileDecides ==
    ASSUME PodsFirst, TypeOK, OnceInv, VersionInv,
           \/ \E d \in rec.dups : DeleteDuplicate(d)
           \/ AssignWorkload
           \/ UpdateWithSpawned
           \/ CreateS3PodAttachment(FreshS3PAs)
           \/ RemoveWorkload
           \/ RemoveUnusedMP
           \/ RemoveS3PodAttachment
    PROVE  Decided
<1>. USE DEF At
<1>p. rec.pc # "idle"
  BY DEF DeleteDuplicate, AssignWorkload, UpdateWithSpawned, CreateS3PodAttachment, RemoveWorkload,
         RemoveUnusedMP, RemoveS3PodAttachment
<1>0. /\ RecTypeOK /\ rec.obj \in S3PA /\ rec.w \in Workloads /\ rec.dups \subseteq S3PAs \X Nat
      /\ Api \in [S3PAs -> S3PA] /\ pods[rec.w] # "absent" /\ (rec.active \/ Inactive(pods, rec.w))
      /\ CopyOK(rec, Api, pods) /\ HandOK(rec, mp, version) /\ StoreOK /\ OnceInRec
  <2>1. /\ RecTypeOK /\ rec.obj \in S3PA /\ rec.w \in Workloads /\ rec.dups \subseteq S3PAs \X Nat
        /\ Api \in [S3PAs -> S3PA]
    BY <1>p, StoreType DEF TypeOK, ReconcilerTypeOK, RecTypeOK, RecType
  <2>. QED
    BY <1>p, <2>1 DEF VersionInv, CopyOK, OnceInv
<1>a. ASSUME rec.pc \in {"assign", "update"},
             \/ UpdateOk(rec.n, AppendWorkload(rec.obj, rec.m, rec.w))
             \/ UpdateFails(rec.n, AppendWorkload(rec.obj, rec.m, rec.w))
      PROVE  Decided
  <2>1. /\ rec.n \in S3PAs /\ rec.m \in MountpointPods /\ OfVersion(mp[rec.m], version)
        /\ ~ContainsWorkload(rec.obj, rec.w)
    BY <1>0, <1>a, NilAssumption DEF RecTypeOK, HandOK, OnceInRec
  <2>2. AppendWorkload(rec.obj, rec.m, rec.w) \in S3PA /\ AppendWorkload(rec.obj, rec.m, rec.w).rv = rec.obj.rv
    BY <1>0, <2>1, S3PAOpsType DEF AppendWorkload, S3PA
  <2>3. VersionMatches(rec.n, rec.obj.rv) =>
          Joins(Api[rec.n], [AppendWorkload(rec.obj, rec.m, rec.w) EXCEPT !.rv = @ + 1])
    BY <1>0, <2>1, CopyIsCurrent, AppendJoins
  <2>. QED
    BY <1>a, <2>1, <2>2, <2>3, UpdateDecides
<1>1. ASSUME NEW d \in rec.dups, DeleteDuplicate(d) PROVE Decided
  <2>1. d[1] \in S3PAs /\ Api[d[1]] \in S3PA /\ EntryOK(Api[d[1]], pods)
    BY <1>0 DEF StoreOK
  <2>2. VersionMatches(d[1], d[2]) => Api[d[1]].live /\ Api[d[1]].keys = {}
    BY <1>0 DEF VersionMatches, CopyOK
  <2>3. VersionMatches(d[1], d[2]) => Leaves(Api[d[1]], NoS3PA)
    BY <2>1, <2>2, DeleteLeaves
  <2>. QED
    BY <1>1, <2>1, <2>3, DeleteDecides DEF DeleteDuplicate
<1>2. CASE AssignWorkload
  BY <1>2, <1>a DEF AssignWorkload
<1>3. CASE UpdateWithSpawned
  BY <1>3, <1>a DEF UpdateWithSpawned
<1>4. CASE CreateS3PodAttachment(FreshS3PAs)
  <2>1. PICK n \in FreshS3PAs : hist' = hist \/ Commit(n, NewS3PA)
    BY <1>4 DEF CreateS3PodAttachment
  <2>2. /\ n \in S3PAs /\ rec.m \in MountpointPods /\ OfVersion(mp[rec.m], version) /\ ~Api[n].live
        /\ Api[n] \in S3PA /\ EntryOK(Api[n], pods)
    <3>1. Len(hist) \in 1..Len(hist) /\ Api = hist[Len(hist)]
      BY DEF TypeOK, ClusterTypeOK, Api
    <3>. QED
      BY <1>0, <1>4, <3>1 DEF CreateS3PodAttachment, RecTypeOK, HandOK, FreshS3PAs, StoreOK
  <2>3. NewS3PA \in S3PA /\ Joins(Api[n], NewS3PA)
    BY <1>0, <2>2, CreateJoins
  <2>. QED
    BY <2>1, <2>2, <2>3 DEF Decided, Commit
<1>5. CASE RemoveWorkload
  <2>1. PICK m \in MountpointPods :
          \/ UpdateOk(rec.n, FilterWorkload(rec.obj, m, rec.w))
          \/ UpdateFails(rec.n, FilterWorkload(rec.obj, m, rec.w))
    BY <1>5 DEF RemoveWorkload
  <2>. DEFINE obj == FilterWorkload(rec.obj, m, rec.w)
  <2>2. rec.n \in S3PAs /\ Inactive(pods, rec.w)
    BY <1>0, <1>5 DEF RemoveWorkload, RecTypeOK, HandOK
  <2>3. obj \in S3PA /\ obj.rv = rec.obj.rv
    BY <1>0, S3PAOpsType DEF FilterWorkload, S3PA
  <2>4. VersionMatches(rec.n, rec.obj.rv) => Leaves(Api[rec.n], [obj EXCEPT !.rv = @ + 1])
    BY <1>0, <2>2, CopyIsCurrent, FilterLeaves
  <2>5. UpdateOk(rec.n, obj) \/ UpdateFails(rec.n, obj)
    BY <2>1
  <2>. HIDE DEF obj
  <2>. QED
    BY <2>2, <2>3, <2>4, <2>5, UpdateDecides
<1>6. CASE RemoveUnusedMP
  <2>. DEFINE obj == DropKey(rec.obj, rec.m)
  <2>1. UpdateOk(rec.n, obj) \/ UpdateFails(rec.n, obj)
    BY <1>6 DEF RemoveUnusedMP
  <2>2. rec.n \in S3PAs /\ rec.m \in MountpointPods /\ rec.obj.wl[rec.m] = {} /\ Retired(mp[rec.m])
    BY <1>0, <1>6 DEF RemoveUnusedMP, RecTypeOK, HandOK
  <2>3. obj \in S3PA /\ obj.rv = rec.obj.rv
    BY <1>0, <2>2, S3PAOpsType DEF DropKey, S3PA
  <2>4. VersionMatches(rec.n, rec.obj.rv) => Leaves(Api[rec.n], [obj EXCEPT !.rv = @ + 1])
    BY <1>0, <2>2, CopyIsCurrent, DropLeaves
  <2>. HIDE DEF obj
  <2>. QED
    BY <2>1, <2>2, <2>3, <2>4, UpdateDecides
<1>7. CASE RemoveS3PodAttachment
  <2>1. rec.n \in S3PAs
    BY <1>0, <1>7 DEF RemoveS3PodAttachment, RecTypeOK
  <2>2. ASSUME rec.obj.keys = {}, VersionMatches(rec.n, rec.obj.rv) PROVE Leaves(Api[rec.n], NoS3PA)
    BY <1>0, <2>1, <2>2, CopyIsCurrent, DeleteLeaves
  <2>3. CASE hist' = hist
    BY <2>3 DEF Decided
  <2>4. CASE rec.obj.keys = {} /\ (DeleteOk(rec.n, rec.obj.rv) \/ DeleteFails(rec.n, rec.obj.rv))
    BY <2>1, <2>2, <2>4, DeleteDecides
  <2>. QED
    BY <1>7, <2>3, <2>4 DEF RemoveS3PodAttachment
<1>. QED
  BY <1>1, <1>2, <1>3, <1>4, <1>5, <1>6, <1>7

(* The write of the cleaner. *)
LEMMA CleanerDecides ==
    ASSUME PodsFirst, TypeOK, VersionInv, CleanerWrite
    PROVE  Decided
<1>1. /\ cl.pc = "s3pa" /\ cl.n \in S3PAs /\ cl.obj \in S3PA
      /\ Api[cl.n] \in S3PA /\ EntryOK(Api[cl.n], pods) /\ RunOK(cl, Api, pods, aged, mp)
  BY StoreType DEF CleanerWrite, TypeOK, CleanerTypeOK, CleanerType, VersionInv, StoreOK
<1>2. ASSUME VersionMatches(cl.n, cl.obj.rv)
      PROVE  /\ Leaves(Api[cl.n], [cl.obj EXCEPT !.rv = @ + 1])
             /\ cl.obj.keys = {} => Leaves(Api[cl.n], NoS3PA)
  <2>1. Filtered(cl.obj, Api[cl.n], pods, mp) /\ Api[cl.n].live
    BY <1>1, <1>2 DEF RunOK, VersionMatches
  <2>. QED
    BY <1>1, <2>1, FilteredLeaves
<1>3. CASE hist' = hist
  BY <1>3 DEF Decided
<1>4. CASE cl.obj.keys = {} /\ (DeleteOk(cl.n, cl.obj.rv) \/ DeleteFails(cl.n, cl.obj.rv))
  BY <1>1, <1>2, <1>4, DeleteDecides
<1>5. CASE UpdateOk(cl.n, cl.obj) \/ UpdateFails(cl.n, cl.obj)
  BY <1>1, <1>2, <1>5, UpdateDecides
<1>. QED
  BY <1>3, <1>4, <1>5 DEF CleanerWrite

-----------------------------------------------------------------------------
(* The other steps.                                                         *)

(* A Mountpoint Pod goes, is spawned, is annotated, or changes unnoticed. *)
LEMMA MountpointPodMaps ==
    ASSUME mp \in [MountpointPods -> MountpointPod], NEW m \in MountpointPods, NEW p,
           mp' = [mp EXCEPT ![m] = p], UNCHANGED <<hist, pods, version>>,
           \/ p.phase = "none"
           \/ /\ p.phase # "none" /\ mp[m].phase # "none" /\ p.version = mp[m].version
              /\ p.needsUnmount = mp[m].needsUnmount \/ p.needsUnmount = TRUE
           \/ p = Spawned /\ m \in FreshMPs /\ Len(hist) \in Nat /\ Len(hist) > 0
    PROVE  [Promised!Next]_(Promised!vars)
<1>1. UNCHANGED <<StoredS3PAs, WorkloadLives, version>>
  BY DEF StoredS3PAs, WorkloadLives, IsPodActive, Api
<1>. DEFINE Life(x) == IF x.phase = "none" THEN [retired |-> TRUE, version |-> Nil]
                       ELSE [retired |-> x.needsUnmount, version |-> x.version]
<1>2. /\ MountpointPodLives = [x \in MountpointPods |-> Life(mp[x])]
      /\ MountpointPodLives' = [x \in MountpointPods |-> Life(mp'[x])]
  BY DEF MountpointPodLives
<1>. HIDE DEF Life
<1>3. MountpointPodLives' = [MountpointPodLives EXCEPT ![m] = Life(p)]
  BY <1>2
<1>4. MountpointPodLives[m] = Life(mp[m])
  BY <1>2
<1>5. CASE p.phase = "none"
  <2>1. Life(p) = Promised!Gone
    BY <1>5 DEF Life, Promised!Gone
  <2>2. Promised!Vanish(m)
    BY <1>1, <1>3, <2>1 DEF Promised!Vanish, Promised!Becomes
  <2>. QED
    BY <2>2 DEF Promised!Next
<1>6. CASE /\ p.phase # "none" /\ mp[m].phase # "none" /\ p.version = mp[m].version
           /\ p.needsUnmount = mp[m].needsUnmount
  <2>1. Life(p) = Life(mp[m])
    BY <1>6 DEF Life
  <2>2. MountpointPodLives' = MountpointPodLives
    BY <1>2, <1>3, <1>4, <2>1
  <2>. QED
    BY <1>1, <2>2 DEF Promised!vars
<1>7. CASE /\ p.phase # "none" /\ mp[m].phase # "none" /\ p.version = mp[m].version
           /\ p.needsUnmount = TRUE
  <2>0. /\ Life(p) = [retired |-> p.needsUnmount, version |-> p.version]
        /\ MountpointPodLives[m].version = mp[m].version
    BY <1>4, <1>7 DEF Life
  <2>1. Life(p) = [retired |-> TRUE, version |-> MountpointPodLives[m].version]
    BY <1>7, <2>0, Zenon
  <2>2. Promised!Retire(m)
    BY <1>1, <1>3, <2>1 DEF Promised!Retire, Promised!Becomes
  <2>. QED
    BY <2>2 DEF Promised!Next
<1>8. CASE p = Spawned /\ m \in FreshMPs /\ Len(hist) \in Nat /\ Len(hist) > 0
  <2>1. Life(p) = [retired |-> FALSE, version |-> version]
    BY <1>8 DEF Life, Spawned, NoPod
  <2>2. MountpointPodLives[m] = Promised!Gone
    BY <1>4, <1>8 DEF Life, FreshMPs, Promised!Gone
  <2>3. \A n \in S3PAs : m \notin StoredS3PAs[n].pods
    <3>1. Len(hist) \in 1..Len(hist)
      BY <1>8
    <3>2. \A n \in S3PAs : m \notin Api[n].keys
      BY <1>8, <3>1 DEF FreshMPs, Api
    <3>. QED
      BY <3>2 DEF StoredS3PAs
  <2>4. Promised!Spawn(m)
    BY <1>1, <1>3, <2>1, <2>2, <2>3 DEF Promised!Spawn, Promised!Becomes
  <2>. QED
    BY <2>4 DEF Promised!Next
<1>. QED
  BY <1>5, <1>6, <1>7, <1>8

(* Annotating one, or trying to. *)
LEMMA AnnotateMaps ==
    ASSUME TypeOK, NEW m \in MountpointPods, UNCHANGED <<hist, pods, version>>,
           AddNeedsUnmountAnnotation(m) \/ AddNeedsUnmountAnnotationFails(m)
    PROVE  [Promised!Next]_(Promised!vars)
<1>1. CASE mp' = mp
  BY <1>1, Seen DEF Promised!vars, Api
<1>2. CASE Annotate(m)
  <2>1. /\ mp \in [MountpointPods -> MountpointPod] /\ mp[m].phase # "none"
        /\ mp' = [mp EXCEPT ![m] = [mp[m] EXCEPT !.needsUnmount = TRUE]]
    BY <1>2 DEF Annotate, TypeOK, ClusterTypeOK
  <2>. DEFINE p == [mp[m] EXCEPT !.needsUnmount = TRUE]
  <2>2. p.phase = mp[m].phase /\ p.version = mp[m].version /\ p.needsUnmount = TRUE
    BY <2>1 DEF MountpointPod
  <2>3. mp' = [mp EXCEPT ![m] = p]
    BY <2>1
  <2>. HIDE DEF p
  <2>. QED
    BY <2>1, <2>2, <2>3, MountpointPodMaps
<1>. QED
  BY <1>1, <1>2 DEF AddNeedsUnmountAnnotation, AddNeedsUnmountAnnotationFails

(* A workload Pod appears, is over, or changes unnoticed. *)
LEMMA WorkloadMaps ==
    ASSUME pods \in [Workloads -> PodStates], NEW w \in Workloads, NEW to,
           pods' = [pods EXCEPT ![w] = to], UNCHANGED <<hist, mp, version>>,
           \/ pods[w] = "absent" /\ to = "pending"
           \/ pods[w] \in {"pending", "running"} /\ to # "absent"
           \/ Inactive(pods, w) /\ to \notin {"absent", "pending", "running"}
    PROVE  [Promised!Next]_(Promised!vars)
<1>1. UNCHANGED <<StoredS3PAs, MountpointPodLives, version>>
  BY DEF StoredS3PAs, MountpointPodLives, Api
<1>. DEFINE Life(s) == IF s = "absent" THEN "absent"
                       ELSE IF s \in {"pending", "running"} THEN "active" ELSE "over"
<1>2. /\ WorkloadLives = [x \in Workloads |-> Life(pods[x])]
      /\ WorkloadLives' = [x \in Workloads |-> Life(pods'[x])]
  BY DEF WorkloadLives, IsPodActive
<1>. HIDE DEF Life
<1>3. WorkloadLives' = [WorkloadLives EXCEPT ![w] = Life(to)] /\ WorkloadLives[w] = Life(pods[w])
  BY <1>2
<1>4. CASE Life(to) = Life(pods[w])
  <2>1. WorkloadLives' = WorkloadLives
    BY <1>2, <1>3, <1>4
  <2>. QED
    BY <1>1, <2>1 DEF Promised!vars
<1>5. CASE Life(to) # Life(pods[w])
  <2>1. \/ Life(pods[w]) = "absent" /\ Life(to) = "active"
        \/ Life(pods[w]) = "active" /\ Life(to) = "over"
    BY <1>5 DEF Life, Inactive
  <2>2. Promised!Turns(w, "absent", "active") \/ Promised!Turns(w, "active", "over")
    BY <1>1, <1>3, <2>1 DEF Promised!Turns
  <2>. QED
    BY <2>2 DEF Promised!Next
<1>. QED
  BY <1>4, <1>5

(* At first there are no S3PAs and no Mountpoint Pods. *)
LEMMA AttachmentsInit == Init => Promised!Init
<1>. SUFFICES ASSUME Init PROVE Promised!Init
  OBVIOUS
<1>1. /\ hist = <<[n \in S3PAs |-> NoS3PA]>> /\ mp = [m \in MountpointPods |-> NoPod]
      /\ pods = [w \in Workloads |-> IF w \in Legacy THEN "running" ELSE "absent"]
      /\ version \in Versions
  BY DEF Init, ClusterInit, ReconcilerInit
<1>2. Api = [n \in S3PAs |-> NoS3PA]
  BY <1>1 DEF Api
<1>3. StoredS3PAs = [n \in S3PAs |-> Promised!NoS3PA]
  BY <1>2 DEF StoredS3PAs, NoS3PA, Promised!NoS3PA
<1>4. WorkloadLives \in [Workloads -> {"absent", "active"}]
  BY <1>1 DEF WorkloadLives, IsPodActive
<1>5. MountpointPodLives = [m \in MountpointPods |-> Promised!Gone]
  BY <1>1 DEF MountpointPodLives, NoPod, Promised!Gone
<1>. QED
  BY <1>1, <1>3, <1>4, <1>5 DEF Promised!Init

(* A step of a Reconcile. *)
LEMMA ReconcileMaps ==
    ASSUME PodsFirst, TypeOK, OnceInv, VersionInv, ReconcileStep(FreshMPs, FreshS3PAs)
    PROVE  [Promised!Next]_(Promised!vars)
<1>0. /\ mp \in [MountpointPods -> MountpointPod] /\ Len(hist) \in Nat /\ Len(hist) > 0 /\ RecTypeOK
  BY DEF TypeOK, ClusterTypeOK, ReconcilerTypeOK
<1>1. Untouched
  BY DEF ReconcileStep, DeleteDuplicate, HandleExistingS3PodAttachment, AssignWorkload,
         HandleNewS3PodAttachment, SpawnMountpointPod, UpdateWithSpawned, CreateS3PodAttachment,
         CleanupSpawned, HandleInactivePod, RemoveWorkload, AnnotateUnusedMP, RemoveUnusedMP,
         RemoveS3PodAttachment
<1>2. UNCHANGED <<pods, version>>
  BY <1>1 DEF Untouched
<1>a. ASSUME Decided, UNCHANGED mp PROVE [Promised!Next]_(Promised!vars)
  BY <1>2, <1>a, DecidedMaps
<1>b. ASSUME UNCHANGED <<hist, mp>> PROVE [Promised!Next]_(Promised!vars)
  BY <1>2, <1>b, Seen DEF Promised!vars, Api
<1>3. ASSUME \/ \E d \in rec.dups : DeleteDuplicate(d)
             \/ AssignWorkload \/ UpdateWithSpawned \/ CreateS3PodAttachment(FreshS3PAs)
             \/ RemoveWorkload \/ RemoveUnusedMP \/ RemoveS3PodAttachment
      PROVE  [Promised!Next]_(Promised!vars)
  <2>1. Decided
    BY <1>3, ReconcileDecides
  <2>2. UNCHANGED mp
    BY <1>3 DEF DeleteDuplicate, AssignWorkload, UpdateWithSpawned, CreateS3PodAttachment,
                RemoveWorkload, RemoveUnusedMP, RemoveS3PodAttachment
  <2>. QED
    BY <1>a, <2>1, <2>2
<1>4. CASE HandleExistingS3PodAttachment \/ HandleNewS3PodAttachment \/ HandleInactivePod
  BY <1>4, <1>b DEF HandleExistingS3PodAttachment, HandleNewS3PodAttachment, HandleInactivePod
<1>5. CASE SpawnMountpointPod(FreshMPs)
  <2>1. PICK m \in FreshMPs : mp' = mp \/ mp' = [mp EXCEPT ![m] = Spawned]
    BY <1>5 DEF SpawnMountpointPod
  <2>2. m \in MountpointPods /\ UNCHANGED hist
    BY <1>5 DEF FreshMPs, SpawnMountpointPod
  <2>3. CASE mp' = mp
    BY <1>b, <2>2, <2>3
  <2>4. CASE mp' = [mp EXCEPT ![m] = Spawned]
    BY <1>0, <1>2, <2>2, <2>4, MountpointPodMaps
  <2>. QED
    BY <2>1, <2>3, <2>4
<1>6. CASE CleanupSpawned
  <2>1. UNCHANGED hist /\ rec.m \in MountpointPods /\ (mp' = mp \/ mp' = [mp EXCEPT ![rec.m] = NoPod])
    BY <1>0, <1>6 DEF CleanupSpawned, RecTypeOK, At
  <2>2. NoPod.phase = "none"
    BY DEF NoPod
  <2>3. CASE mp' = mp
    BY <1>b, <2>1, <2>3
  <2>4. CASE mp' = [mp EXCEPT ![rec.m] = NoPod]
    BY <1>0, <1>2, <2>1, <2>2, <2>4, MountpointPodMaps
  <2>. QED
    BY <2>1, <2>3, <2>4
<1>7. ASSUME NEW m \in MountpointPods, AnnotateUnusedMP(m) PROVE [Promised!Next]_(Promised!vars)
  BY <1>2, <1>7, AnnotateMaps DEF AnnotateUnusedMP
<1>. QED
  BY <1>3, <1>4, <1>5, <1>6, <1>7 DEF ReconcileStep

(* A step of the cleaner. *)
LEMMA CleanerMaps ==
    ASSUME PodsFirst, TypeOK, VersionInv, CleanerStep, UNCHANGED reconcilerVars
    PROVE  [Promised!Next]_(Promised!vars)
<1>1. CleanerUntouched
  BY DEF CleanerStep, CleanerListPods, CleanerListS3PAs, CleanerDone, FilterStale, CleanerAnnotate, CleanerWrite
<1>2. UNCHANGED <<pods, version>>
  BY <1>1 DEF CleanerUntouched, reconcilerVars
<1>3. CASE CleanerWrite
  BY <1>2, <1>3, CleanerDecides, DecidedMaps DEF CleanerWrite
<1>4. ASSUME NEW m \in MountpointPods, CleanerAnnotate(m) PROVE [Promised!Next]_(Promised!vars)
  BY <1>2, <1>4, AnnotateMaps DEF CleanerAnnotate
<1>5. CASE CleanerListPods \/ CleanerListS3PAs \/ CleanerDone \/ \E n \in S3PAs : FilterStale(n)
  <2>1. UNCHANGED <<hist, mp>>
    BY <1>5 DEF CleanerListPods, CleanerListS3PAs, CleanerDone, FilterStale
  <2>. QED
    BY <1>2, <2>1, Seen DEF Promised!vars, Api
<1>. QED
  BY <1>3, <1>4, <1>5 DEF CleanerStep

(* A step of the environment. *)
LEMMA EnvironmentMaps ==
    ASSUME TypeOK, Environment
    PROVE  [Promised!Next]_(Promised!vars)
<1>0. /\ pods \in [Workloads -> PodStates] /\ mp \in [MountpointPods -> MountpointPod]
      /\ hist \in Seq([S3PAs -> S3PA])
  BY DEF TypeOK, ClusterTypeOK
<1>a. ASSUME UNCHANGED <<hist, pods, mp, version>> PROVE [Promised!Next]_(Promised!vars)
  BY <1>a, Seen DEF Promised!vars, Api
<1>1. ASSUME NEW w \in Workloads,
             PodScheduled(w) \/ PodStarts(w) \/ PodTerminates(w) \/ PodFinishes(w) \/ PodVanishes(w)
      PROVE  [Promised!Next]_(Promised!vars)
  <2>1. \E from, to : /\ PodChange(w, from, to)
                      /\ \/ from = {"absent"} /\ to = "pending"
                         \/ from = {"pending"} /\ to \in {"running", "terminating"}
                         \/ to \in {"done", "gone"} /\ "absent" \notin from
    BY <1>1 DEF PodScheduled, PodStarts, PodTerminates, PodFinishes, PodVanishes
  <2>2. PICK from, to : /\ PodChange(w, from, to)
                        /\ \/ from = {"absent"} /\ to = "pending"
                           \/ from = {"pending"} /\ to \in {"running", "terminating"}
                           \/ to \in {"done", "gone"} /\ "absent" \notin from
    BY <2>1
  <2>3. /\ pods' = [pods EXCEPT ![w] = to] /\ pods[w] \in from /\ UNCHANGED <<hist, mp, version>>
    BY <2>2 DEF PodChange
  <2>4. \/ pods[w] = "absent" /\ to = "pending"
        \/ pods[w] \in {"pending", "running"} /\ to # "absent"
        \/ Inactive(pods, w) /\ to \notin {"absent", "pending", "running"}
    BY <2>2, <2>3 DEF Inactive
  <2>. QED
    BY <1>0, <2>3, <2>4, WorkloadMaps
<1>2. ASSUME NEW w \in Workloads, PodEvent(w) \/ AttachmentAges(w) PROVE [Promised!Next]_(Promised!vars)
  BY <1>2, <1>a DEF PodEvent, AttachmentAges, reconcilerVars
<1>3. ASSUME NEW m \in MountpointPods, MountpointPodSucceeds(m) \/ MountpointPodClosed(m) \/ MountpointPodEvicted(m)
      PROVE  [Promised!Next]_(Promised!vars)
  <2>1. /\ [mp[m] EXCEPT !.phase = "succeeded"].phase # "none"
        /\ [mp[m] EXCEPT !.phase = "succeeded"].version = mp[m].version
        /\ [mp[m] EXCEPT !.phase = "succeeded"].needsUnmount = mp[m].needsUnmount
        /\ [mp[m] EXCEPT !.noNewWorkload = TRUE].phase = mp[m].phase
        /\ [mp[m] EXCEPT !.noNewWorkload = TRUE].version = mp[m].version
        /\ [mp[m] EXCEPT !.noNewWorkload = TRUE].needsUnmount = mp[m].needsUnmount
        /\ NoPod.phase = "none"
    BY <1>0 DEF MountpointPod, NoPod
  <2>2. PICK p : /\ mp[m].phase = "running" /\ mp' = [mp EXCEPT ![m] = p]
                 /\ UNCHANGED <<hist, pods, version>>
                 /\ \/ p.phase = "none"
                    \/ /\ p.phase # "none" /\ p.version = mp[m].version
                       /\ p.needsUnmount = mp[m].needsUnmount
    BY <1>3, <2>1 DEF MountpointPodSucceeds, MountpointPodClosed, MountpointPodEvicted, MountpointPodChange,
                      reconcilerVars
  <2>. QED
    BY <1>0, <2>2, MountpointPodMaps
<1>4. ASSUME NEW m \in MountpointPods, SyncMountpointPod(m) PROVE [Promised!Next]_(Promised!vars)
  BY <1>4, <1>a DEF SyncMountpointPod, reconcilerVars
<1>5. CASE SyncS3PAs
  <2>1. hist' = Tail(hist) /\ Len(hist) > 1 /\ UNCHANGED <<mp, pods, version>>
    BY <1>5 DEF SyncS3PAs, reconcilerVars
  <2>2. Api' = Api
    BY <1>0, <2>1 DEF Api
  <2>. QED
    BY <2>1, <2>2, Seen DEF Promised!vars
<1>6. CASE Restart
  <2>1. UNCHANGED <<hist, pods, mp>> /\ version' \in Versions
    BY <1>6 DEF Restart
  <2>2. UNCHANGED <<StoredS3PAs, WorkloadLives, MountpointPodLives>>
    BY <2>1 DEF StoredS3PAs, WorkloadLives, MountpointPodLives, IsPodActive, Api
  <2>3. Promised!Replace
    BY <2>1, <2>2 DEF Promised!Replace
  <2>. QED
    BY <2>3 DEF Promised!Next
<1>. QED
  BY <1>1, <1>2, <1>3, <1>4, <1>5, <1>6 DEF Environment

(* Every step is a step of Attachments or goes unseen. *)
LEMMA AttachmentsNext ==
    ASSUME PodsFirst, TypeOK, OnceInv, VersionInv, [Next]_vars
    PROVE  [Promised!Next]_(Promised!vars)
<1>0. mp \in [MountpointPods -> MountpointPod]
  BY DEF TypeOK, ClusterTypeOK
<1>1. ASSUME NEW w \in Workloads, ReconcileWorkload(w) PROVE [Promised!Next]_(Promised!vars)
  <2>1. UNCHANGED <<hist, mp, pods, version>>
    BY <1>1 DEF ReconcileWorkload, ReconcileNotFound, ReconcileFindsNone, ReconcileFindsOne,
                ReconcileFindsDuplicates, ReconcileGivesUpOnDuplicates, Start, Untouched
  <2>. QED
    BY <2>1, Seen DEF Promised!vars, Api
<1>2. ASSUME NEW m \in MountpointPods, ReconcileMountpointPod(m) PROVE [Promised!Next]_(Promised!vars)
  <2>1. mp' = [mp EXCEPT ![m] = NoPod] /\ UNCHANGED <<hist, pods, version>>
    BY <1>2 DEF ReconcileMountpointPod, Untouched
  <2>2. NoPod.phase = "none"
    BY DEF NoPod
  <2>. QED
    BY <1>0, <2>1, <2>2, MountpointPodMaps
<1>3. CASE Reconcile
  BY <1>3, ReconcileMaps DEF Reconcile
<1>4. CASE Clean
  BY <1>4, CleanerMaps DEF Clean
<1>5. CASE Environment
  BY <1>5, EnvironmentMaps
<1>6. CASE UNCHANGED vars
  <2>1. UNCHANGED <<hist, pods, mp, version>>
    BY <1>6 DEF vars, clusterVars, reconcilerVars
  <2>. QED
    BY <2>1, Seen DEF Promised!vars, Api
<1>. QED
  BY <1>1, <1>2, <1>3, <1>4, <1>5, <1>6 DEF Next

(* Whatever the copies the reconciler and the cleaner work on, and whatever    *)
(* replies are lost, the attachments change as Attachments says: a workload    *)
(* that has none is attached to a Mountpoint Pod of this version, or what is   *)
(* over and retired leaves, each decided on the S3PA in the store.  Pods are   *)
(* seen before the S3PAs that name them (PodsFirst).                           *)
THEOREM AttachmentsRefinement ==
    ASSUME PodsFirst
    PROVE  Spec => ImplementsAttachments
<1>1. TypeOK /\ OnceInv /\ VersionInv /\ [Next]_vars => [Promised!Next]_(Promised!vars)
  BY AttachmentsNext
<1>. QED
  BY <1>1, TypeCorrect, OnceInit, OnceNext, VersionInit, VersionNext, AttachmentsInit, PTL
     DEF Spec, ImplementsAttachments, Promised!Spec
=============================================================================
