----------------------------- MODULE Reconciler -----------------------------
(***************************************************************************)
(* The reconciler of the controller (csicontroller/reconciler.go): one     *)
(* thread that takes a workload Pod from its work queue and decides        *)
(* whether to attach it to a Mountpoint Pod, to spawn one, or to detach it *)
(* and retire Mountpoint Pods and S3PAs that nobody uses any more.         *)
(*                                                                         *)
(* One Reconcile is a sequence of steps, one per call of the API server,   *)
(* with rec holding its local state: other actors run between two calls.   *)
(***************************************************************************)
EXTENDS Cluster

VARIABLES
    queue,    \* the work queue: workloads to reconcile
    rec,      \* the Reconcile in progress
    pending,  \* s3paExpectations: a S3PA was created and not seen yet
    version   \* mountpointPodConfig.CSIDriverVersion

reconcilerVars == <<queue, rec, pending, version>>

RecPCs == {"idle",
           "listed",      \* the S3PAs of the tuple have been listed
           "recover",     \* deleting duplicate S3PAs
           "removeUID",   \* removing the workload from the map
           "removeMPs",   \* retiring Mountpoint Pods with zero workloads
           "removeKey",   \* ... one is annotated, its key is next
           "assign",      \* adding the workload to an existing Mountpoint Pod
           "spawn",       \* spawning a Mountpoint Pod
           "update",      \* ... for a S3PA that exists
           "create",      \* ... for a new S3PA
           "cleanup"}     \* deleting the spawned Pod: the S3PA write failed

(* w, active, running: the workload Pod as it was read; n, obj: the S3PA in   *)
(* hand, a local copy; m: the Mountpoint Pod in hand; dups: <<name, version>> *)
(* of the duplicates to delete.                                               *)
RecType == [pc : RecPCs, w : Workloads \cup {Nil},
            active : BOOLEAN, running : BOOLEAN,
            n : S3PAs \cup {Nil}, obj : S3PA, m : MountpointPods \cup {Nil},
            dups : SUBSET (S3PAs \X Nat)]

RecIdle == [pc |-> "idle", w |-> Nil, active |-> FALSE, running |-> FALSE,
            n |-> Nil, obj |-> NoS3PA, m |-> Nil, dups |-> {}]

RecTypeOK ==
    /\ rec \in RecType
    /\ rec.pc # "idle" => rec.w \in Workloads
    /\ rec.pc \in {"removeUID", "removeMPs", "removeKey", "assign", "update"}
          => rec.n \in S3PAs
    /\ rec.pc \in {"removeKey", "assign", "update", "create", "cleanup"}
          => rec.m \in MountpointPods

ReconcilerTypeOK ==
    /\ queue \subseteq Workloads
    /\ RecTypeOK
    /\ pending \in BOOLEAN
    /\ version \in Versions

ReconcilerInit ==
    /\ queue = Legacy
    /\ rec = RecIdle
    /\ pending = FALSE
    /\ version \in Versions

-----------------------------------------------------------------------------
At(pc) == rec.pc = pc

GoTo(pc) == rec' = [rec EXCEPT !.pc = pc] /\ UNCHANGED queue

DontRequeue == rec' = RecIdle /\ UNCHANGED queue

(* Mutant: the request is forgotten before it is queued again. *)
RequeueAfterReset == rec' = RecIdle /\ queue' = queue \cup {RecIdle.w}

Requeue == rec' = RecIdle /\ queue' = queue \cup {rec.w}

(* What a step of the reconciler never changes. *)
Untouched == UNCHANGED <<mpSeen, pods, restarts, disturbed, version>>

-----------------------------------------------------------------------------
(* Reconcile, reconcileWorkloadPod, spawnOrDeleteMountpointPodIfNeeded up to   *)
(* getExistingS3PodAttachment: read the Pod and list the S3PAs, both cached.   *)

ReconcileNotFound(w) ==
    /\ At("idle") /\ w \in queue
    /\ ~PodExists(w)
    /\ queue' = queue \ {w}
    /\ Untouched /\ UNCHANGED <<hist, mp, aged, faults, lost, rec, pending>>

Start(w, pc, n, dups) ==
    /\ At("idle") /\ w \in queue
    /\ PodExists(w)
    /\ queue' = queue \ {w}
    /\ rec' = [pc |-> pc, w |-> w,
               active |-> IsPodActive(w), running |-> pods[w] = "running",
               n |-> n, obj |-> IF n = Nil THEN NoS3PA ELSE Cached[n],
               m |-> Nil, dups |-> dups]
    /\ Untouched /\ UNCHANGED <<hist, mp, aged, faults, lost, pending>>

ReconcileFindsNone(w) ==
    Live(Cached) = {} /\ Start(w, "listed", Nil, {})

ReconcileFindsOne(w) ==
    \E n \in S3PAs : Live(Cached) = {n} /\ Start(w, "listed", n, {})

WithMountpointPods  == {n \in Live(Cached) : Cached[n].keys # {}}
NoMountpointPods    == {n \in Live(Cached) : Cached[n].keys = {}}
SeveralIn(S)        == \E a, b \in S : a # b

(* recoverFromDuplicateS3PodAttachments: keep the only one that refers to      *)
(* Mountpoint Pods, delete the others; with several such it is an error.       *)
ReconcileFindsDuplicates(w) ==
    /\ SeveralIn(Live(Cached))
    /\ ~SeveralIn(WithMountpointPods)
    /\ \E n \in S3PAs \cup {Nil} :
        /\ IF n = Nil THEN WithMountpointPods = {} ELSE WithMountpointPods = {n}
        /\ Start(w, "recover", n, {<<d, Cached[d].rv>> : d \in NoMountpointPods})

ReconcileGivesUpOnDuplicates(w) ==
    /\ At("idle") /\ w \in queue
    /\ PodExists(w)
    /\ SeveralIn(WithMountpointPods)
    /\ Untouched /\ UNCHANGED <<hist, mp, aged, faults, lost, queue, rec, pending>>

DeleteDuplicate(d) ==
    /\ At("recover") /\ d \in rec.dups
    /\ \/ /\ DeleteOk(d[1], d[2])
          /\ rec' = [rec EXCEPT !.dups = @ \ {d},
                                !.pc = IF rec.dups = {d} THEN "listed" ELSE @]
          /\ pending' = (pending /\ ~(rec.dups = {d} /\ rec.n = Nil))
          /\ UNCHANGED queue
       \/ DeleteFails(d[1], d[2]) /\ Requeue /\ UNCHANGED pending
    /\ Untouched /\ UNCHANGED <<mp, aged>>

-----------------------------------------------------------------------------
(* Attaching: handleExistingS3PodAttachment, addWorkloadToS3PodAttachment,      *)
(* handleNewS3PodAttachment.                                                    *)

(* Mutant: the driver version of the Pod is not looked at. *)
SuitableOfAnyVersion(m) ==
    mpSeen[m].phase # "none" /\ ~mpSeen[m].needsUnmount /\ ~mpSeen[m].noNewWorkload

(* shouldAssignNewWorkloadToMountpointPod, on the cached Pod *)
Suitable(m) ==
    /\ mpSeen[m].phase # "none"
    /\ ~mpSeen[m].needsUnmount
    /\ ~mpSeen[m].noNewWorkload
    /\ mpSeen[m].version = version

(* Mutant: a workload that is attached already is attached again. *)
HandleExistingUnchecked ==
    /\ At("listed") /\ rec.active /\ rec.n # Nil
    /\ pending' = FALSE
    /\ \/ /\ \E m \in rec.obj.keys :
                Suitable(m) /\ rec' = [rec EXCEPT !.pc = "assign", !.m = m]
          /\ UNCHANGED queue
       \/ (\A m \in rec.obj.keys : ~Suitable(m)) /\ GoTo("spawn")
    /\ Untouched /\ UNCHANGED <<hist, mp, aged, faults, lost>>

HandleExistingS3PodAttachment ==
    /\ At("listed") /\ rec.active /\ rec.n # Nil
    /\ pending' = FALSE
    /\ \/ ContainsWorkload(rec.obj, rec.w) /\ DontRequeue
       \/ /\ ~ContainsWorkload(rec.obj, rec.w)
          /\ \E m \in rec.obj.keys :
                Suitable(m) /\ rec' = [rec EXCEPT !.pc = "assign", !.m = m]
          /\ UNCHANGED queue
       \/ /\ ~ContainsWorkload(rec.obj, rec.w)
          /\ \A m \in rec.obj.keys : ~Suitable(m)
          /\ GoTo("spawn")
    /\ Untouched /\ UNCHANGED <<hist, mp, aged, faults, lost>>

(* assignWorkloadToAnExistingMountpointPod: the Update *)
AssignWorkload ==
    /\ At("assign")
    /\ LET obj == AppendWorkload(rec.obj, rec.m, rec.w)
       IN  \/ UpdateOk(rec.n, obj) /\ DontRequeue
           \/ UpdateFails(rec.n, obj) /\ Requeue
    /\ aged' = IF hist' = hist THEN aged ELSE aged \ {rec.w}
    /\ Untouched /\ UNCHANGED <<mp, pending>>

(* Mutant: the expectation is not consulted. *)
HandleNewUnexpected ==
    /\ At("listed") /\ rec.active /\ rec.n = Nil
    /\ IF rec.running THEN DontRequeue ELSE GoTo("spawn")
    /\ Untouched /\ UNCHANGED <<hist, mp, aged, faults, lost, pending>>

(* Mutant: a workload that has to wait for the expectation is dropped. *)
HandleNewDropped ==
    /\ At("listed") /\ rec.active /\ rec.n = Nil
    /\ IF pending \/ rec.running THEN DontRequeue ELSE GoTo("spawn")
    /\ Untouched /\ UNCHANGED <<hist, mp, aged, faults, lost, pending>>

HandleNewS3PodAttachment ==
    /\ At("listed") /\ rec.active /\ rec.n = Nil
    /\ \/ pending /\ Requeue
       \/ ~pending /\ rec.running /\ DontRequeue
       \/ ~pending /\ ~rec.running /\ GoTo("spawn")
    /\ Untouched /\ UNCHANGED <<hist, mp, aged, faults, lost, pending>>

Spawned == [NoPod EXCEPT !.phase = "running", !.version = version]

(* spawnMountpointPod, with a generated name that nothing refers to *)
SpawnMountpointPod(fresh) ==
    /\ At("spawn")
    /\ \E m \in fresh :
        \/ /\ mp' = [mp EXCEPT ![m] = Spawned]
           /\ rec' = [rec EXCEPT !.pc = IF rec.n = Nil THEN "create" ELSE "update",
                                 !.m = m]
           /\ UNCHANGED <<queue, faults>>
        \/ Fault /\ Requeue /\ mp' \in {mp, [mp EXCEPT ![m] = Spawned]}
    /\ Untouched /\ UNCHANGED <<hist, aged, lost, pending>>

UpdateWithSpawned ==
    /\ At("update")
    /\ LET obj == AppendWorkload(rec.obj, rec.m, rec.w)
       IN  \/ UpdateOk(rec.n, obj) /\ DontRequeue
           \/ UpdateFails(rec.n, obj) /\ GoTo("cleanup")
    /\ aged' = IF hist' = hist THEN aged ELSE aged \ {rec.w}
    /\ Untouched /\ UNCHANGED <<mp, pending>>

NewS3PA ==
    AppendWorkload([NoS3PA EXCEPT !.live = TRUE, !.rv = 1], rec.m, rec.w)

(* createS3PodAttachmentWithMPPod, and setPending when it succeeds *)
CreateS3PodAttachment(fresh) ==
    /\ At("create")
    /\ \E n \in fresh :
        \/ /\ Commit(n, NewS3PA)
           /\ pending' = TRUE
           /\ Requeue
           /\ UNCHANGED <<faults, lost>>
        \/ Fault /\ GoTo("cleanup") /\ UNCHANGED <<hist, lost, pending>>
        \/ /\ Fault /\ Commit(n, NewS3PA) /\ lost' = TRUE
           /\ GoTo("cleanup") /\ UNCHANGED pending
    /\ aged' = IF hist' = hist THEN aged ELSE aged \ {rec.w}
    /\ Untouched /\ UNCHANGED mp

(* The spawned Pod is deleted; an error here is only logged. *)
CleanupSpawned ==
    /\ At("cleanup")
    /\ Requeue
    /\ \/ mp' = [mp EXCEPT ![rec.m] = NoPod] /\ UNCHANGED faults
       \/ Fault /\ UNCHANGED mp
    /\ Untouched /\ UNCHANGED <<hist, aged, lost, pending>>

-----------------------------------------------------------------------------
(* Detaching: handleInactivePod, removeWorkloadFromS3PodAttachment.             *)

HandleInactivePod ==
    /\ At("listed") /\ ~rec.active
    /\ \/ rec.n = Nil /\ DontRequeue
       \/ /\ rec.n # Nil
          /\ GoTo(IF ContainsWorkload(rec.obj, rec.w) THEN "removeUID" ELSE "removeMPs")
    /\ Untouched /\ UNCHANGED <<hist, mp, aged, faults, lost, pending>>

RemoveWorkload ==
    /\ At("removeUID")
    /\ \E m \in MountpointPods :
        LET obj == FilterWorkload(rec.obj, m, rec.w)
        IN  /\ rec.w \in rec.obj.wl[m]
            /\ \/ /\ UpdateOk(rec.n, obj)
                  /\ rec' = [rec EXCEPT !.pc = "removeMPs",
                                        !.obj = [obj EXCEPT !.rv = @ + 1]]
                  /\ UNCHANGED queue
               \/ UpdateFails(rec.n, obj) /\ Requeue
    /\ Untouched /\ UNCHANGED <<mp, aged, pending>>

(* Mutant: a failed annotation is ignored. *)
AnnotateUnusedMPOrNot(m) ==
    /\ At("removeMPs") /\ m \in EmptyMPs(rec.obj)
    /\ AddNeedsUnmountAnnotation(m) \/ AddNeedsUnmountAnnotationFails(m)
    /\ rec' = [rec EXCEPT !.pc = "removeKey", !.m = m]
    /\ Untouched /\ UNCHANGED <<hist, aged, lost, pending, queue>>

AnnotateUnusedMP(m) ==
    /\ At("removeMPs") /\ m \in EmptyMPs(rec.obj)
    /\ \/ /\ AddNeedsUnmountAnnotation(m)
          /\ rec' = [rec EXCEPT !.pc = "removeKey", !.m = m]
          /\ UNCHANGED queue
       \/ AddNeedsUnmountAnnotationFails(m) /\ Requeue
    /\ Untouched /\ UNCHANGED <<hist, aged, lost, pending>>

RemoveUnusedMP ==
    /\ At("removeKey")
    /\ LET obj == DropKey(rec.obj, rec.m)
       IN  \/ /\ UpdateOk(rec.n, obj)
              /\ rec' = [rec EXCEPT !.pc = "removeMPs", !.m = Nil,
                                    !.obj = [obj EXCEPT !.rv = @ + 1]]
              /\ UNCHANGED queue
           \/ UpdateFails(rec.n, obj) /\ Requeue
    /\ Untouched /\ UNCHANGED <<mp, aged, pending>>

(* Mutant: the expectation outlives the S3PA. *)
RemoveS3PAOnly ==
    /\ At("removeMPs") /\ EmptyMPs(rec.obj) = {}
    /\ \/ rec.obj.keys # {} /\ DontRequeue /\ UNCHANGED <<hist, faults, lost>>
       \/ rec.obj.keys = {} /\ DeleteOk(rec.n, rec.obj.rv) /\ DontRequeue
       \/ rec.obj.keys = {} /\ DeleteFails(rec.n, rec.obj.rv) /\ Requeue
    /\ Untouched /\ UNCHANGED <<mp, aged, pending>>

(* The S3PA is deleted if its map is empty; a pending expectation is cleared. *)
RemoveS3PodAttachment ==
    /\ At("removeMPs") /\ EmptyMPs(rec.obj) = {}
    /\ \/ /\ rec.obj.keys # {}
          /\ DontRequeue
          /\ UNCHANGED <<hist, faults, lost, pending>>
       \/ /\ rec.obj.keys = {}
          /\ DeleteOk(rec.n, rec.obj.rv)
          /\ pending' = FALSE
          /\ DontRequeue
       \/ /\ rec.obj.keys = {}
          /\ DeleteFails(rec.n, rec.obj.rv)
          /\ Requeue
          /\ UNCHANGED pending
    /\ Untouched /\ UNCHANGED <<mp, aged>>

-----------------------------------------------------------------------------
(* reconcileMountpointPod: a Mountpoint Pod that succeeded is deleted.          *)
ReconcileMountpointPod(m) ==
    /\ At("idle")
    /\ mpSeen[m].phase = "succeeded"
    /\ mp' = [mp EXCEPT ![m] = NoPod]
    /\ Untouched
    /\ UNCHANGED <<hist, aged, faults, lost, queue, rec, pending>>

ReconcileWorkload(w) ==
    \/ ReconcileNotFound(w)
    \/ ReconcileFindsNone(w)
    \/ ReconcileFindsOne(w)
    \/ ReconcileFindsDuplicates(w)
    \/ ReconcileGivesUpOnDuplicates(w)

ReconcileStep(freshMPs, freshS3PAs) ==
    \/ \E d \in rec.dups : DeleteDuplicate(d)
    \/ HandleExistingS3PodAttachment
    \/ AssignWorkload
    \/ HandleNewS3PodAttachment
    \/ SpawnMountpointPod(freshMPs)
    \/ UpdateWithSpawned
    \/ CreateS3PodAttachment(freshS3PAs)
    \/ CleanupSpawned
    \/ HandleInactivePod
    \/ RemoveWorkload
    \/ \E m \in MountpointPods : AnnotateUnusedMP(m)
    \/ RemoveUnusedMP
    \/ RemoveS3PodAttachment
=============================================================================
