------------------------------ MODULE Headroom ------------------------------
(***************************************************************************)
(* Headroom Pods (cmd/aws-s3-csi-controller/csicontroller/reconciler.go,   *)
(* stale_attachment_cleaner.go, pkg/podmounter/mppod/headroom.go): for a   *)
(* gated workload the controller labels it, creates one Headroom Pod per   *)
(* volume, removes the gate, and takes the Headroom Pods away again when   *)
(* the workload runs or ends.  Names of Headroom Pods are a function of    *)
(* workload and volume, so one workload is enough.                         *)
(***************************************************************************)
EXTENDS Integers, Sequences, SequencesExt

CONSTANTS
    Volumes,        \* S3 volumes of the workload
    MaxLag,         \* changes the informer cache may be behind
    MaxDisruptions  \* API calls that fail, restarts of the controller, preempted Headroom Pods

ASSUME BoundsAssumption == MaxLag \in Nat /\ MaxDisruptions \in Nat

VARIABLES
    store,    \* Pods as the informer (first element) and the API server (last) have them
    bound,    \* volumes whose claims are bound
    queued,   \* the workload is in the work queue
    rec,      \* the reconciliation that runs
    cleaner,  \* Headroom Pods the cleaner found stale and still deletes
    disruptions  \* so far

vars == <<store, bound, queued, rec, cleaner, disruptions>>

Gate == "reserve-headroom-for-mppod"

(* Other controllers gate a Pod too. *)
Gates == {Gate, "other"}

WorkloadType ==
    [phase : {"unscheduled", "scheduled", "running", "gone"}, terminating : BOOLEAN,
     gates : SUBSET Gates, label : BOOLEAN]

HeadroomType == [Volumes -> {"none", "exists", "deleted", "preempted"}]

RecType ==
    [pc : {"idle", "volumes", "delete", "ungate", "unlabel"}, pod : WorkloadType,
     scheduled : BOOLEAN, needs : BOOLEAN, has : BOOLEAN, unbound : BOOLEAN, err : BOOLEAN,
     vols : SUBSET Volumes, todo : SUBSET Volumes, cur : SUBSET Volumes,
     created : SUBSET Volumes, removed : SUBSET Volumes]

NoWorkload == [phase |-> "gone", terminating |-> FALSE, gates |-> {}, label |-> FALSE]

RecIdle ==
    [pc |-> "idle", pod |-> NoWorkload, scheduled |-> FALSE, needs |-> FALSE, has |-> FALSE,
     unbound |-> FALSE, err |-> FALSE, vols |-> {}, todo |-> {}, cur |-> {}, created |-> {}, removed |-> {}]

TypeOK ==
    /\ store \in Seq([w : WorkloadType, h : HeadroomType])
    /\ Len(store) \in 1..(MaxLag + 1)
    /\ bound \subseteq Volumes /\ queued \in BOOLEAN
    /\ rec \in RecType /\ (rec.pc = "idle" => rec = RecIdle)
    /\ cleaner \subseteq Volumes
    /\ disruptions \in 0..MaxDisruptions

Init ==
    /\ \E g \in {{Gate}, Gates} :
        store = << [w |-> [phase |-> "unscheduled", terminating |-> FALSE, gates |-> g, label |-> FALSE],
                    h |-> [v \in Volumes |-> "none"]] >>
    /\ bound = {} /\ queued = TRUE
    /\ rec = RecIdle /\ cleaner = {}
    /\ disruptions = 0

-----------------------------------------------------------------------------
(* The API server and the cache *)
Api == Last(store)
Cached == Head(store)

Commit(new) ==
    IF new = Api THEN UNCHANGED store
                 ELSE Len(store) <= MaxLag /\ store' = Append(store, new)

CommitWorkload(w) == Commit([Api EXCEPT !.w = w])
CommitHeadroom(v, s) == Commit([Api EXCEPT !.h[v] = s])

(* A failed call, a restart or a preemption *)
Disruption == disruptions < MaxDisruptions /\ disruptions' = disruptions + 1

(* Workload and Headroom Pods come over one watch; a change of the workload *)
(* queues it.                                                               *)
Observe ==
    /\ Len(store) > 1
    /\ store' = Tail(store)
    /\ queued' = (queued \/ store[2].w # Cached.w)
    /\ UNCHANGED <<bound, rec, cleaner, disruptions>>

IsPodScheduled(w) == w.phase \in {"scheduled", "running"}

(* Mutant: a workload that is only scheduled needs no headroom any more. *)
ShouldDeleteScheduled(w) == w.terminating \/ IsPodScheduled(w)

ShouldDelete(w) == w.terminating \/ w.phase = "running"

-----------------------------------------------------------------------------
(* reconcileWorkloadPod *)
recVars == <<rec, queued>>
Quiet == UNCHANGED <<bound, cleaner>>

(* An error sends the workload back to the queue. *)
ReturnError == rec' = RecIdle /\ queued' = TRUE

(* Nothing to do: the Pod is gone, or neither scheduled, gated nor labelled. *)
ReconcileIgnores ==
    /\ rec.pc = "idle" /\ queued
    /\ \/ Cached.w.phase = "gone"
       \/ Cached.w.phase = "unscheduled" /\ Gate \notin Cached.w.gates /\ ~Cached.w.label
    /\ queued' = FALSE
    /\ UNCHANGED <<store, rec, disruptions>> /\ Quiet

(* getBoundPVForPodClaim finds the volume of a bound claim. *)
IsBound(v) == v \in bound

(* getWorkloadVolumes: the volumes that are ready; the others are tried again. *)
GetWorkloadVolumes == [ready |-> {v \in Volumes : IsBound(v)}, unbound |-> \E v \in Volumes : ~IsBound(v)]

ReconcileWorkloadPod ==
    /\ rec.pc = "idle" /\ queued
    /\ Cached.w.phase # "gone"
    /\ IsPodScheduled(Cached.w) \/ Gate \in Cached.w.gates \/ Cached.w.label
    /\ \/ LET volumes == GetWorkloadVolumes IN
          /\ rec' = [RecIdle EXCEPT
                       !.pc = "volumes", !.pod = Cached.w, !.scheduled = IsPodScheduled(Cached.w),
                       !.needs = Gate \in Cached.w.gates, !.has = Cached.w.label,
                       !.unbound = volumes.unbound, !.vols = volumes.ready, !.todo = volumes.ready]
          /\ queued' = FALSE
          /\ UNCHANGED disruptions
       \/ Disruption /\ ReturnError
    /\ UNCHANGED store /\ Quiet

(* The first volume of a gated workload: it is labelled unless it was. *)
MustLabel == rec.needs /\ ~rec.scheduled /\ rec.todo = rec.vols /\ ~rec.pod.label

LabelWorkloadPod ==
    /\ rec.pc = "volumes" /\ rec.todo # {} /\ MustLabel
    /\ \/ /\ Api.w.phase # "gone"
          /\ LET w == [Api.w EXCEPT !.label = TRUE]
             IN  CommitWorkload(w) /\ rec' = [rec EXCEPT !.pod = w]
          /\ UNCHANGED <<disruptions, queued>>
       \/ Api.w.phase = "gone" /\ ReturnError /\ UNCHANGED <<store, disruptions>>
       \/ Disruption /\ ReturnError /\ UNCHANGED store
    /\ Quiet

Fails(v) == rec' = [rec EXCEPT !.pc = "volumes", !.todo = @ \ {v}, !.cur = {}, !.err = TRUE]

(* Mutant: the workload is not labelled before its Headroom Pods are created. *)
CreateBeforeLabel(v) ==
    /\ rec.pc = "volumes" /\ v \in rec.todo
    /\ rec.needs /\ ~rec.scheduled
    /\ \/ /\ CommitHeadroom(v, "exists")
          /\ rec' = [rec EXCEPT !.pc = "delete", !.cur = {v}, !.created = @ \cup {v}]
          /\ UNCHANGED disruptions
       \/ Disruption /\ Fails(v) /\ UNCHANGED store
    /\ UNCHANGED queued /\ Quiet

(* Names are fixed, so a second Create fails with AlreadyExists and changes nothing. *)
CreateHeadroomPod(v) ==
    /\ rec.pc = "volumes" /\ v \in rec.todo
    /\ rec.needs /\ ~rec.scheduled /\ ~MustLabel
    /\ \/ /\ CommitHeadroom(v, "exists")
          /\ rec' = [rec EXCEPT !.pc = "delete", !.cur = {v}, !.created = @ \cup {v}]
          /\ UNCHANGED disruptions
       \/ Disruption /\ Fails(v) /\ UNCHANGED store
    /\ UNCHANGED queued /\ Quiet

(* spawnOrDeleteMountpointPodIfNeeded of a scheduled workload (module Reconciler): *)
(* here it matters that it may fail, and skips the rest for this volume.           *)
SpawnOrDelete(v) ==
    /\ rec.pc = "volumes" /\ v \in rec.todo /\ rec.scheduled
    /\ \/ rec' = [rec EXCEPT !.pc = "delete", !.cur = {v}] /\ UNCHANGED disruptions
       \/ Disruption /\ Fails(v)
    /\ UNCHANGED <<store, queued>> /\ Quiet

(* A workload that is labelled, not gated and not scheduled: only the delete is left. *)
PassOver(v) ==
    /\ rec.pc = "volumes" /\ v \in rec.todo /\ ~rec.scheduled /\ ~rec.needs
    /\ rec' = [rec EXCEPT !.pc = "delete", !.cur = {v}]
    /\ UNCHANGED <<store, queued, disruptions>> /\ Quiet

(* deleteHeadroomPodForMountpointPod looks the Headroom Pod up in the cache and is *)
(* content if it is not there.                                                     *)
DeleteHeadroomPod(v) ==
    /\ rec.pc = "delete" /\ rec.cur = {v}
    /\ LET wanted == rec.has /\ ShouldDelete(rec.pod)
           next == [rec EXCEPT !.pc = "volumes", !.cur = {}, !.todo = @ \ {v}]
       IN  \/ ~wanted /\ rec' = next /\ UNCHANGED <<store, disruptions>>
           \/ wanted /\ Cached.h[v] # "exists"
                /\ rec' = [next EXCEPT !.removed = @ \cup {v}] /\ UNCHANGED <<store, disruptions>>
           \/ /\ wanted /\ Cached.h[v] = "exists"
              /\ IF Api.h[v] = "exists" THEN CommitHeadroom(v, "deleted") ELSE UNCHANGED store
              /\ rec' = [next EXCEPT !.removed = @ \cup {v}]
              /\ UNCHANGED disruptions
           \/ wanted /\ Cached.h[v] = "exists" /\ Disruption /\ Fails(v) /\ UNCHANGED store
    /\ UNCHANGED queued /\ Quiet

VolumesDone ==
    /\ rec.pc = "volumes" /\ rec.todo = {}
    /\ IF rec.err THEN ReturnError ELSE rec' = [rec EXCEPT !.pc = "ungate"] /\ UNCHANGED queued
    /\ UNCHANGED <<store, disruptions>> /\ Quiet

(* Mutant: the bound volumes decide alone. *)
MayUngateEarly == rec.needs /\ rec.created = rec.vols

(* Every claim is bound and has its Headroom Pod. *)
MayUngate == rec.needs /\ rec.created = rec.vols /\ ~rec.unbound

(* Mutant: the workload is ungated whatever gates it has. *)
UngatedOfAll(gates) == {}

UngatedOf(gates) == gates \ {Gate}

(* A merge patch replaces the list of gates; the API server lets nobody add one. *)
UngateWorkloadPod ==
    /\ rec.pc = "ungate"
    /\ \/ ~MayUngate /\ rec' = [rec EXCEPT !.pc = "unlabel"] /\ UNCHANGED <<store, disruptions, queued>>
       \/ /\ MayUngate /\ Api.w.phase # "gone" /\ UngatedOf(rec.pod.gates) \subseteq Api.w.gates
          /\ CommitWorkload([Api.w EXCEPT !.gates = UngatedOf(rec.pod.gates)])
          /\ rec' = [rec EXCEPT !.pc = "unlabel"]
          /\ UNCHANGED <<disruptions, queued>>
       \/ /\ MayUngate /\ (Api.w.phase = "gone" \/ ~(UngatedOf(rec.pod.gates) \subseteq Api.w.gates))
          /\ ReturnError /\ UNCHANGED <<store, disruptions>>
       \/ MayUngate /\ Disruption /\ ReturnError /\ UNCHANGED store
    /\ Quiet

(* Mutant: a workload with unbound claims is not queued again. *)
ReturnNever == rec' = RecIdle /\ UNCHANGED queued

(* Result{Requeue: requeue} *)
Return == rec' = RecIdle /\ queued' = (queued \/ rec.unbound)

UnlabelWorkloadPod ==
    /\ rec.pc = "unlabel"
    /\ LET wanted == rec.has /\ rec.removed = rec.vols
       IN  \/ ~wanted /\ Return /\ UNCHANGED <<store, disruptions>>
           \/ /\ wanted /\ Api.w.phase # "gone"
              /\ CommitWorkload([Api.w EXCEPT !.label = FALSE])
              /\ Return /\ UNCHANGED disruptions
           \/ wanted /\ Api.w.phase = "gone" /\ ReturnError /\ UNCHANGED <<store, disruptions>>
           \/ wanted /\ Disruption /\ ReturnError /\ UNCHANGED store
    /\ Quiet

-----------------------------------------------------------------------------
(* Mutant: only Headroom Pods of workloads that no longer exist are stale. *)
StaleOnlyOfGone(s) == {v \in Volumes : s.h[v] = "exists" /\ s.w.phase = "gone"}

Stale(s) == {v \in Volumes : s.h[v] = "exists" /\ (s.w.phase = "gone" \/ ShouldDelete(s.w))}

(* cleanupStaleHeadroomPods: one list of all Pods, then a delete for each stale one *)
CleanerLists ==
    /\ cleaner = {} /\ Stale(Cached) # {}
    /\ cleaner' = Stale(Cached)
    /\ UNCHANGED <<store, bound, recVars, disruptions>>

CleanerDeletes(v) ==
    /\ v \in cleaner
    /\ cleaner' = cleaner \ {v}
    /\ \/ /\ IF Api.h[v] = "exists" THEN CommitHeadroom(v, "deleted") ELSE UNCHANGED store
          /\ UNCHANGED disruptions
       \/ Disruption /\ UNCHANGED store
    /\ UNCHANGED <<bound, recVars>>

(* The controller's process ends and starts: caches are filled, every Pod is queued. *)
Restart ==
    /\ Disruption
    /\ rec' = RecIdle /\ cleaner' = {}
    /\ store' = << Api >>
    /\ queued' = TRUE
    /\ UNCHANGED bound

-----------------------------------------------------------------------------
(* Scheduler, kubelet, users *)
WorkloadChanges ==
    LET w == Api.w
    IN  /\ w.phase # "gone"
        /\ \/ /\ w.phase = "unscheduled" /\ w.gates = {} /\ ~w.terminating
              /\ CommitWorkload([w EXCEPT !.phase = "scheduled"])
           \/ w.phase = "scheduled" /\ CommitWorkload([w EXCEPT !.phase = "running"])
           \/ ~w.terminating /\ CommitWorkload([w EXCEPT !.terminating = TRUE])
           \/ w.terminating /\ CommitWorkload(NoWorkload)
           \/ "other" \in w.gates /\ CommitWorkload([w EXCEPT !.gates = @ \ {"other"}])
        /\ UNCHANGED <<bound, recVars, cleaner, disruptions>>

BindClaim(v) ==
    /\ v \notin bound
    /\ bound' = bound \cup {v}
    /\ UNCHANGED <<store, recVars, cleaner, disruptions>>

Preempt(v) ==
    /\ Api.h[v] = "exists" /\ Disruption
    /\ CommitHeadroom(v, "preempted")
    /\ UNCHANGED <<bound, recVars, cleaner>>

ReconcileStep ==
    \/ ReconcileIgnores
    \/ ReconcileWorkloadPod
    \/ LabelWorkloadPod
    \/ \E v \in Volumes : CreateHeadroomPod(v) \/ SpawnOrDelete(v) \/ PassOver(v) \/ DeleteHeadroomPod(v)
    \/ VolumesDone
    \/ UngateWorkloadPod
    \/ UnlabelWorkloadPod

CleanerStep == CleanerLists \/ \E v \in Volumes : CleanerDeletes(v)

Next ==
    \/ ReconcileStep
    \/ CleanerStep
    \/ Observe
    \/ Restart
    \/ WorkloadChanges
    \/ \E v \in Volumes : BindClaim(v) \/ Preempt(v)

Spec == Init /\ [][Next]_vars

(* The worker, the cleaner's ticker and the informer go on for ever. *)
FairSpec == Spec /\ WF_vars(ReconcileStep) /\ WF_vars(CleanerStep) /\ WF_vars(Observe)

-----------------------------------------------------------------------------
Past(w) == w.phase \in {"running", "gone"} \/ w.terminating

(* The gate of a workload falls only after each of its volumes got a Headroom Pod, *)
(* also when claims are bound late, calls fail or the controller restarts between. *)
UngatedWithHeadroom ==
    Gate \notin Api.w.gates /\ Api.w.phase # "gone" => \A v \in Volumes : Api.h[v] # "none"

(* The driver leaves a Headroom Pod alone as long as its workload is pending, *)
(* though reconciler and cleaner decide on a cache that is behind.            *)
HeadroomIsKept ==
    [][\A v \in Volumes :
          Api.h[v] = "exists" /\ Api'.h[v] = "deleted" => Past(Api.w)]_vars

(* A Headroom Pod finds its workload by its label: the label is there before the *)
(* Headroom Pod and stays while both wait for a node.                            *)
HeadroomCanFollow ==
    \A v \in Volumes : Api.h[v] = "exists" /\ ~Past(Api.w) => Api.w.label

(* The controller never removes the gate of another controller: its patch carries *)
(* the whole list of gates, as an older cache had it.                             *)
OtherGatesAreKept ==
    [][rec' # rec => Api.w.gates \ {Gate} \subseteq Api'.w.gates]_vars

(* Headroom Pods go once an ungated workload runs or ends, and none comes back:    *)
(* the cleaner finds those that the reconciler missed in its cache or never saw    *)
(* again.  Of a workload that is being deleted while gated, with a claim unbound,  *)
(* the reconciler creates and deletes the Headroom Pod in turns until it is gone.  *)
HeadroomIsReclaimed ==
    Past(Api.w) /\ Gate \notin Api.w.gates ~> [](\A v \in Volumes : Api.h[v] # "exists")

(* A gated workload whose claims are bound is let go. *)
GateIsRemoved ==
    Gate \in Api.w.gates /\ bound = Volumes ~> Gate \notin Api.w.gates
=============================================================================
