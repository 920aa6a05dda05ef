------------------------------ MODULE Cluster ------------------------------
(***************************************************************************)
(* What the controller of the CSI driver shares with the cluster: the      *)
(* MountpointS3PodAttachments (S3PAs) of ONE field tuple (node, volume,    *)
(* mount options, fsGroup, authentication source ...), the Mountpoint Pods *)
(* they refer to, the workload Pods, and the API server between them.      *)
(*                                                                         *)
(* The API server keeps the S3PAs; the controller writes to it but reads   *)
(* from an informer cache fed by a watch.  `hist' holds the successive     *)
(* contents of the store from the one the cache shows (its head) to the    *)
(* current one (its last element): a write appends, the watch drops the    *)
(* head.  Writes carry a resourceVersion and are refused when it is stale. *)
(* A call may also fail, or be applied and its reply lost.                 *)
(***************************************************************************)
EXTENDS Naturals, Sequences

CONSTANTS
    Workloads,       \* workload Pods (their UIDs) using this field tuple
    MountpointPods,  \* pool of Mountpoint Pod names
    S3PAs,           \* pool of S3PA names
    Versions,        \* CSI driver versions a controller may run
    Nil,             \* "no such name"
    Legacy,          \* workloads already Running, mounted by driver v1
    Mortal,          \* workloads that may terminate
    PodsFirst,       \* a S3PA reaches the cache after the Pods it names
    MaxLag,          \* bound: length of hist
    MaxFaults,       \* bound: failed API calls
    MaxRestarts,     \* bound: controller restarts
    MaxDisturbances  \* bound: evictions, administrator's changes, resyncs

ASSUME NilAssumption ==
    /\ Nil \notin Workloads
    /\ Nil \notin MountpointPods
    /\ Nil \notin S3PAs
    /\ Nil \notin Versions
ASSUME WorkloadAssumption == Legacy \subseteq Workloads /\ Mortal \subseteq Workloads
ASSUME BoundAssumption ==
    /\ MaxLag \in Nat /\ MaxFaults \in Nat
    /\ MaxRestarts \in Nat /\ MaxDisturbances \in Nat
ASSUME FlagAssumption == PodsFirst \in BOOLEAN

VARIABLES
    hist,      \* S3PA stores, from the cached one to the current one
    mp,        \* Mountpoint Pods in the API server
    mpSeen,    \* Mountpoint Pods in the controller's cache
    pods,      \* workload Pods, as the controller's cache shows them
    aged,      \* workloads whose attachment is older than the threshold
    faults,    \* API calls that failed so far
    lost,      \* whether the reply of an applied S3PA write was lost
    restarts,  \* controller restarts so far
    disturbed  \* evictions, administrator's changes and resyncs so far

clusterVars == <<hist, mp, mpSeen, pods, aged, faults, lost, restarts, disturbed>>

-----------------------------------------------------------------------------
(* MountpointS3PodAttachment objects: the map from Mountpoint Pod to the    *)
(* workloads attached to it, as its key set and a total function.           *)

S3PA == [live : BOOLEAN, rv : Nat, keys : SUBSET MountpointPods,
         wl : [MountpointPods -> SUBSET Workloads]]

NoS3PA == [live |-> FALSE, rv |-> 0, keys |-> {}, wl |-> [m \in MountpointPods |-> {}]]

(* s3paContainsWorkload *)
ContainsWorkload(obj, w) == \E m \in MountpointPods : w \in obj.wl[m]

(* Mountpoint Pods of the map with zero workloads *)
EmptyMPs(obj) == {m \in obj.keys : obj.wl[m] = {}}

AppendWorkload(obj, m, w) ==
    [obj EXCEPT !.keys = @ \cup {m}, !.wl = [@ EXCEPT ![m] = obj.wl[m] \cup {w}]]

FilterWorkload(obj, m, w) == [obj EXCEPT !.wl = [@ EXCEPT ![m] = obj.wl[m] \ {w}]]

DropKey(obj, m) == [obj EXCEPT !.keys = @ \ {m}, !.wl = [@ EXCEPT ![m] = {}]]

-----------------------------------------------------------------------------
(* The store, the cache and the calls of the API server.                    *)

Cached == hist[1]
Api    == hist[Len(hist)]

Live(store) == {n \in S3PAs : store[n].live}

Attached(w) == \E n \in S3PAs : Api[n].live /\ ContainsWorkload(Api[n], w)

(* Bound: the watch is at most MaxLag - 1 writes behind. *)
Commit(n, obj) ==
    /\ Len(hist) < MaxLag
    /\ hist' = Append(hist, [Api EXCEPT ![n] = obj])

(* An API call fails without having any effect. *)
Fault == faults < MaxFaults /\ faults' = faults + 1

(* Optimistic concurrency: the object exists with the version the caller read. *)
VersionMatches(n, rv) == Api[n].live /\ Api[n].rv = rv

CommitUpdate(n, obj) ==
    VersionMatches(n, obj.rv) /\ Commit(n, [obj EXCEPT !.rv = @ + 1])

UpdateOk(n, obj) == CommitUpdate(n, obj) /\ UNCHANGED <<faults, lost>>

(* Conflict or NotFound; an error; an applied write whose reply is lost.     *)
UpdateFails(n, obj) ==
    \/ ~VersionMatches(n, obj.rv) /\ UNCHANGED <<hist, faults, lost>>
    \/ Fault /\ UNCHANGED <<hist, lost>>
    \/ Fault /\ CommitUpdate(n, obj) /\ lost' = TRUE

(* Mutant: deleteS3PodAttachment without its resourceVersion precondition *)
BareDelete(n, rv) == Api[n].live /\ Commit(n, NoS3PA)

(* deleteS3PodAttachment: always with a resourceVersion precondition *)
CommitDelete(n, rv) == VersionMatches(n, rv) /\ Commit(n, NoS3PA)

DeleteOk(n, rv) == CommitDelete(n, rv) /\ UNCHANGED <<faults, lost>>

DeleteFails(n, rv) ==
    \/ ~VersionMatches(n, rv) /\ UNCHANGED <<hist, faults, lost>>
    \/ Fault /\ UNCHANGED <<hist, lost>>
    \/ Fault /\ CommitDelete(n, rv) /\ lost' = TRUE

-----------------------------------------------------------------------------
(* Pods.                                                                    *)

MountpointPod == [phase : {"none", "running", "succeeded"}, needsUnmount : BOOLEAN,
                  noNewWorkload : BOOLEAN, version : Versions \cup {Nil}]

NoPod == [phase |-> "none", needsUnmount |-> FALSE,
          noNewWorkload |-> FALSE, version |-> Nil]

(* `terminating' is Pending with a DeletionTimestamp; a Running Pod stays     *)
(* `running' while it terminates; `done' is Succeeded or Failed.              *)
PodStates == {"absent", "pending", "running", "terminating", "done", "gone"}

PodExists(w) == pods[w] \notin {"absent", "gone"}

(* isPodActive *)
IsPodActive(w) == pods[w] \in {"pending", "running"}

(* addNeedsUnmountAnnotation: a Get from the cache (NotFound is not an error), *)
(* then an Update that is refused when the cached Pod is stale.                *)
Annotate(m) ==
    /\ mpSeen[m].phase # "none"
    /\ mpSeen[m] = mp[m]
    /\ mp' = [mp EXCEPT ![m] = [mp[m] EXCEPT !.needsUnmount = TRUE]]

AddNeedsUnmountAnnotation(m) ==
    /\ \/ mpSeen[m].phase = "none" /\ UNCHANGED mp
       \/ Annotate(m)
    /\ UNCHANGED faults

AddNeedsUnmountAnnotationFails(m) ==
    \/ mpSeen[m].phase # "none" /\ mpSeen[m] # mp[m] /\ UNCHANGED <<mp, faults>>
    \/ mpSeen[m].phase # "none" /\ Fault /\ UNCHANGED mp
    \/ Fault /\ Annotate(m)

-----------------------------------------------------------------------------
ClusterTypeOK ==
    /\ hist \in Seq([S3PAs -> S3PA]) /\ Len(hist) > 0
    /\ mp \in [MountpointPods -> MountpointPod]
    /\ mpSeen \in [MountpointPods -> MountpointPod]
    /\ pods \in [Workloads -> PodStates]
    /\ aged \subseteq Workloads
    /\ faults \in Nat
    /\ lost \in BOOLEAN
    /\ restarts \in Nat
    /\ disturbed \in Nat

ClusterInit ==
    /\ hist = << [n \in S3PAs |-> NoS3PA] >>
    /\ mp = [m \in MountpointPods |-> NoPod]
    /\ mpSeen = mp
    /\ pods = [w \in Workloads |-> IF w \in Legacy THEN "running" ELSE "absent"]
    /\ aged = {}
    /\ faults = 0
    /\ lost = FALSE
    /\ restarts = 0
    /\ disturbed = 0
=============================================================================
