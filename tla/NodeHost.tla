------------------------------ MODULE NodeHost ------------------------------
(***************************************************************************)
(* What the node plugin and the Mountpoint Pods of one node share: the     *)
(* kernel's mount table, the files in the directory of each Pod, and the   *)
(* Pods themselves as the API server and the plugin's informer see them.   *)
(***************************************************************************)
EXTENDS Integers, Sequences, FiniteSets

CONSTANTS
    MountpointPods,   \* Mountpoint Pods scheduled to the node; names are never reused
    Targets,          \* target paths: one per workload Pod and volume
    Nil,
    MaxCrashes,       \* how often mount-s3 fails
    ErrorsAreWritten, \* whether writing mount.err always succeeds
    MaxDeletions      \* how many Mountpoint Pods are deleted under their workloads

ASSUME HostAssumption ==
    /\ Nil \notin MountpointPods /\ Nil \notin Targets
    /\ MaxCrashes \in Nat /\ MaxDeletions \in Nat /\ ErrorsAreWritten \in BOOLEAN

VARIABLES
    source,     \* what is at the source path of each Mountpoint Pod
    bound,      \* mounts on each target path, the top one first
    proc,       \* container of each Mountpoint Pod
    files,      \* mount.exit, mount.err and credentials of each Mountpoint Pod
    pod,        \* each Mountpoint Pod in the API server
    podSeen,    \* ... and in the cache of the node's watcher
    crashes, deletions

hostVars == <<source, bound, proc, files, pod, podSeen, crashes, deletions>>

(* A FUSE mount is pending until mount-s3 answers on its descriptor: until then *)
(* statx blocks.  It is corrupted (ENOTCONN) once every descriptor is closed.   *)
SourceStates == {"absent", "dir", "pending", "served", "corrupted"}

(* A mount on a target is of the file system of a Mountpoint Pod, live or dead, *)
(* or of the bare directory under it.                                           *)
MountType == [mp : MountpointPods, fs : {"live", "dead", "bare"}]

ProcStates == {"listening", "starting", "serving", "ended", "done", "off"}

PodStates == {"running", "annotated", "succeeded", "gone"}

NoFiles == [exit |-> FALSE, err |-> FALSE, creds |-> FALSE]

HostTypeOK ==
    /\ source \in [MountpointPods -> SourceStates]
    /\ bound \in [Targets -> Seq(MountType)]
    /\ proc \in [MountpointPods -> ProcStates]
    /\ files \in [MountpointPods -> [exit : BOOLEAN, err : BOOLEAN, creds : BOOLEAN]]
    /\ pod \in [MountpointPods -> PodStates]
    /\ podSeen \in [MountpointPods -> PodStates]
    /\ crashes \in 0..MaxCrashes
    /\ deletions \in 0..MaxDeletions

HostInit ==
    /\ source = [p \in MountpointPods |-> "absent"]
    /\ bound = [t \in Targets |-> <<>>]
    /\ proc = [p \in MountpointPods |-> "listening"]
    /\ files = [p \in MountpointPods |-> NoFiles]
    /\ pod = [p \in MountpointPods |-> "running"]
    /\ podSeen = [p \in MountpointPods |-> "gone"]   \* not yet seen
    /\ crashes = 0 /\ deletions = 0

-----------------------------------------------------------------------------
(* CheckMountpoint: whether the path holds a healthy Mountpoint mount; a bare   *)
(* bind mount is a mount of something else.                                     *)
TargetState(t) == IF bound[t] = <<>> THEN "dir"
                  ELSE CASE Head(bound[t]).fs = "live" -> "served"
                         [] Head(bound[t]).fs = "dead" -> "corrupted"
                         [] OTHER                      -> "dir"

IsReady(ph)     == ph \in {"running", "annotated"}      \* phase Running
NeedsUnmount(ph) == ph \in {"annotated", "succeeded"}   \* the annotation stays

(* FindReferencesToMountpoint: the bind mounts of the file system of p *)
References(p) ==
    {t \in Targets : \E i \in DOMAIN bound[t] : bound[t][i].mp = p /\ bound[t][i].fs # "bare"}

HasLive(b, p) == \E t \in DOMAIN b : \E i \in DOMAIN b[t] : b[t][i] = [mp |-> p, fs |-> "live"]

(* umount: once nothing mounts a file system, mount-s3's session ends. *)
Mounts(s, b) ==
    /\ source' = s
    /\ bound' = b
    /\ proc' = [p \in MountpointPods |->
                  IF /\ proc[p] \in {"starting", "serving"}
                     /\ s[p] \notin {"pending", "served"}
                     /\ ~HasLive(b, p)
                  THEN "ended" ELSE proc[p]]

(* The container's process dies.  The file system is dead once no process holds *)
(* the descriptor; nodeHolds says whether the node plugin still has it.         *)
ProcessDies(p, next, nodeHolds) ==
    /\ proc' = [proc EXCEPT ![p] = next]
    /\ source' = [source EXCEPT ![p] =
                    IF source[p] \notin {"pending", "served"} THEN source[p]
                    ELSE IF nodeHolds THEN "pending" ELSE "corrupted"]
    /\ bound' = [t \in Targets |->
                   [i \in DOMAIN bound[t] |->
                      IF bound[t][i] = [mp |-> p, fs |-> "live"]
                      THEN [mp |-> p, fs |-> "dead"] ELSE bound[t][i]]]

-----------------------------------------------------------------------------
(* The informer delivers the state of a Pod; it may skip some. *)
Observe(p) ==
    /\ podSeen[p] # pod[p]
    /\ podSeen' = [podSeen EXCEPT ![p] = pod[p]]
    /\ UNCHANGED <<source, bound, proc, files, pod, crashes, deletions>>

(* The controller deletes a Mountpoint Pod that succeeded. *)
DeleteSucceeded(p) ==
    /\ pod[p] = "succeeded"
    /\ pod' = [pod EXCEPT ![p] = "gone"]
    /\ files' = [files EXCEPT ![p] = NoFiles]
    /\ proc' = [proc EXCEPT ![p] = "off"]
    /\ UNCHANGED <<source, bound, podSeen, crashes, deletions>>

(* Someone deletes it while it runs: eviction, preemption, kubectl. *)
DeleteRunning(p, nodeHolds) ==
    /\ deletions < MaxDeletions /\ IsReady(pod[p])
    /\ deletions' = deletions + 1
    /\ pod' = [pod EXCEPT ![p] = "gone"]
    /\ files' = [files EXCEPT ![p] = NoFiles]
    /\ ProcessDies(p, "off", nodeHolds)
    /\ UNCHANGED <<podSeen, crashes>>
=============================================================================
