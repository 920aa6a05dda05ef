-------------------------------- MODULE Node --------------------------------
(***************************************************************************)
(* One node: the node plugin's Mount and Unmount calls, its Pod unmounter  *)
(* and the Mountpoint Pods, which meet at the source directories.          *)
(***************************************************************************)
EXTENDS PodMounter, PodUnmounter, MountpointContainer

CONSTANT MaxRestarts    \* how often the node plugin restarts

ASSUME RestartsAssumption == MaxRestarts \in Nat

VARIABLE restarts

vars == <<hostVars, mounterVars, unmounter, restarts>>

TypeOK ==
    /\ HostTypeOK /\ MounterTypeOK /\ UnmounterTypeOK
    /\ restarts \in 0..MaxRestarts

Init == HostInit /\ MounterInit /\ UnmounterInit /\ restarts = 0

(* lockMountpointPod, as PodMutex promises it *)
Free(p) == LockedCalls(p) = {} /\ LockedUnmounters(p) = {}

(* The plugin's process ends: calls, goroutines and locks are gone, descriptors *)
(* are closed.  It serves again once its caches are synced.                     *)
Restart ==
    /\ restarts < MaxRestarts
    /\ restarts' = restarts + 1
    /\ call' = [c \in Calls |-> NoCall]
    /\ unmounter' = [u \in Unmounters |-> UnmounterIdle]
    /\ podSeen' = pod
    /\ source' = [p \in MountpointPods |->
                    IF source[p] = "pending" /\ proc[p] # "starting" THEN "corrupted" ELSE source[p]]
    /\ UNCHANGED <<bound, proc, files, pod, crashes, deletions, workload, attachment, expiries>>

CallStep(c) ==
    \/ GetS3PodAttachment(c)
    \/ WaitForMountpointPod(c)
    \/ LockMountpointPod(c, Free(call[c].mp))
    \/ CheckSource(c)
    \/ ProvideCredentials(c)
    \/ MountSyscall(c)
    \/ SendMountOptions(c)
    \/ WaitForMount(c)
    \/ BindMount(c)
    \/ UnmountTarget(c)

MounterNext ==
    \/ \E c \in Calls : CallStep(c) \/ Expire(c) \/ \E t \in Targets : PublishVolume(c, t) \/ UnpublishVolume(c, t)
    \/ \E t \in Targets :
        \/ WorkloadScheduled(t)
        \/ WorkloadTerminates(t)
        \/ ControllerDetaches(t)
        \/ \E p \in MountpointPods : ControllerAttaches(t, p)
    \/ \E p \in MountpointPods : ControllerAnnotates(p)

UnmounterStep(u) ==
    \/ UnmountMountpointPodIfNeeded(u, Free(unmounter[u].mp))
    \/ WriteExitFile(u)
    \/ CheckMountpointSource(u)
    \/ WaitUntilMountpointIsUnused(u)
    \/ UnmountSource(u)
    \/ RemoveSource(u)
    \/ CleanupCredentials(u)

UnmounterNext ==
    \/ CleanupDanglingMounts
    \/ \E p \in MountpointPods : HandleMountpointPodUpdate(p) \/ NextEntry(p)
    \/ \E u \in Unmounters : UnmounterStep(u)

ContainerStep(p) == RecvFails(p) \/ Serve(p) \/ RunEnds(p)

PodsNext ==
    \E p \in MountpointPods :
        \/ ContainerStep(p)
        \/ RunFails(p, NodeHoldsFd(p))
        \/ Observe(p)
        \/ DeleteSucceeded(p)
        \/ DeleteRunning(p, NodeHoldsFd(p))

Next ==
    \/ MounterNext /\ UNCHANGED <<unmounter, restarts>>
    \/ UnmounterNext /\ UNCHANGED <<mounterVars, restarts>>
    \/ PodsNext /\ UNCHANGED <<mounterVars, unmounter, restarts>>
    \/ Restart

Spec == Init /\ [][Next]_vars

(* The scheduler runs every goroutine and process; a goroutine that waits for a *)
(* mutex gets it in the end (Go's mutexes are starvation free).  The kubelet    *)
(* and the controller repeat their work until it is done, and the informer      *)
(* resyncs.  Nothing makes workloads end, processes fail or calls expire.       *)
Fairness ==
    /\ \A c \in Calls :
        /\ WF_vars(CallStep(c) /\ UNCHANGED <<unmounter, restarts>>)
        /\ SF_vars(LockMountpointPod(c, Free(call[c].mp)) /\ UNCHANGED <<unmounter, restarts>>)
    /\ \A t \in Targets :
        /\ SF_vars((\E c \in Calls : PublishVolume(c, t)) /\ UNCHANGED <<unmounter, restarts>>)
        /\ SF_vars((\E c \in Calls : UnpublishVolume(c, t)) /\ UNCHANGED <<unmounter, restarts>>)
        /\ WF_vars((\E p \in MountpointPods : ControllerAttaches(t, p)) /\ UNCHANGED <<unmounter, restarts>>)
    /\ \A u \in Unmounters :
        /\ WF_vars(UnmounterStep(u) /\ UNCHANGED <<mounterVars, restarts>>)
        /\ SF_vars(UnmountMountpointPodIfNeeded(u, Free(unmounter[u].mp)) /\ UNCHANGED <<mounterVars, restarts>>)
    /\ \A p \in MountpointPods :
        /\ SF_vars(HandleMountpointPodUpdate(p) /\ UNCHANGED <<mounterVars, restarts>>)
        /\ WF_vars((ContainerStep(p) \/ Observe(p)) /\ UNCHANGED <<mounterVars, unmounter, restarts>>)

FairSpec == Spec /\ Fairness

-----------------------------------------------------------------------------
(* The unmounter never takes a served file system from under a target that      *)
(* uses it: references are counted and the source unmounted under the lock that *)
(* Mount holds from its check of the source to its bind mount.                  *)
UnmountSparesWorkloads ==
    [][\A p \in MountpointPods :
          source[p] = "served" /\ source'[p] = "dir" => ~HasLive(bound, p)]_vars

(* A target is never bound to the bare directory of a source, where a workload  *)
(* would write to the node's disk: Mount binds under the lock, after it saw the *)
(* file system served.                                                          *)
BindsOnlyMountpoints ==
    \A t \in Targets : \A i \in DOMAIN bound[t] : bound[t][i].fs # "bare"

(* That can happen only for a Mountpoint Pod that was deleted under a Mount: the *)
(* scan for dangling mounts takes no lock, but it leaves Pods that exist alone.  *)
BareOnlyOfDeleted ==
    \A t \in Targets : \A i \in DOMAIN bound[t] :
        bound[t][i].fs = "bare" => pod[bound[t][i].mp] = "gone"

(* Mounts of a file system, among those on a target *)
FsMounts(b) == {i \in DOMAIN b : b[i].fs # "bare"}

(* Unpublish unmounts once, so what else a target carries stays.  A second mount *)
(* of a file system costs a call the kubelet gave up on, which overlaps the next *)
(* one; a mount of a bare directory costs a Mountpoint Pod.  Repeated calls,     *)
(* failures of mount-s3, restarts and unmounts by others pile up none.           *)
MountsAccountedFor ==
    /\ \A t \in Targets : Cardinality(FsMounts(bound[t])) <= 1 + expiries
    /\ \A t, u \in Targets : \A i \in DOMAIN bound[t], j \in DOMAIN bound[u] :
          bound[t][i].fs = "bare" /\ bound[u][j] = bound[t][i] => t = u /\ i = j

(* A target carries one mount.  It needs that no call expired and that no       *)
(* Mountpoint Pod was deleted under a Mount, which nothing guarantees.          *)
TargetBoundOnce == \A t \in Targets : Len(bound[t]) <= 1

(* A FUSE mount nobody will ever answer on is not left behind: someone who      *)
(* removes it or serves it has its descriptor.                                  *)
NoAbandonedMount ==
    \A p \in MountpointPods :
        source[p] = "pending" => NodeHoldsFd(p) \/ proc[p] = "starting"

(* A workload that uses a file system has credentials in the Pod that serves it: *)
(* the unmounter's cleanup never removes them from a Pod that is mounted again.  *)
WorkloadHasCredentials ==
    \A t \in Targets, p \in MountpointPods :
        bound[t] # <<>> /\ Head(bound[t]) = [mp |-> p, fs |-> "live"] => files[p].creds

(* A container that ends completes its Pod exactly when mount.exit asks for it. *)
CleanExit ==
    [][\A p \in MountpointPods :
          proc[p] \in {"starting", "serving", "ended"} /\ proc'[p] \in {"listening", "done"}
            => (proc'[p] = "done" <=> files[p].exit)]_vars

(* A Mountpoint Pod the controller annotated is unmounted and completes. *)
AnnotatedCompletes ==
    \A p \in MountpointPods : pod[p] = "annotated" ~> pod[p] \in {"succeeded", "gone"}

(* A workload gets its volume, and gets it back after mount-s3 or the plugin     *)
(* failed, as long as a Mountpoint Pod is there for it.                          *)
VolumeIsServed ==
    \A t \in Targets :
        workload[t] = "wanted" ~>
            \/ workload[t] # "wanted" \/ TargetState(t) = "served"
            \/ \A p \in MountpointPods : pod[p] # "running"

(* A call whose context ended returns: ctx controls cancellation and timeout. *)
ExpiredCallsReturn == \A c \in Calls : call[c].expired ~> call[c].pc = "idle"
=============================================================================
