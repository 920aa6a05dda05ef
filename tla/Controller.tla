----------------------------- MODULE Controller -----------------------------
(***************************************************************************)
(* The controller process: the reconciler and the stale attachment cleaner *)
(* run concurrently in the leader (cmd/aws-s3-csi-controller/main.go), on  *)
(* one API server, while Pods come and go.                                 *)
(***************************************************************************)
EXTENDS Reconciler, StaleAttachmentCleaner

CONSTANT CleanerRuns   \* whether the cleaner is started

ASSUME CleanerRunsAssumption == CleanerRuns \in BOOLEAN

vars == <<clusterVars, reconcilerVars, cl>>

Init == ClusterInit /\ ReconcilerInit /\ CleanerInit

(* Generated names differ from every name in the cluster, in the cache or in a *)
(* local copy: a name of the pool is taken again only when nothing refers to it. *)
FreshMPs ==
    {m \in MountpointPods :
        /\ mp[m].phase = "none" /\ mpSeen[m].phase = "none"
        /\ \A i \in 1..Len(hist) : \A n \in S3PAs : m \notin hist[i][n].keys
        /\ m \notin rec.obj.keys /\ m \notin cl.obj.keys
        /\ \A n \in S3PAs : m \notin cl.list[n].keys}

FreshS3PAs ==
    {n \in S3PAs :
        /\ \A i \in 1..Len(hist) : ~hist[i][n].live
        /\ n # rec.n /\ n # cl.n /\ ~cl.list[n].live
        /\ \A d \in rec.dups : d[1] # n}

-----------------------------------------------------------------------------
(* The environment.  A workload Pod's life; each change is an event that      *)
(* enqueues the Pod.                                                          *)
PodChange(w, from, to) ==
    /\ pods[w] \in from
    /\ pods' = [pods EXCEPT ![w] = to]
    /\ queue' = queue \cup {w}
    /\ UNCHANGED <<hist, mp, mpSeen, aged, faults, lost, restarts, disturbed, rec, pending, version, cl>>

PodScheduled(w) == PodChange(w, {"absent"}, "pending")

(* The kubelet starts the containers once the node has mounted the volume. *)
PodStarts(w) ==
    /\ \E n \in S3PAs, m \in MountpointPods :
          Api[n].live /\ w \in Api[n].wl[m] /\ mp[m].phase = "running"
    /\ PodChange(w, {"pending"}, "running")

PodTerminates(w) == w \in Mortal /\ PodChange(w, {"pending"}, "terminating")
PodFinishes(w)   == w \in Mortal /\ PodChange(w, {"pending", "running", "terminating"}, "done")
PodVanishes(w)   == w \in Mortal /\ PodChange(w, {"pending", "running", "terminating", "done"}, "gone")

Disturb == disturbed < MaxDisturbances /\ disturbed' = disturbed + 1

(* Other updates of the Pod, and the periodic resync of the informer *)
PodEvent(w) ==
    /\ PodExists(w) /\ w \notin queue
    /\ queue' = queue \cup {w}
    /\ Disturb
    /\ UNCHANGED <<hist, mp, mpSeen, pods, aged, faults, lost, restarts, rec, pending, version, cl>>

(* An attachment passes staleAttachmentThreshold.  A cleanup run takes less     *)
(* time than the threshold, so one made during a run is not stale in that run,  *)
(* and for older ones it may as well happen before the run.                     *)
AttachmentAges(w) ==
    /\ cl.pc = "idle" /\ w \notin aged /\ Attached(w)
    /\ aged' = aged \cup {w}
    /\ UNCHANGED <<hist, mp, mpSeen, pods, faults, lost, restarts, disturbed, reconcilerVars, cl>>

(* Mountpoint Pods: the node unmounts an annotated one, which then succeeds;  *)
(* an administrator may close one to new workloads; one may be evicted.       *)
MountpointPodChange(m, pod) ==
    /\ mp[m].phase = "running"
    /\ mp' = [mp EXCEPT ![m] = pod]
    /\ UNCHANGED <<hist, mpSeen, pods, aged, faults, lost, restarts, reconcilerVars, cl>>

MountpointPodSucceeds(m) ==
    /\ mp[m].needsUnmount
    /\ MountpointPodChange(m, [mp[m] EXCEPT !.phase = "succeeded"])
    /\ UNCHANGED disturbed

MountpointPodClosed(m) ==
    /\ ~mp[m].noNewWorkload
    /\ MountpointPodChange(m, [mp[m] EXCEPT !.noNewWorkload = TRUE])
    /\ Disturb

MountpointPodEvicted(m) == MountpointPodChange(m, NoPod) /\ Disturb

(* The two informers, which are not synchronised with each other.             *)
SyncS3PAs ==
    /\ Len(hist) > 1
    /\ PodsFirst => \A n \in S3PAs : \A m \in hist[2][n].keys :
                        mpSeen[m].phase = "none" => mp[m].phase = "none"
    /\ hist' = Tail(hist)
    /\ UNCHANGED <<mp, mpSeen, pods, aged, faults, lost, restarts, disturbed, reconcilerVars, cl>>

SyncMountpointPod(m) ==
    /\ mpSeen[m] # mp[m]
    /\ mpSeen' = [mpSeen EXCEPT ![m] = mp[m]]
    /\ UNCHANGED <<hist, mp, pods, aged, faults, lost, restarts, disturbed, reconcilerVars, cl>>

(* The controller stops at any point and a new one, maybe of another version,  *)
(* starts: nothing in memory survives, every Pod is an event, and its cache is *)
(* filled from a list that may be behind the store.                            *)
Restart ==
    /\ restarts < MaxRestarts
    /\ restarts' = restarts + 1
    /\ version' \in Versions
    /\ rec' = RecIdle /\ cl' = CleanerIdle /\ pending' = FALSE
    /\ queue' = {w \in Workloads : PodExists(w)}
    /\ UNCHANGED <<hist, mp, mpSeen, pods, aged, faults, lost, disturbed>>

-----------------------------------------------------------------------------
Reconcile == ReconcileStep(FreshMPs, FreshS3PAs) /\ UNCHANGED cl

Clean == CleanerRuns /\ CleanerStep /\ UNCHANGED reconcilerVars

Environment ==
    \/ \E w \in Workloads :
        \/ PodScheduled(w) \/ PodStarts(w) \/ PodTerminates(w)
        \/ PodFinishes(w) \/ PodVanishes(w) \/ PodEvent(w) \/ AttachmentAges(w)
    \/ \E m \in MountpointPods :
        \/ MountpointPodSucceeds(m) \/ MountpointPodClosed(m)
        \/ MountpointPodEvicted(m) \/ SyncMountpointPod(m)
    \/ SyncS3PAs
    \/ Restart

Next ==
    \/ \E w \in Workloads : ReconcileWorkload(w) /\ UNCHANGED cl
    \/ \E m \in MountpointPods : ReconcileMountpointPod(m) /\ UNCHANGED cl
    \/ Reconcile
    \/ Clean
    \/ Environment

Spec == Init /\ [][Next]_vars

(* The threads keep running, the work queue is fair, the watches deliver and   *)
(* time passes; nothing is assumed of Pods, faults, evictions or restarts.     *)
Fairness ==
    /\ WF_vars(Reconcile)
    /\ \A w \in Workloads : SF_vars(ReconcileWorkload(w) /\ UNCHANGED cl)
    /\ WF_vars(Clean)
    /\ WF_vars(SyncS3PAs)
    /\ \A m \in MountpointPods : WF_vars(SyncMountpointPod(m))
    /\ \A w \in Workloads : SF_vars(AttachmentAges(w))

FairSpec == Spec /\ Fairness

-----------------------------------------------------------------------------
(* Every variable has its type, and each step of a Reconcile or of a cleanup   *)
(* run has the names it needs in hand.                                         *)
TypeOK == ClusterTypeOK /\ ReconcilerTypeOK /\ CleanerTypeOK

(* Sequential Reconciles and the creation expectation make duplicates          *)
(* impossible: unless the reply of a write was lost or the controller was      *)
(* restarted, the tuple never has two S3PAs, however far behind the cache is.  *)
AtMostOneS3PA == ~lost /\ restarts = 0 => ~SeveralIn(Live(Api))

(* addWorkloadToS3PodAttachment and removeWorkloadFromS3PodAttachment work on  *)
(* copies of any age, yet a S3PA never lists a workload under two Mountpoint   *)
(* Pods: removal stops at the first one and would leave the other behind.      *)
AttachedOnce ==
    \A n \in S3PAs, w \in Workloads, a, b \in MountpointPods :
        w \in Api[n].wl[a] /\ w \in Api[n].wl[b] => a = b

(* No lost update: whichever thread writes a S3PA, from whatever copy, no      *)
(* attachment of a workload that is active is removed.                         *)
ActiveStaysAttached ==
    [][\A n \in S3PAs, m \in MountpointPods, w \in Workloads :
        Api[n].live /\ w \in Api[n].wl[m] /\ w \notin (Api')[n].wl[m]
            => ~IsPodActive(w)]_vars

(* A Mountpoint Pod whose entry leaves the S3PA has been annotated             *)
(* "needs-unmount" before, or no longer exists: otherwise nothing ever stops   *)
(* it (AnnotationNeedsUnmount is the controller's responsibility).             *)
RetiredMPIsAnnotated ==
    [][\A n \in S3PAs, m \in MountpointPods :
        m \in Api[n].keys /\ m \notin (Api')[n].keys
            => mp[m].phase = "none" \/ mp[m].needsUnmount]_vars

(* The controller annotates a Mountpoint Pod once it has no workloads and      *)
(* sends it no new workload after that: an annotated Pod, which the node is    *)
(* about to unmount, serves no workload that is active.                        *)
NeedsUnmountHasNoWorkload ==
    \A n \in S3PAs, m \in MountpointPods :
        mp[m].needsUnmount => \A w \in Api[n].wl[m] : ~IsPodActive(w)

(* Upgrades: a controller attaches workloads only to Mountpoint Pods of its    *)
(* own driver version, whatever its cache still shows.                         *)
SameVersionOnly ==
    [][\A n \in S3PAs, m \in MountpointPods, w \in Workloads :
        w \notin Api[n].wl[m] /\ w \in (Api')[n].wl[m]
            => mp[m].phase = "none" \/ mp[m].version = version]_vars

(* A creation expectation is outstanding only while a S3PA is in the store or  *)
(* on its way to the cache: otherwise handleNewS3PodAttachment waits for ever. *)
PendingIsBacked ==
    pending /\ ~lost => \E i \in 1..Len(hist) : Live(hist[i]) # {}

(* A workload that waits for its volume is attached, or stops waiting: no      *)
(* conflict, stale read, fault or expectation holds it up for ever.            *)
AttachedEventually ==
    \A w \in Workloads : pods[w] = "pending" ~> (Attached(w) \/ pods[w] # "pending")

(* The cleaner removes what the reconciler missed: no S3PA refers for ever to  *)
(* a workload Pod that is gone.                                                *)
GoneIsDetached ==
    \A w \in Workloads : pods[w] = "gone" ~> [](~Attached(w))

(* Mountpoint Pods with zero attachments do not stay in a S3PA for ever.       *)
EmptyEntriesRemoved ==
    \A n \in S3PAs, m \in MountpointPods :
        m \in EmptyMPs(Api[n]) ~> m \notin EmptyMPs(Api[n])

-----------------------------------------------------------------------------
(* The attachments as the store has them: what reconciler and cleaner have in  *)
(* hand, and how far behind the caches are, is not seen from outside.          *)
StoredS3PAs ==
    [n \in S3PAs |-> [live |-> Api[n].live, pods |-> Api[n].keys, workloads |-> Api[n].wl]]

WorkloadLives ==
    [w \in Workloads |-> IF pods[w] = "absent" THEN "absent"
                         ELSE IF IsPodActive(w) THEN "active" ELSE "over"]

MountpointPodLives ==
    [m \in MountpointPods |->
        IF mp[m].phase = "none" THEN [retired |-> TRUE, version |-> Nil]
        ELSE [retired |-> mp[m].needsUnmount, version |-> mp[m].version]]

Promised == INSTANCE Attachments
    WITH s3pa <- StoredS3PAs, workload <- WorkloadLives, pod <- MountpointPodLives

(* Two goroutines that write S3PAs from copies of any age, with replies lost   *)
(* and restarts in between, do to the attachments what one decision at a time  *)
(* on the current S3PA would do (Attachments).                                 *)
ImplementsAttachments == Promised!Spec
=============================================================================
