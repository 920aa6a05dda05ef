----------------------------- MODULE Attachments -----------------------------
(***************************************************************************)
(* What the controller promises of the attachments of one field tuple: its *)
(* S3PAs change by one decision at a time, each taken on the S3PA as it is *)
(* when it is written.  There are no caches, copies, resource versions,    *)
(* goroutines, lost replies or half-done Reconciles here.                  *)
(***************************************************************************)
CONSTANTS Workloads, MountpointPods, S3PAs, Versions, Nil

VARIABLES
    s3pa,      \* each S3PA: whether it exists, its Mountpoint Pods and their workloads
    workload,  \* each workload Pod: absent, active or over
    pod,       \* each Mountpoint Pod: whether it is retired, and its driver version
    version    \* driver version of the controller

vars == <<s3pa, workload, pod, version>>

NoS3PA == [live |-> FALSE, pods |-> {}, workloads |-> [m \in MountpointPods |-> {}]]

Gone == [retired |-> TRUE, version |-> Nil]

Init ==
    /\ s3pa = [n \in S3PAs |-> NoS3PA]
    /\ workload \in [Workloads -> {"absent", "active"}]
    /\ pod = [m \in MountpointPods |-> Gone]
    /\ version \in Versions

-----------------------------------------------------------------------------
(* The controller.  A workload that is in none of the Mountpoint Pods of a     *)
(* S3PA, which may be a new one, is attached to one of this driver version.    *)
With(a, m, w) ==
    [live      |-> TRUE,
     pods      |-> a.pods \cup {m},
     workloads |-> [a.workloads EXCEPT ![m] = @ \cup {w}]]

Attach(n, m, w) ==
    /\ workload[w] # "absent" /\ pod[m].version \in {version, Nil}
    /\ \A x \in MountpointPods : w \notin s3pa[n].workloads[x]
    /\ s3pa' = [s3pa EXCEPT ![n] = With(@, m, w)]
    /\ UNCHANGED <<workload, pod, version>>

(* Workloads that are over leave, and with them retired Mountpoint Pods nobody *)
(* uses.  The S3PA may go when it has no Mountpoint Pods.                      *)
Less(old, new) ==
    /\ new.pods \subseteq old.pods
    /\ old.live /\ (new.live \/ new.pods = {})
    /\ \A m \in MountpointPods :
        /\ new.workloads[m] \subseteq old.workloads[m]
        /\ \A w \in old.workloads[m] \ new.workloads[m] : workload[w] = "over"
        /\ m \notin new.pods => new.workloads[m] = {}
    /\ \A m \in old.pods \ new.pods : pod[m].retired

Detach(n) ==
    /\ Less(s3pa[n], s3pa'[n])
    /\ \A x \in S3PAs \ {n} : s3pa'[x] = s3pa[x]
    /\ UNCHANGED <<workload, pod, version>>

(* Mountpoint Pods are spawned, under names that no S3PA has, and retired; any *)
(* of them may disappear.  The controller is replaced.                         *)
Becomes(m, p) == pod' = [pod EXCEPT ![m] = p] /\ UNCHANGED <<s3pa, workload, version>>

Spawn(m) ==
    /\ pod[m] = Gone /\ \A n \in S3PAs : m \notin s3pa[n].pods
    /\ Becomes(m, [retired |-> FALSE, version |-> version])

Retire(m) == Becomes(m, [retired |-> TRUE, version |-> pod[m].version])

Vanish(m) == Becomes(m, Gone)

Replace == version' \in Versions /\ UNCHANGED <<s3pa, workload, pod>>

(* Workloads come and go, and do not come back. *)
Turns(w, from, to) ==
    /\ workload[w] = from
    /\ workload' = [workload EXCEPT ![w] = to]
    /\ UNCHANGED <<s3pa, pod, version>>

Next ==
    \/ \E n \in S3PAs : Detach(n) \/ \E m \in MountpointPods, w \in Workloads : Attach(n, m, w)
    \/ \E m \in MountpointPods : Spawn(m) \/ Retire(m) \/ Vanish(m)
    \/ Replace
    \/ \E w \in Workloads : Turns(w, "absent", "active") \/ Turns(w, "active", "over")

Spec == Init /\ [][Next]_vars
=============================================================================
