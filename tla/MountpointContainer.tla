------------------------- MODULE MountpointContainer ------------------------
(***************************************************************************)
(* The process in a Mountpoint Pod, aws-s3-csi-mounter: it receives mount  *)
(* options and a FUSE descriptor on a Unix socket, runs mount-s3 on it, and *)
(* exits with a code that makes Kubernetes restart it or complete the Pod.  *)
(***************************************************************************)
EXTENDS NodeHost

(* Exit code zero completes the Pod (restart policy OnFailure). *)
ExitZero(p) ==
    /\ proc' = [proc EXCEPT ![p] = "done"]
    /\ pod' = [pod EXCEPT ![p] = "succeeded"]

(* Any other code restarts the container, which listens again. *)
ExitNonZero(p) ==
    /\ proc' = [proc EXCEPT ![p] = "listening"]
    /\ pod' = pod

ShouldExitWithSuccessCode(p) == files[p].exit

(* recvMountOptions times out. *)
RecvFails(p) ==
    /\ proc[p] = "listening" /\ ShouldExitWithSuccessCode(p)
    /\ ExitZero(p)
    /\ UNCHANGED <<source, bound, files, podSeen, crashes, deletions>>

(* mount-s3 answers the kernel on the descriptor it was given. *)
Serve(p) ==
    /\ proc[p] = "starting" /\ source[p] = "pending"
    /\ proc' = [proc EXCEPT ![p] = "serving"]
    /\ source' = [source EXCEPT ![p] = "served"]
    /\ UNCHANGED <<bound, files, pod, podSeen, crashes, deletions>>

(* Run: mount-s3 fails, at the start or later.  Its error is left for the node *)
(* and the container exits with a non-zero code, whatever mount.exit says.     *)
RunFails(p, nodeHolds) ==
    /\ proc[p] \in {"starting", "serving"} /\ crashes < MaxCrashes
    /\ crashes' = crashes + 1
    /\ \E written \in {TRUE, ErrorsAreWritten} :
          files' = [files EXCEPT ![p].err = @ \/ written]
    /\ ProcessDies(p, "listening", nodeHolds)
    /\ UNCHANGED <<pod, podSeen, deletions>>

(* Run: the file system was unmounted, and mount-s3 ends without an error. *)
RunEnds(p) ==
    /\ proc[p] = "ended"
    /\ \/ ShouldExitWithSuccessCode(p) /\ ExitZero(p)
       \/ ~ShouldExitWithSuccessCode(p) /\ ExitNonZero(p)
    /\ UNCHANGED <<source, bound, files, podSeen, crashes, deletions>>
=============================================================================
