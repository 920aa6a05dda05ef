----------------------- MODULE StaleAttachmentCleaner -----------------------
(***************************************************************************)
(* The periodic cleaner (csicontroller/stale_attachment_cleaner.go): its   *)
(* own thread, which removes attachments of workloads whose Pod no longer  *)
(* exists.  It works on two cached lists, of the Pods and of the S3PAs,    *)
(* read at different times and kept for the whole run.                     *)
(***************************************************************************)
EXTENDS Cluster

VARIABLE cl   \* the cleanup run in progress

CleanerPCs == {"idle",
               "pods",      \* the existing Pods have been listed
               "loop",      \* the S3PAs have been listed, one is next
               "s3pa"}      \* cleanupStaleWorkloads of one S3PA

(* existing: existingPods; list: the S3PAs still to check; n, obj, modified:    *)
(* locals of cleanupStaleWorkloads.                                             *)
CleanerType == [pc : CleanerPCs, existing : SUBSET Workloads, list : [S3PAs -> S3PA],
                n : S3PAs \cup {Nil}, obj : S3PA, modified : BOOLEAN]

CleanerIdle == [pc |-> "idle", existing |-> {}, list |-> [n \in S3PAs |-> NoS3PA],
                n |-> Nil, obj |-> NoS3PA, modified |-> FALSE]

CleanerTypeOK ==
    /\ cl \in CleanerType
    /\ cl.pc = "s3pa" => cl.n \in S3PAs

CleanerInit == cl = CleanerIdle

-----------------------------------------------------------------------------
CleanerUntouched == UNCHANGED <<mpSeen, pods, aged, restarts, disturbed>>

(* RunCleanup: list all Pods ... *)
CleanerListPods ==
    /\ cl.pc = "idle"
    /\ cl' = [cl EXCEPT !.pc = "pods", !.existing = {w \in Workloads : PodExists(w)}]
    /\ CleanerUntouched /\ UNCHANGED <<hist, mp, faults, lost>>

(* ... then all S3PAs. *)
CleanerListS3PAs ==
    /\ cl.pc = "pods"
    /\ cl' = [cl EXCEPT !.pc = "loop", !.list = Cached]
    /\ CleanerUntouched /\ UNCHANGED <<hist, mp, faults, lost>>

CleanerDone ==
    /\ cl.pc = "loop" /\ Live(cl.list) = {}
    /\ cl' = CleanerIdle
    /\ CleanerUntouched /\ UNCHANGED <<hist, mp, faults, lost>>

(* Mutant: the age of the attachment is not looked at. *)
IsStaleAtAnyAge(w) == w \notin cl.existing

(* The Pod did not exist when listed and the attachment is past the threshold. *)
IsStale(w) == w \notin cl.existing /\ w \in aged

(* Mutant: the removal is not recorded. *)
FilterStaleUnmarked(n) ==
    /\ cl.pc = "loop" /\ n \in Live(cl.list)
    /\ LET obj  == cl.list[n]
           kept == [m \in MountpointPods |-> {w \in obj.wl[m] : ~IsStale(w)}]
       IN  cl' = [cl EXCEPT !.pc = "s3pa", !.n = n, !.list = [@ EXCEPT ![n] = NoS3PA],
                            !.obj = [obj EXCEPT !.wl = kept]]
    /\ CleanerUntouched /\ UNCHANGED <<hist, mp, faults, lost>>

(* cleanupStaleWorkloads: filter the attachments of every Mountpoint Pod *)
FilterStale(n) ==
    /\ cl.pc = "loop" /\ n \in Live(cl.list)
    /\ LET obj  == cl.list[n]
           kept == [m \in MountpointPods |-> {w \in obj.wl[m] : ~IsStale(w)}]
       IN  cl' = [cl EXCEPT !.pc = "s3pa", !.n = n, !.list = [@ EXCEPT ![n] = NoS3PA],
                            !.obj = [obj EXCEPT !.wl = kept],
                            !.modified = kept # obj.wl]
    /\ CleanerUntouched /\ UNCHANGED <<hist, mp, faults, lost>>

NextS3PA == cl' = [cl EXCEPT !.pc = "loop", !.n = Nil, !.obj = NoS3PA, !.modified = FALSE]

CleanerAnnotate(m) ==
    /\ cl.pc = "s3pa" /\ m \in EmptyMPs(cl.obj)
    /\ \/ AddNeedsUnmountAnnotation(m) /\ cl' = [cl EXCEPT !.obj = DropKey(@, m)]
       \/ AddNeedsUnmountAnnotationFails(m) /\ NextS3PA
    /\ CleanerUntouched /\ UNCHANGED <<hist, lost>>

(* The S3PA is written, or deleted, only if an attachment was removed; an      *)
(* error is only logged.                                                       *)
CleanerWrite ==
    /\ cl.pc = "s3pa" /\ EmptyMPs(cl.obj) = {}
    /\ NextS3PA
    /\ \/ ~cl.modified /\ UNCHANGED <<hist, faults, lost>>
       \/ /\ cl.modified /\ cl.obj.keys = {}
          /\ DeleteOk(cl.n, cl.obj.rv) \/ DeleteFails(cl.n, cl.obj.rv)
       \/ /\ cl.modified /\ cl.obj.keys # {}
          /\ UpdateOk(cl.n, cl.obj) \/ UpdateFails(cl.n, cl.obj)
    /\ CleanerUntouched /\ UNCHANGED mp

CleanerStep ==
    \/ CleanerListPods
    \/ CleanerListS3PAs
    \/ CleanerDone
    \/ \E n \in S3PAs : FilterStale(n)
    \/ \E m \in MountpointPods : CleanerAnnotate(m)
    \/ CleanerWrite
=============================================================================
