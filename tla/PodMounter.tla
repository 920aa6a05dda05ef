----------------------------- MODULE PodMounter -----------------------------
(***************************************************************************)
(* NodePublishVolume and NodeUnpublishVolume as the kubelet calls them, and *)
(* PodMounter.Mount and Unmount under them, step by step.                  *)
(*                                                                         *)
(* Two things are read before the lock and used under it: whether the      *)
(* target is mounted, and the attachment with its Mountpoint Pod.          *)
(***************************************************************************)
EXTENDS NodeHost

CONSTANTS
    Calls,         \* calls that can be in flight at once
    MaxExpiries    \* how many calls the kubelet gives up waiting for

ASSUME CallsAssumption == MaxExpiries \in Nat

VARIABLES
    workload,      \* what the kubelet wants of each target
    attachment,    \* Mountpoint Pod of each target in the node's cache of S3PAs
    call,          \* the calls in flight: locals of Mount
    expiries

mounterVars == <<workload, attachment, call, expiries>>

NoCall == [pc |-> "idle", target |-> Nil, mp |-> Nil,
           isTarget |-> FALSE, isSource |-> FALSE, expired |-> FALSE]

CallType ==
    [pc : {"idle", "attachment", "pod", "lock", "source", "credentials",
           "mount", "send", "wait", "bind", "unmount"},
     target : Targets \cup {Nil}, mp : MountpointPods \cup {Nil},
     isTarget : BOOLEAN, isSource : BOOLEAN, expired : BOOLEAN]

MounterTypeOK ==
    /\ workload \in [Targets -> {"none", "wanted", "terminated", "unpublished"}]
    /\ attachment \in [Targets -> MountpointPods \cup {Nil}]
    /\ call \in [Calls -> CallType]
    /\ \A c \in Calls :
        /\ call[c].pc = "idle" => call[c] = NoCall
        /\ call[c].pc # "idle" => call[c].target # Nil
        /\ call[c].pc \notin {"idle", "attachment", "unmount"} => call[c].mp # Nil
    /\ expiries \in 0..MaxExpiries

MounterInit ==
    /\ workload = [t \in Targets |-> "none"]
    /\ attachment = [t \in Targets |-> Nil]
    /\ call = [c \in Calls |-> NoCall]
    /\ expiries = 0

(* The calls that hold the lock of p, and those that hold its FUSE descriptor *)
LockedCalls(p) ==
    {c \in Calls : call[c].mp = p
        /\ call[c].pc \in {"source", "credentials", "mount", "send", "wait", "bind"}}

NodeHoldsFd(p) == \E c \in Calls : call[c].mp = p /\ call[c].pc \in {"send", "wait"}

Goto(c, pc) == call' = [call EXCEPT ![c].pc = pc]

(* Every return of a handler, with or without an error; Mount's unlocks the Pod. *)
(* After an error NodePublishVolume removes the target, which keeps a mount.     *)
Return(c) == call' = [call EXCEPT ![c] = NoCall]

-----------------------------------------------------------------------------
(* The kubelet makes one call at a time for a target, unless it gave up on one. *)
MayCall(c, t) ==
    /\ call[c].pc = "idle"
    /\ \A d \in Calls : call[d].target = t => call[d].expired

(* The kubelet's deadline passes; the handler goes on. *)
Expire(c) ==
    /\ call[c].pc # "idle" /\ ~call[c].expired /\ expiries < MaxExpiries
    /\ expiries' = expiries + 1
    /\ call' = [call EXCEPT ![c].expired = TRUE]
    /\ UNCHANGED <<hostVars, workload, attachment>>

(* Mount up to the search for the attachment: is the target mounted?  A        *)
(* corrupted one is unmounted.                                                 *)
PublishVolume(c, t) ==
    /\ MayCall(c, t) /\ workload[t] = "wanted"
    /\ call' = [call EXCEPT ![c] = [NoCall EXCEPT !.pc = "attachment", !.target = t,
                                      !.isTarget = TargetState(t) = "served"]]
    /\ Mounts(source, [bound EXCEPT ![t] = IF TargetState(t) = "corrupted" THEN Tail(@) ELSE @])
    /\ UNCHANGED <<files, pod, podSeen, crashes, deletions, workload, attachment, expiries>>

GetS3PodAttachment(c) ==
    /\ call[c].pc = "attachment"
    /\ \/ /\ attachment[call[c].target] # Nil /\ ~call[c].expired
          /\ call' = [call EXCEPT ![c].pc = "pod", ![c].mp = attachment[call[c].target]]
       \/ attachment[call[c].target] = Nil /\ Return(c)     \* after 15 seconds
       \/ call[c].expired /\ Return(c)
    /\ UNCHANGED <<hostVars, workload, attachment, expiries>>

WaitForMountpointPod(c) ==
    /\ call[c].pc = "pod"
    /\ \/ IsReady(podSeen[call[c].mp]) /\ Goto(c, "lock")
       \/ ~IsReady(podSeen[call[c].mp]) /\ Return(c)        \* after 15 seconds
       \/ call[c].expired /\ Return(c)
    /\ UNCHANGED <<hostVars, workload, attachment, expiries>>

(* Mutant: Mount does not wait for the lock. *)
LockBargesIn(c, free) ==
    /\ call[c].pc = "lock"
    /\ Goto(c, "source")
    /\ UNCHANGED <<hostVars, workload, attachment, expiries>>

(* The mutex takes no context: a call that expired waits on. *)
LockMountpointPod(c, free) ==
    /\ call[c].pc = "lock" /\ free
    /\ Goto(c, "source")
    /\ UNCHANGED <<hostVars, workload, attachment, expiries>>

(* Mutant: a corrupted source passes for a mounted one. *)
CheckSourceLax(c) ==
    LET p == call[c].mp IN
    /\ call[c].pc = "source" /\ source[p] # "pending"
    /\ call' = [call EXCEPT ![c].pc = "credentials",
                          ![c].isSource = source[p] \in {"served", "corrupted"}]
    /\ source' = [source EXCEPT ![p] = IF @ = "absent" THEN "dir" ELSE @]
    /\ UNCHANGED <<bound, proc, files, pod, podSeen, crashes, deletions,
                   workload, attachment, expiries>>

(* IsMountPoint and verifyOrSetupMountTarget for the source *)
CheckSource(c) ==
    LET p == call[c].mp IN
    /\ call[c].pc = "source" /\ source[p] # "pending"
    /\ call' = [call EXCEPT ![c].pc = "credentials", ![c].isSource = source[p] = "served"]
    /\ Mounts([source EXCEPT ![p] = IF @ = "served" THEN @ ELSE "dir"], bound)
    /\ UNCHANGED <<files, pod, podSeen, crashes, deletions, workload, attachment, expiries>>

(* The directory of a Pod that is gone cannot be written to. *)
ProvideCredentials(c) ==
    LET p == call[c].mp IN
    /\ call[c].pc = "credentials"
    /\ \/ /\ pod[p] # "gone"
          /\ files' = [files EXCEPT ![p].creds = TRUE]
          /\ Goto(c, IF call[c].isSource THEN "bind" ELSE "mount")
       \/ pod[p] = "gone" /\ Return(c) /\ files' = files
    /\ UNCHANGED <<source, bound, proc, pod, podSeen, crashes, deletions,
                   workload, attachment, expiries>>

(* mountS3AtSource: the mount syscall, and the removal of an old mount.err *)
MountSyscall(c) ==
    LET p == call[c].mp IN
    /\ call[c].pc = "mount"
    /\ \/ /\ source[p] = "dir"
          /\ source' = [source EXCEPT ![p] = "pending"]
          /\ files' = [files EXCEPT ![p].err = FALSE]
          /\ Goto(c, "send")
       \/ source[p] = "absent" /\ Return(c) /\ UNCHANGED <<source, files>>
    /\ UNCHANGED <<bound, proc, pod, podSeen, crashes, deletions, workload, attachment, expiries>>

(* Mutant: the source is left mounted. *)
FailMountLeavesSource(c) ==
    /\ Return(c)
    /\ Mounts(source, bound)

(* The deferred calls of mountS3AtSource when a step fails: close the            *)
(* descriptor, unmount the source.                                               *)
FailMount(c) ==
    LET p == call[c].mp IN
    /\ Return(c)
    /\ Mounts([source EXCEPT ![p] = IF @ = "absent" THEN @ ELSE "dir"], bound)

(* Dialling is retried until the context ends, as it must once nobody listens. *)
SendMountOptions(c) ==
    LET p == call[c].mp IN
    /\ call[c].pc = "send"
    /\ \/ /\ proc[p] = "listening" /\ ~call[c].expired
          /\ proc' = [proc EXCEPT ![p] = "starting"]
          /\ Goto(c, "wait")
          /\ UNCHANGED <<source, bound>>
       \/ (call[c].expired \/ proc[p] \in {"done", "off"}) /\ FailMount(c)
    /\ UNCHANGED <<files, pod, podSeen, crashes, deletions, workload, attachment, expiries>>

(* waitForMount: two goroutines poll, and the first result counts.  The one that *)
(* asks for the mount point cannot be cancelled while its statx is blocked; with *)
(* no mount there it gives up when the context ends.  The one that reads         *)
(* mount.err stops with the context (line 376): a call that is over may fail     *)
(* here on an error file which the code would not read any more.                 *)
WaitForMount(c) ==
    LET p == call[c].mp IN
    /\ call[c].pc = "wait"
    /\ \/ source[p] = "served" /\ Goto(c, "bind") /\ UNCHANGED <<source, bound, proc>>
       \/ files[p].err /\ FailMount(c)
       \/ source[p] \notin {"pending", "served"} /\ FailMount(c)
    /\ UNCHANGED <<files, pod, podSeen, crashes, deletions, workload, attachment, expiries>>

(* Mutant: the target's state at the start of the call is not used. *)
BindMountAlways(c) ==
    LET p == call[c].mp
        t == call[c].target
        fs == [served |-> "live", pending |-> "live", corrupted |-> "dead", dir |-> "bare"]
    IN
    /\ call[c].pc = "bind" /\ source[p] # "absent"
    /\ Return(c)
    /\ bound' = [bound EXCEPT ![t] = <<[mp |-> p, fs |-> fs[source[p]]]>> \o @]
    /\ UNCHANGED <<source, proc, files, pod, podSeen, crashes, deletions,
                   workload, attachment, expiries>>

(* The bind mount, unless the target was mounted when the call began.  It binds *)
(* whatever is at the source.                                                   *)
BindMount(c) ==
    LET p == call[c].mp
        t == call[c].target
        fs == [served |-> "live", pending |-> "live", corrupted |-> "dead", dir |-> "bare"]
    IN
    /\ call[c].pc = "bind"
    /\ Return(c)
    /\ bound' = IF call[c].isTarget \/ source[p] = "absent" THEN bound
                ELSE [bound EXCEPT ![t] = <<[mp |-> p, fs |-> fs[source[p]]]>> \o @]
    /\ UNCHANGED <<source, proc, files, pod, podSeen, crashes, deletions,
                   workload, attachment, expiries>>

-----------------------------------------------------------------------------
(* NodeUnpublishVolume returns at once when the target is not mounted. *)
UnpublishVolume(c, t) ==
    /\ MayCall(c, t) /\ workload[t] = "terminated"
    /\ \/ /\ TargetState(t) = "dir"
          /\ workload' = [workload EXCEPT ![t] = "unpublished"]
          /\ call' = call
       \/ /\ TargetState(t) # "dir"
          /\ call' = [call EXCEPT ![c] = [NoCall EXCEPT !.pc = "unmount", !.target = t]]
          /\ workload' = workload
    /\ UNCHANGED <<hostVars, attachment, expiries>>

(* PodMounter.Unmount *)
UnmountTarget(c) ==
    LET t == call[c].target IN
    /\ call[c].pc = "unmount"
    /\ Return(c)
    /\ Mounts(source, [bound EXCEPT ![t] = IF @ = <<>> THEN @ ELSE Tail(@)])
    /\ workload' = [workload EXCEPT ![t] = IF call[c].expired THEN @ ELSE "unpublished"]
    /\ UNCHANGED <<files, pod, podSeen, crashes, deletions, attachment, expiries>>

-----------------------------------------------------------------------------
(* The environment: workloads come, are attached by the controller, and go. *)
WorkloadScheduled(t) ==
    /\ workload[t] = "none"
    /\ workload' = [workload EXCEPT ![t] = "wanted"]
    /\ UNCHANGED <<hostVars, attachment, call, expiries>>

WorkloadTerminates(t) ==
    /\ workload[t] = "wanted"
    /\ workload' = [workload EXCEPT ![t] = "terminated"]
    /\ UNCHANGED <<hostVars, attachment, call, expiries>>

ControllerAttaches(t, p) ==
    /\ workload[t] = "wanted" /\ attachment[t] = Nil /\ pod[p] = "running"
    /\ attachment' = [attachment EXCEPT ![t] = p]
    /\ UNCHANGED <<hostVars, workload, call, expiries>>

ControllerDetaches(t) ==
    /\ attachment[t] # Nil
    /\ workload[t] \in {"terminated", "unpublished"} \/ pod[attachment[t]] = "gone"
    /\ attachment' = [attachment EXCEPT ![t] = Nil]
    /\ UNCHANGED <<hostVars, workload, call, expiries>>

ControllerAnnotates(p) ==
    /\ pod[p] = "running" /\ \A t \in Targets : attachment[t] # p
    /\ pod' = [pod EXCEPT ![p] = "annotated"]
    /\ UNCHANGED <<source, bound, proc, files, podSeen, crashes, deletions, mounterVars>>
=============================================================================
