------------------------------ MODULE Publish -------------------------------
(***************************************************************************)
(* NodePublishVolume and NodeUnpublishVolume seen from what they bring to  *)
(* mount-s3: its arguments, its environment and its credential files.      *)
(* Workloads share a Mountpoint Pod, or still have mounts of systemd's;    *)
(* the kubelet republishes volumes while tokens are renewed, the volume's  *)
(* options edited and the driver restarted.  Mounts themselves are the     *)
(* subject of Node: here a target is bound or not.                         *)
(***************************************************************************)
EXTENDS Credentials, PodWatcher, PublishRequest

CONSTANT
    MaxDisturbances   \* how many writes, removals and processes fail, calls
                      \* expire in the kubelet, how often options are edited
                      \* and the driver restarts

ASSUME PublishAssumption == MaxDisturbances \in Nat

(* Options that give max-cache-size give it once, as a number; a limit is not   *)
(* negative; names of targets are not names of Pods.                            *)
ASSUME ConfigurationsAssumption ==
    \A s \in Configurations :
        /\ s.phase \in Phases
        /\ Pod \notin DOMAIN s.kind
        /\ s.attrs.limit \in Nat \cup {NoLimit}
        /\ \A o \in s.options : \A x, y \in Found(o, "max-cache-size") : x = y /\ x.value \in Int

VARIABLES
    options,       \* mountOptions of the volume, which may be edited
    volume,        \* cache volume of the Mountpoint Pod
    workload,      \* what the kubelet wants of each target
    bound,         \* targets with a mount
    process,       \* mount-s3 of the Mountpoint Pod, and of each mount of systemd's
    call,          \* calls in flight, and the Pod unmounter: their locals
    disturbances

publishVars == <<options, volume, workload, bound, process, call, disturbances>>
vars == <<credentialVars, watcherVars, publishVars>>

NoCall == [pc |-> "idle", target |-> Shared, gen |-> 0, args |-> {}, todo |-> <<>>,
           copy |-> 0, isSource |-> FALSE, failed |-> FALSE, expired |-> FALSE]

Unmounter == "unmounter"      \* the goroutine that handles updates of the Pod

ASSUME CallsAssumption == Unmounter \notin Calls

Kind(t) == setup.kind[t]

PodTargets == {t \in Targets : Kind(t) = "pod"}

Init ==
    \E s \in Configurations :
        /\ CredentialsInit(s)
        /\ WatcherInit(s.phase)
        /\ options \in s.options
        /\ volume \in CacheVolume(options, s.attrs)
        /\ workload = [t \in Targets |-> "wanted"]
        /\ bound = Targets \ PodTargets
        /\ process = [t \in bound |-> [env |-> CredentialEnv("systemd", t), args |-> {}]]
        /\ files = [f \in UNION {CredentialEnv("systemd", t) : t \in bound} |-> 1]
        /\ call = [c \in Calls \cup {Unmounter} |-> NoCall]
        /\ disturbances = 0

-----------------------------------------------------------------------------
(* Every return, with or without an error; Mount's gives the Pod's lock back. *)
Return(c) == call' = [call EXCEPT ![c] = NoCall]

Disturb == disturbances < MaxDisturbances /\ disturbances' = disturbances + 1

(* lockMountpointPod, as PodMutex promises it *)
Free ==
    /\ \A c \in Calls : call[c].pc = "provide" => Kind(call[c].target) = "systemd"
    /\ call[Unmounter].pc = "idle"

(* The kubelet makes one call at a time for a target, unless it gave up on one. *)
(* Calls have no identity: the next one takes the first free slot.              *)
MayCall(c, t) ==
    /\ call[c].pc = "idle" /\ c = CHOOSE d \in Calls : call[d].pc = "idle"
    /\ \A d \in Calls : call[d].target = t => call[d].expired

(* The request is checked.  A target that systemd mounted only has its          *)
(* credentials written; for others Wait begins.                                 *)
PublishVolume(c, t) ==
    /\ MayCall(c, t) /\ workload[t] = "wanted"
    /\ \E args \in PublishArgs(options, setup.attrs, setup.readOnly, setup.fsGroup) :
        LET request == [NoCall EXCEPT !.target = t, !.gen = gen, !.args = args] IN
        \/ /\ Kind(t) = "pod"
           /\ call' = [call EXCEPT ![c] = [request EXCEPT !.pc = "watch"]]
           /\ Register(c)
        \/ /\ Kind(t) = "systemd"
           /\ \E types \in Provide("systemd") :
                call' = [call EXCEPT ![c] = [request EXCEPT !.pc = "provide", !.todo = types]]
           /\ UNCHANGED watcherVars
    /\ UNCHANGED <<credentialVars, options, volume, workload, bound, process, disturbances>>

(* waitForMountpointPod returns an error. *)
GiveUpWaiting(c) ==
    /\ WaitTimesOut(c)
    /\ Return(c)
    /\ UNCHANGED <<credentialVars, options, volume, workload, bound, process,
                   disturbances>>

(* Mutant: a target that is bound already is done before its credentials are. *)
LockReturnsEarly(c) ==
    /\ wait[c].pc = "ready" /\ Free
    /\ wait' = [wait EXCEPT ![c] = NoWait]
    /\ \/ /\ call[c].target \notin bound
          /\ \E types \in Provide("pod") :
                call' = [call EXCEPT ![c].pc = "provide", ![c].todo = types,
                                     ![c].isSource = Pod \in DOMAIN process]
       \/ Return(c)
    /\ UNCHANGED <<credentialVars, phase, seen, options, volume, workload, bound, process,
                   disturbances>>

(* Under the lock: is the source mounted?  Then provideCredentials begins. *)
LockMountpointPod(c) ==
    /\ wait[c].pc = "ready" /\ Free
    /\ wait' = [wait EXCEPT ![c] = NoWait]
    /\ \/ \E types \in Provide("pod") :
            call' = [call EXCEPT ![c].pc = "provide", ![c].todo = types,
                                 ![c].isSource = Pod \in DOMAIN process]
       \/ Provide("pod") = {} /\ Return(c)
    /\ UNCHANGED <<credentialVars, phase, seen, options, volume, workload, bound, process,
                   disturbances>>

(* ReplaceFile reads the driver's own token into a temporary file... *)
CopyToken(c) ==
    /\ call[c].pc = "provide" /\ call[c].todo # <<>> /\ call[c].copy = 0
    /\ Head(call[c].todo) \in DirTypes
    /\ call' = [call EXCEPT ![c].copy = gen]
    /\ UNCHANGED <<credentialVars, watcherVars, options, volume, workload, bound, process,
                   disturbances>>

(* ... which is renamed.  Tokens of Pods come with the request, and a profile   *)
(* from the driver's environment.                                               *)
WriteFile(c) ==
    LET t == call[c].target
        type == Head(call[c].todo)
        name == FileName(Kind(t), GetCredentialPodID(Kind(t), t), type)
        content == CASE type \in DirTypes     -> call[c].copy
                     [] type \in ProfileTypes -> driver.secret
                     [] OTHER                 -> call[c].gen
    IN
    /\ call[c].pc = "provide" /\ call[c].todo # <<>>
    /\ type \in DirTypes => call[c].copy # 0
    /\ \/ /\ PutFile(name, content)
          /\ call' = [call EXCEPT ![c].todo = Tail(@), ![c].copy = 0]
          /\ disturbances' = disturbances
       \/ Disturb /\ Return(c) /\ files' = files
    /\ UNCHANGED <<setup, driver, gen, watcherVars, options, volume, workload, bound, process>>

(* Provide returned.  That is all for a mount of systemd's, and a mounted       *)
(* source is bound.  Otherwise mountS3AtSource, the container's Run and the bind *)
(* mount follow; the environment is the one Provide returned.                   *)
FinishMount(c) ==
    LET t == call[c].target
        started == StartArgs(call[c].args, volume)
        mustStart == Kind(t) = "pod" /\ ~call[c].isSource
    IN
    /\ call[c].pc = "provide" /\ call[c].todo = <<>>
    /\ Return(c)
    /\ \/ /\ ~mustStart
          /\ bound' = bound \cup {t}
          /\ UNCHANGED <<process, disturbances>>
       \/ /\ mustStart
          /\ \E args \in started :
               process' = [m \in DOMAIN process \cup {Pod} |->
                             IF m = Pod THEN [env |-> CredentialEnv("pod", t), args |-> args]
                             ELSE process[m]]
          /\ \/ bound' = bound \cup {t} /\ disturbances' = disturbances
             \/ bound' = bound /\ Disturb
       \/ mustStart /\ started = {} /\ UNCHANGED <<process, bound, disturbances>>
       \/ mustStart /\ Disturb /\ UNCHANGED <<process, bound>>
    /\ UNCHANGED <<credentialVars, watcherVars, options, volume, workload>>

-----------------------------------------------------------------------------
WithoutProcess(m) == [n \in DOMAIN process \ {m} |-> process[n]]

(* NodeUnpublishVolume returns at once without a mount.  A mount of systemd's   *)
(* is unmounted, and only then are its credentials removed.                     *)
UnpublishVolume(c, t) ==
    /\ MayCall(c, t) /\ workload[t] = "terminated"
    /\ bound' = bound \ {t}
    /\ \/ /\ t \in bound /\ Kind(t) = "systemd"
          /\ process' = WithoutProcess(t)
          /\ call' = [call EXCEPT ![c] = [NoCall EXCEPT !.pc = "cleanup", !.target = t,
                                                        !.todo = CleanupTypes("systemd")]]
          /\ workload' = workload
       \/ /\ t \notin bound \/ Kind(t) = "pod"
          /\ workload' = [workload EXCEPT ![t] = "unpublished"]
          /\ UNCHANGED <<process, call>>
    /\ UNCHANGED <<credentialVars, watcherVars, options, volume,
                   disturbances>>

(* cleanUnmount of an annotated Pod, under the lock: a source that is mounted   *)
(* is unmounted once no target is bound to it, then the Pod's credentials are   *)
(* removed.                                                                     *)
CleanUnmount ==
    /\ call[Unmounter].pc = "idle" /\ Free
    /\ seen = "annotated"
    /\ Pod \in DOMAIN process => bound \cap PodTargets = {}
    /\ process' = WithoutProcess(Pod)
    /\ call' = [call EXCEPT ![Unmounter] = [NoCall EXCEPT !.pc = "cleanup",
                                                          !.todo = CleanupTypes("pod")]]
    /\ UNCHANGED <<credentialVars, watcherVars, options, volume, workload, bound,
                   disturbances>>

(* One removal of Cleanup.  An error is kept for the end; the profile's second  *)
(* file is left when the first could not be removed.                            *)
RemoveFile(c) ==
    LET kind == IF c = Unmounter THEN "pod" ELSE "systemd"
        type == Head(call[c].todo)
        name == FileName(kind, GetCredentialPodID(kind, call[c].target), type)
        rest == Tail(call[c].todo)
    IN
    /\ call[c].pc = "cleanup" /\ call[c].todo # <<>>
    /\ \/ /\ DropFile(name)
          /\ call' = [call EXCEPT ![c].todo = rest]
          /\ disturbances' = disturbances
       \/ /\ Exists(name) /\ Disturb
          /\ call' = [call EXCEPT ![c].todo = IF type = "config" THEN Tail(rest) ELSE rest,
                                  ![c].failed = TRUE]
          /\ files' = files
    /\ UNCHANGED <<setup, driver, gen, watcherVars, options, volume, workload, bound, process>>

(* Unmount ignores an error of Cleanup; the Pod unmounter tries again later. *)
CleanupDone(c) ==
    LET t == call[c].target IN
    /\ call[c].pc = "cleanup" /\ call[c].todo = <<>>
    /\ Return(c)
    /\ workload' = [u \in Targets |-> IF u = t /\ ~call[c].expired THEN "unpublished" ELSE workload[u]]
    /\ UNCHANGED <<credentialVars, watcherVars, options, volume, bound, process,
                   disturbances>>

-----------------------------------------------------------------------------
(* The kubelet's deadline passes; the handler goes on. *)
Expire(c) ==
    /\ call[c].pc # "idle" /\ ~call[c].expired /\ Disturb
    /\ call' = [call EXCEPT ![c].expired = TRUE]
    /\ UNCHANGED <<credentialVars, watcherVars, options, volume, workload, bound, process>>

WorkloadTerminates(t) ==
    /\ workload[t] = "wanted"
    /\ workload' = [workload EXCEPT ![t] = "terminated"]
    /\ UNCHANGED <<credentialVars, watcherVars, options, volume, bound, process, call,
                   disturbances>>

(* mountOptions of a PersistentVolume can be edited; its attributes cannot. *)
EditOptions ==
    /\ Disturb
    /\ options' \in setup.options \ {options}
    /\ UNCHANGED <<credentialVars, watcherVars, volume, workload, bound, process, call>>

(* mount-s3 fails, and its mounts are unmounted by the next calls. *)
ProcessFails ==
    /\ Pod \in DOMAIN process /\ Disturb
    /\ process' = WithoutProcess(Pod)
    /\ bound' = bound \ PodTargets
    /\ UNCHANGED <<credentialVars, watcherVars, options, volume, workload, call>>

(* The driver restarts, perhaps with another environment. *)
Restart ==
    /\ Disturb
    /\ \E env \in setup.drivers, imds \in setup.imds : driver' = StartDriver(env, imds, gen)
    /\ call' = [c \in DOMAIN call |-> NoCall]
    /\ wait' = [c \in Calls |-> NoWait]
    /\ seen' = Visible(phase)
    /\ UNCHANGED <<setup, gen, files, phase, options, volume, workload, bound, process>>

(* The controller annotates the Pod once no workload is attached to it, and the *)
(* container of an annotated Pod ends with its process.                         *)
PodChanges ==
    \/ PodBecomes("pending") \/ PodBecomes("running")
    \/ PodBecomes("annotated") /\ \A t \in PodTargets : workload[t] # "wanted"
    \/ PodBecomes("ended") /\ Pod \notin DOMAIN process

CallStep(c) ==
    \/ WatcherStep(c) /\ UNCHANGED <<credentialVars, publishVars>>
    \/ LockMountpointPod(c)
    \/ CopyToken(c)
    \/ WriteFile(c)
    \/ FinishMount(c)

CleanupStep(c) == RemoveFile(c) \/ CleanupDone(c)

Next ==
    \/ \E c \in Calls :
        \/ CallStep(c) \/ GiveUpWaiting(c) \/ Expire(c)
        \/ \E t \in Targets : PublishVolume(c, t) \/ UnpublishVolume(c, t)
    \/ CleanUnmount
    \/ \E c \in Calls \cup {Unmounter} : CleanupStep(c)
    \/ \E t \in Targets : WorkloadTerminates(t)
    \/ (PodChanges \/ Distribute) /\ UNCHANGED <<credentialVars, publishVars>>
    \/ Rotate /\ UNCHANGED <<watcherVars, publishVars>>
    \/ EditOptions
    \/ ProcessFails
    \/ Restart

(* Goroutines run, a goroutine that waits for the lock gets it in the end, and  *)
(* the kubelet goes on publishing: CSIDriver has requiresRepublish.  Nothing    *)
(* makes tokens rotate, workloads end or anything fail.                         *)
Fairness ==
    /\ \A c \in Calls : SF_vars(CallStep(c))
    /\ WF_vars(\E c \in Calls \cup {Unmounter} : CleanupStep(c))
    /\ \A t \in UNION {DOMAIN s.kind : s \in Configurations} :
        SF_vars(t \in Targets /\ \E c \in Calls : PublishVolume(c, t))

Spec == Init /\ [][Next]_vars /\ Fairness

-----------------------------------------------------------------------------
(* Every file that the environment of a running mount-s3 names is there: what   *)
(* Cleanup removes for one mount, no other mount still uses.                    *)
EnvFilesExist == \A m \in DOMAIN process : process[m].env \subseteq DOMAIN files

ServedBy(t) == IF Kind(t) = "pod" THEN Pod ELSE t

(* The driver still provides a process with what it was started with. *)
StillProvided(t) ==
    /\ ServedBy(t) \in DOMAIN process
    /\ {f.type : f \in process[ServedBy(t)].env} \subseteq {f.type : f \in CredentialEnv(Kind(t), t)}

(* Whoever publishes the volume renews the files that the running process       *)
(* reads, also when another workload's call started it: at the last write of a  *)
(* Provide all of them are as new as the request.                               *)
RefreshIsSeen ==
    [][\A c \in Calls :
          LET t == call[c].target IN
          /\ call[c].pc = "provide" /\ Len(call[c].todo) = 1
          /\ call'[c].pc = "provide" /\ call'[c].todo = <<>>
          /\ StillProvided(t)
          => \A f \in process[ServedBy(t)].env : UpToDate(files', f, call[c].gen)]_vars

(* A Cleanup of a Mountpoint Pod that reports no error leaves its directory     *)
(* empty, whatever configurations of the driver wrote into it.                  *)
CleanedIsEmpty ==
    [][call[Unmounter].pc = "cleanup" /\ call[Unmounter].todo = <<>>
        /\ ~call[Unmounter].failed /\ call'[Unmounter].pc = "idle"
        => \A f \in DOMAIN files : f.dir # Pod]_vars

(* mount-s3 with a cache on an emptyDir that the volume's attributes limit      *)
(* keeps 5% below that limit on disk, and does not exceed it in memory, however *)
(* its options were edited since the Pod was created; a cache has a volume.     *)
CacheFitsVolume ==
    Pod \in DOMAIN process =>
        LET args == process[Pod].args
            sizes == {a.value : a \in Found(args, "max-cache-size")}
        IN
        /\ Has(args, "cache") <=> volume # NoVolume
        /\ setup.attrs.cache = "emptyDir" /\ volume.limit # NoLimit =>
            /\ \A size \in sizes : size <= LimitMiB(volume.limit)
            /\ volume.medium = "" =>
                sizes # {} /\ \A size \in sizes : 100 * MiB * size <= 95 * volume.limit

(* A renewed token reaches the files that mount-s3 reads while a workload uses  *)
(* the mount, unless the driver was set up anew, or IMDS failed it for good, so *)
(* that it no longer provides these files.                                      *)
TokenReachesProcess ==
    \A g \in 2..MaxRotations + 1 :
        gen >= g ~>
            \A t \in bound :
                workload[t] = "wanted" /\ StillProvided(t)
                => \A f \in process[ServedBy(t)].env : UpToDate(files, f, g)
=============================================================================
