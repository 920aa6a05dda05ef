# Verification of the Mountpoint for Amazon S3 CSI driver

TLA+ models of the driver's controller, node plugin, Mountpoint containers and
mounter DaemonSet, checked with TLC on small instances and, in part, proved with
TLAPS for every instance. Paths below are relative to the repository root;
`PROJECT.json` maps every definition to the lines it models.

## 1. The system and its parts

A workload Pod uses a volume that is an S3 bucket. The bucket is mounted by a
`mount-s3` process in a *Mountpoint Pod*, which several workloads may share.

| Part | State | Operations |
|---|---|---|
| Reconciler (`cmd/aws-s3-csi-controller/csicontroller/reconciler.go`) | work queue; locals of one `Reconcile` (controller-runtime runs one at a time by default) | on a workload: find the S3PA of its field tuple, attach it, spawn a Mountpoint Pod, create the S3PA, or detach it; on a Mountpoint Pod: delete it when it succeeded; recover from duplicate S3PAs |
| Expectations (`expectations.go`) | set of field tuples with a created but unseen S3PA | set, read, clear |
| Stale attachment cleaner (`stale_attachment_cleaner.go`) | locals of the periodic run | list S3PAs and Pods, drop attachments older than the threshold whose workload is gone, annotate empty Mountpoint Pods, update or delete the S3PA; delete stale Headroom Pods |
| MountpointS3PodAttachment (S3PA, `pkg/api/v2`) | per field tuple: Mountpoint Pod name -> attached workloads; resource version | create, update, delete through the API server |
| Headroom Pods (`reconciler.go`, `pkg/podmounter/mppod/headroom.go`) | label and scheduling gate of the workload, one Headroom Pod per volume | label, create, ungate, delete, unlabel |
| Mountpoint Pod locks (`pkg/driver/node/mounter/mppod_lock.go`) | map from Pod name to a counted mutex | get, lock, unlock, release |
| Node service and Pod mounter (`pkg/driver/node/node.go`, `mounter/pod_mounter.go`) | mount table, descriptors, credentials, calls in flight | `NodePublishVolume`, `NodeUnpublishVolume` |
| Pod unmounter (`mounter/pod_unmounter.go`) | locals of two goroutines | Pod update handler; periodic scan `CleanupDanglingMounts` |
| Pod watcher (`pkg/podmounter/mppod/watcher`) | informer cache; for each `Wait` its handler's queue and its channel | `Get`, `Wait`, event handlers |
| Credential provider (`pkg/driver/node/credentialprovider`) | credential files, in a directory per Mountpoint Pod or one on the host for mounts of systemd; the driver's environment; the region IMDS gave | `Provide`, `Cleanup` |
| Request arguments (`node.go`, `pkg/mountpoint/args.go`, `creator.go`, `csimounter.go`) | none: a set of options that four places complete, at different times | parse, check, complete, send, run |
| Mountpoint container (`cmd/aws-s3-csi-mounter`) | socket, `mount.err`, `mount.exit`, the child process | receive options and descriptor, run `mount-s3`, report, exit |
| Mounter DaemonSet (`cmd/aws-s3-csi-daemonset-mounter`) | process map, wait group, error files, listener | accept, `Launch`, waiters, `Shutdown` |
| Taint watcher (`pkg/driver/node/taint.go`) | informer store, two retry loops | scan, event, resync, JSON patch |

Interactions. Controller and node never talk to each other: the controller writes
S3PAs, Mountpoint Pods and the annotation `needs-unmount`; the node reads them
through its own informers. The node passes the FUSE descriptor to the container
over a Unix socket, and both leave files for each other (`mount.err`,
`mount.exit`, credentials). Kubelet, API server, scheduler and administrators act
at any time.

What is hard. Every decision of the controller is taken on a cache that is behind
the store, by two goroutines that are not synchronised with each other and whose
writes are only kept apart by resource versions; a call may fail, or succeed and
lose its reply; the controller may stop between any two calls. On the node, calls
outlive the kubelet's patience, a goroutine of the scan works without the lock,
`mount-s3` may die at any step, and the meaning of a path (directory, FUSE mount
waiting for its server, served, broken) changes under those who looked at it.

What makes each part correct:

* attachments: at most one S3PA per tuple, a workload under one Mountpoint Pod, no
  lost updates, every workload attached in the end and detached when gone, Mountpoint
  Pods annotated before they are forgotten, versions not mixed;
* locks: one mutex per name, no lock object leaked or dropped under a user;
* node: no file system unmounted under a workload, no mount left to nobody, no bare
  directory given to a workload, mounts on a target accounted for, credentials where they are
  needed, recovery;
* credentials: the files that a running `mount-s3` was told of exist, are renewed by whoever
  publishes, and are gone after a Cleanup; a mount of one workload takes none from another;
* arguments: a cache has a volume and stays within it, however options were edited;
* watcher: no call sleeps through the Pod it waits for;
* Headroom Pods: there before the gate falls, kept while needed, gone afterwards;
* DaemonSet: every process tracked, no descriptor leaked, complete shutdown;
* taint: removed after registration, in the end, and nothing else with it.

## 2. Modules

| Module | Models | Composition |
|---|---|---|
| `Cluster` | API server and caches: the S3PAs of one field tuple, Mountpoint Pods, workloads | |
| `Reconciler` | `Reconcile`, one action per API call; `expectations.go`; `creator.go` as far as the protocol reads it | over `Cluster` |
| `StaleAttachmentCleaner` | the cleaner's attachments part | over `Cluster` |
| `Attachments` | abstract: the S3PAs of a tuple change by one decision at a time, without caches, copies or faults | |
| `Controller` | both goroutines, environment, restarts; the properties | extends the three, implements `Attachments` |
| `MCController` | symmetry for TLC | |
| `PodMutex` | abstract: one mutex per Mountpoint Pod name | |
| `MPPodLock` | the map of counted lock objects | implements `PodMutex` |
| `NodeHost` | mount table, files, Mountpoint Pods as the node sees them, syscalls | |
| `MountpointContainer` | the container's main and `mount-s3` | over `NodeHost` |
| `PodMounter` | `NodePublishVolume`, `NodeUnpublishVolume`, `Mount`, `Unmount`, kubelet | over `NodeHost` |
| `PodUnmounter` | the two unmounter goroutines | over `NodeHost` |
| `Node` | the node; uses the lock as `PodMutex` promises; the properties | extends the four |
| `MCNode` | symmetry for TLC | |
| `Headroom` | Headroom Pods, reconciler and cleaner | |
| `TaintWatcher` | the taint watcher | |
| `DaemonsetMounter` | the mounter DaemonSet | |
| `PublishRequest` | pure: from mountOptions and volume attributes to the arguments of `mount-s3` | |
| `PodWatcher` | `Watcher.Wait`, with its handler, lookup and channel | |
| `Credentials` | the credential provider and its files | |
| `Publish` | publish and unpublish as credentials and arguments see them, systemd mounts included; the properties | extends the three |
| `MCPublish` | the configurations for TLC | |
| `ControllerProofs`, `AttachmentProofs`, `MPPodLockProofs`, `NodeProofs`, `HeadroomProofs`, `TaintProofs`, `DaemonsetProofs`, `PublishProofs` | theorems | each extends the module it is about |

### Correspondence with the code

*Controller.* `hist` is the sequence of S3PA stores from the one the informer
cache shows (`Head`) to the API server's (`Last`); a read of the cached client is
`Cached`, a write appends. Update and Delete with a precondition succeed only if
the version matches (`CommitUpdate`, `CommitDelete`). `mp` and `mpSeen` are the
Mountpoint Pods and their cached copies: caches of Pods and S3PAs are separate
informers. `rec` holds the locals of the running `Reconcile` and the point between
two API calls where it is; `pending` is the expectation of the tuple; `cl` the
locals of the cleaner's run. One field tuple is modelled: tuples share neither
S3PAs nor expectations, and a Mountpoint Pod belongs to one tuple. A failed call is
a disjunct of its action (`UpdateFails`, ...): refused, or applied with the reply
lost, which sets `lost`.

*Node.* `source[p]` is what is at the source path of Mountpoint Pod `p`: nothing, a
directory, a FUSE mount whose server has not answered (`pending`), `served`, or
`corrupted`. `bound[t]` is the stack of bind mounts on a target. `call[c]` has the
locals of a call, among them what it read before it waited for the lock. `proc` is
the container, `files` what the two leave for each other. The lock is the one
`MPPodLock` implements: a call may take it when no other call and no unmounter holds
that name. The controller is part of the environment here, and simpler than in `Controller`:
`ControllerAttaches` attaches only to a running Mountpoint Pod, `ControllerAnnotates` annotates
one to which no target is attached. That second promise the cleaner may break
(`NeedsUnmountHasNoWorkload`, section 4), so the node's theorems are about Mountpoint Pods
for which the controller keeps it.

*Publish.* The same calls as in `Node`, cut differently: mounts are reduced to `bound`, the
targets with a mount, and `process`, the running `mount-s3` with the environment and
arguments it was started with; what the calls write on the way is kept in detail. `setup`
is fixed in a behaviour: the volume's attributes, where credentials come from, which
environments the driver may be started with, who mounted which target. `files` maps the
name of a credential file (directory, Pod id, type) to the generation of what is in it;
`gen` is the generation of the current tokens. `call[c].todo` are the files that `Provide`
or `Cleanup` has yet to write or remove, one action each; `ReplaceFile` is two, since
nothing orders its read and its rename. `wait[c]` is the `Wait` of a call: `queue` is what
client-go has for its handler, `podChan` its channel. Arguments are a set of key and value
pairs that may have a key twice, and a lookup that may return either is a set of outcomes
(`PublishRequest`).

*Headroom.* `store` is the sequence of states from the cache to the API server,
workload and Headroom Pods together as they come over one watch; the other variables
are the locals of a reconciliation and of a cleaner run.

*DaemonsetMounter.* Requests double as connections and as the processes they start;
`processes` is `ProcessManager.processes`, `wg` the wait group, `deleted` the waiters
between the deletion from the map and the error file, `held` the descriptors open in
the mounter.

*TaintWatcher.* `attempt[g]` is `attemptTaintRemoval` with its remaining tries for the
immediate scan and for the event handler; `taints` and `seen` are the Node at the API
server and in the informer's store.

### Outside the repository

Modelled from how the code uses it and marked external in the map: the API server
refuses writes from old versions and allows scheduling gates only to be removed; watches
deliver in order; statx on a FUSE mount blocks until its server answers; a FUSE mount is
broken once every copy of its descriptor is closed; the kubelet makes one call per target
at a time unless one expired; a registered driver stays registered while the watcher runs;
an informer stores an object and hands the event to the registered handlers under one lock,
and a handler that registers gets what is stored; `mount-s3` refuses an option given twice;
names of Pods and S3PAs are not reused while something refers to them; leader election
keeps one controller at a time; a cleanup run is shorter than `staleAttachmentThreshold`.
The last is not guaranteed: the cleaner lists Pods and then makes API calls of any
duration, and an attachment older than the threshold but younger than the list would be taken
for stale (`stale_attachment_cleaner.go:109`). That hazard is therefore only partly covered.

## 3. Runs

`tlc -config <name>.cfg <module>`; all passing runs are exhaustive.

| Run | Module | Checks | Bounds | States |
|---|---|---|---|---|
| `race` | MCController | `TypeOK`, `AtMostOneS3PA`, `AttachedOnce`, `ImplementsAttachments` | 2 workloads, one of which ends, 2 Mountpoint Pods, 2 S3PAs, cache up to 2 writes behind | 474 000 |
| `upgrade` | MCController | `PendingIsBacked`, `SameVersionOnly`, `ActiveStaysAttached` | 1 workload and 1 of driver v1, 2 versions, 1 restart, 1 fault, cache 1 write behind, no cleaner, caches not synchronised | 1 550 000 |
| `attach` | MCController | `AttachedEventually` | 2 workloads that do not end, 1 eviction, closing or resync, cache 1 write behind | 162 000 |
| `cleanup` | MCController | `GoneIsDetached`, `RetiredMPIsAnnotated` | 1 workload, 1 fault, cache 1 write behind | 258 000 |
| `stuck_expectation` | MCController | finds `AttachedEventually` violated | 2 workloads, one of which ends | |
| `lock` | MPPodLock | `RefCountExact`, `ReleasesItsOwnLock`, `ImplementsPodMutex` | 4 goroutines, 2 names, 4 lock objects | 20 000 |
| `node` | MCNode | `MountsAccountedFor`, `BareOnlyOfDeleted`, `WorkloadHasCredentials`, `UnmountSparesWorkloads` | 1 Mountpoint Pod, 2 targets, 2 calls, 1 crash, 1 deletion, 1 expired call | 1 770 000 |
| `node_recovery` | MCNode | `NoAbandonedMount`, `AnnotatedCompletes`, `VolumeIsServed` | 1 Mountpoint Pod, target and call, 2 crashes, 1 restart of the plugin | 33 000 |
| `headroom` | Headroom | `UngatedWithHeadroom`, `HeadroomCanFollow`, `HeadroomIsKept`, `OtherGatesAreKept`, `HeadroomIsReclaimed`, `GateIsRemoved` | 2 volumes, cache 1 behind, 1 failure, restart or preemption | 162 000 |
| `taint` | TaintWatcher | `OnlyOwnTaint`, `OpensWhenRegistered`, `TaintIsRemoved` | 1 other taint, 2 tries (5 in the code), 2 queued events, 3 changes, 1 fault | 31 000 |
| `daemonset` | DaemonsetMounter | `TypeOK`, `EveryProcessIsTracked`, `NoDescriptorLeak`, `ShutdownIsComplete`, `ShutdownEnds` | 3 requests, 2 mount ids | 88 000 |
| `publish` | MCPublish | `NoLostWakeup`, `EnvFilesExist`, `CacheFitsVolume`, `RefreshIsSeen`, `CleanedIsEmpty`, `TokenReachesProcess` | 11 configurations, up to 2 targets, 2 calls, 1 rotation, 1 disturbance (failed write, removal or start, expired call, edit, restart) | 263 000 |

What they show:

* `race`: a reconciler and a cleaner that work on copies from a cache up to two writes behind never
  create a second S3PA and never list a workload twice, and what they do to the S3PAs in
  the store is what `Attachments` allows: a workload that is in none of its Mountpoint Pods
  is attached to one of this driver version, or workloads that are over leave, and with them
  retired Mountpoint Pods nobody uses. `ActiveStaysAttached` follows, so `race` does not list
  it. At two writes behind, the cache misses both a create and the attachment or the removal
  that followed it; a copy in hand may be older still.
* `upgrade`: a controller stopped between any two calls, with its memory lost and a
  cache behind, replaced by one of another version, recovers from the duplicate S3PAs
  that result without detaching anybody, and shares only Mountpoint Pods of its version.
* `attach`, `cleanup`: conflicts, stale reads, expectations and single faults delay work
  but do not stop it; whoever removes an entry annotated its Mountpoint Pod before, also
  when one of the calls in between failed.
* `lock`: callers of `lockMountpointPod` see `PodMutex`.
* `node`: the lock protects the window between counting references and unmounting, and
  between checking a source and binding it, also when calls overlap. Mounts on a target are
  accounted for: one of a file system, one more for each expired call (with the one allowed
  here, two occur), and a bare one costs a Mountpoint Pod. So repeated publishes over broken
  mounts, deletions and overlapping calls pile up nothing beyond that.
* `node_recovery`: whoever leaves a FUSE mount unserved has the descriptor and removes it,
  or the restart of the plugin does; broken mounts are taken away and replaced, and a Mountpoint Pod that
  is annotated completes.
* `headroom`: the gate falls only with all Headroom Pods created, and they are deleted
  for good when the workload runs or ends, including those missed in the cache.
* `taint`: the test operation of the JSON patch makes a patch from an old copy fail
  instead of undoing others' changes, and the resync repeats an attempt that gave up, as
  long as the watcher runs.
* `daemonset`: no order of launches, exits, waiters and SIGTERM loses a process.
* `publish`: credential files are named after what the process that reads them lives in,
  not after the workload that asks, so any workload's publish renews them for all; a mount
  of systemd's leaves the shared tokens to the others; what Cleanup removes does not depend
  on the configuration of the day. A renewed token reaches the process in the end, though a
  call the kubelet gave up on may put an old copy over it. The 5% below the limit of a cache
  on disk survive an edit of the options between the creation of the Pod and any of the
  publish calls.

Bounds. Two workloads are what sharing, races and conflicts need; a third adds no new
pair. Two Mountpoint Pods and S3PAs let one replace the other. Where a run has one
Mountpoint Pod (`node`), locks, files and sources of different Pods are independent; a
target that moves between two Pods is left to a later run. Faults are bounded by 1
because each recovery path starts from one failed call; restarts likewise. `Nat`-valued
counters in the code (resource versions) are bounded by the names, which are not reused.
Symmetry is used only in runs without liveness properties. In `publish` the configurations
are one for each source of credentials and kind of cache, and two targets where mounts
share something; one disturbance is what each recovery starts from, one rotation makes two
generations that can be confused, and the limit is one byte short of a whole number of MiB,
so that both roundings matter (theorem `CacheCorrect` is about every limit).

Deadlock is checked where a component runs for ever (`race`, `attach`, `cleanup`, `lock`,
where the cleaner's ticker or callers go on). It is off where the system may come to
rest: `upgrade` (no cleaner), the node (workload gone, Pod completed), `headroom`
(workload gone), `taint` (watcher stopped), `daemonset` (exited), `publish` (workloads gone).

### Fairness

* Controller: weak fairness of the reconciler, the cleaner and the informers, which are
  goroutines that loop; strong fairness of taking a given workload from the queue
  (client-go's work queue is first in, first out, and errors requeue with back-off), and
  of an attachment passing the age threshold between two cleanup runs (time passes).
* Node: weak fairness of goroutines, containers and informers; strong fairness of locks
  (Go's mutex hands over to a waiter that starves), of publish and unpublish (the kubelet
  retries until it succeeds), and of the update handler (resync).
* Headroom: weak fairness of worker, cleaner and informer. Taint: weak fairness of the
  goroutines, strong of watch and resync. DaemonSet: weak fairness of main, listener and
  waiters, and of a Mountpoint process that got SIGTERM.

* Publish: strong fairness of the steps of a call, among them getting the lock, weak fairness of
  Cleanup, and strong fairness of publishing each target: the kubelet calls
  NodePublishVolume again and again for a mounted volume, since the CSIDriver object has
  `requiresRepublish`.

Nothing is assumed of tokens being renewed, Pods ending, faults, restarts, expiring calls, binding of claims or
the registration of the driver.

## 4. Known gaps in the code

One is kept as a run (`findings` in `PROJECT.json`):

* `stuck_expectation`. The workload that created the S3PA vanishes before the S3PA is
  seen; the cleaner deletes the S3PA and does not clear the expectation
  (`stale_attachment_cleaner.go:135`); every later workload of the tuple is requeued for
  ever, though `reconciler.go:56` speaks of avoiding indefinite waiting.

The others are reproduced by the change given here:

* `CleanupDanglingMounts` unmounts the source of a Pod the watcher no longer knows without
  the lock (`pod_unmounter.go:113`). A Mount for that Pod may be between its check of the
  source and its bind mount, and binds the bare directory: the workload writes to the
  node's disk. `BareOnlyOfDeleted`, which holds, says it takes a deleted Pod. `node.cfg`
  with `Targets = {t1}`, `Calls = {c1}`, `MaxCrashes = 0`, `MaxExpiries = 0` and
  `INVARIANTS BindsOnlyMountpoints`.
* A Mountpoint Pod annotated `needs-unmount` may have an active workload: the cleaner
  annotates before its write is refused (`stale_attachment_cleaner.go:122`;
  `creator.go:32-34` promises otherwise). `race.cfg` with
  `INVARIANTS NeedsUnmountHasNoWorkload`.
* An entry that is empty already, after an interrupted removal, is annotated by the
  cleaner again and again but not removed (`stale_attachment_cleaner.go:132` against the
  comment at line 94). `cleanup.cfg` with `PROPERTIES EmptyEntriesRemoved`.
* A Mountpoint Pod not in the cache yet is taken for deleted by
  `addNeedsUnmountAnnotation` (`reconciler.go:950`), is not annotated and runs for ever.
  `race.cfg` with `PodsFirst = FALSE` and `RetiredMPIsAnnotated`. The runs `race`,
  `attach` and `cleanup` therefore assume that a Mountpoint Pod reaches the cache no later
  than the S3PA that names it; `upgrade` does not.
* Two overlapping calls for a target both read that it is not mounted
  (`pod_mounter.go:111`) and both bind it. `node_recovery.cfg` with
  `Calls = {c1, c2}`, `MaxCrashes = 0`, `MaxRestarts = 0`, `MaxExpiries = 1` and
  `INVARIANTS TargetBoundOnce`. The second mount stays after the Unpublish, which unmounts
  once. `MountsAccountedFor`, which holds, says that each costs an expired call.
* A Mountpoint Pod deleted under a Mount leaves a mount of the bare directory, which
  `CheckMountpoint` takes for no mount, so the next Mount binds on top of it.
  `node_recovery.cfg` with `MountpointPods = {p1, p2}`, `MaxCrashes = 0`, `MaxRestarts = 0`,
  `MaxDeletions = 1` and `INVARIANTS TargetBoundOnce`.
* A Mount the kubelet gave up on binds its target after the Unpublish, because nothing
  after the lock looks at the context (`pod_mounter.go:145`); the reference keeps an
  annotated Mountpoint Pod mounted. The same configuration with `AnnotatedCompletes`.
* If `mount-s3` fails while `mount.exit` is there, the container exits with an error and
  is restarted (`csimounter.go:62` against lines 78-79). `node_recovery.cfg` with
  `PROPERTIES CleanExit`.
* `waitForMount` waits on its channel without the context (`pod_mounter.go:400`); if the
  container fails without `mount.err` it never returns and keeps the lock.
  `node_recovery.cfg` with `MaxCrashes = 1`, `MaxRestarts = 0`, `MaxExpiries = 1`,
  `ErrorsAreWritten = FALSE` and `ExpiredCallsReturn`. The run `node` keeps
  `ErrorsAreWritten = FALSE`: the safety properties do not depend on it.
* A gated workload that is being deleted with a claim unbound gets its Headroom Pod
  created and deleted in turns until it is gone (`reconciler.go`, create and delete in one
  pass); `HeadroomIsReclaimed` is stated for ungated workloads. `headroom.cfg` with the
  conjunct `Gate \notin Api.w.gates` removed.
* An option given twice with different values stays twice in `Args`, and `find` returns
  either (`args.go:148`): `NodePublishVolume` may check one `max-cache-size` and remove the
  other. `mount-s3` refuses repeated options, but of two sizes one may be gone by then.
  `ConfigurationsAssumption` excludes it; without it, `publish.cfg` with the options
  `{MaxCacheSize(1), MaxCacheSize(19)}` and `CacheFitsVolume`.

Read in the code, and within the model where it says so:

* A cache asked for in mountOptions gets an `emptyDir` with `cacheEmptyDirSizeLimit`
  (`creator.go:234`), but `NodePublishVolume` sizes the cache only if the attribute `cache`
  is set (`node.go:159`): the kubelet evicts the Mountpoint Pod when the cache outgrows the
  limit. `CacheFitsVolume` is stated for `cache: emptyDir`; `docs/CACHING.md:305` says the
  result is the same. A size between 95% and 100% of the limit is lowered without a word,
  while `docs/CACHING.md:60` allows it.
* A driver restarted with other credentials renews files that a running `mount-s3` was not
  told of; its old ones stay as they are (hence `StillProvided` in the properties).
* A failed request to IMDS is remembered for the life of the process (`sts_region.go:66`).
* A restart between the unmount of a systemd mount and its Cleanup leaves the files:
  the next NodeUnpublishVolume finds no mount and returns (`node.go:246`).
* A container killed while it listens leaves `mount.sock` behind, on which the Listen of the
  next one fails (`mount_options.go:114`); the model's container listens again.
* The DaemonSet's waiter writes the error file after its entry left the map
  (`process_manager.go:105`), so a new process of the same mount id may find it.
* The informer of the node selects Pods by node name (`watcher.go:49`), so a Pod that
  cannot be scheduled is never seen, and `ErrPodUnschedulable` never returned.
* Whether the first request was read-only decides for all who share the mount
  (`node.go:120`).

## 5. Proofs

All theorems hold for every value of the constants that satisfies the named assumptions
of the modules (bounds are naturals, workload classes are sets of workloads, `Nil` is not
a name, nor a target).

* `ControllerProofs!TypeCorrect`: `Spec => []TypeOK`. One lemma per operation on S3PAs
  and per goroutine; the type says also which step has which names in hand, which the
  later proofs use.
* `AttachmentProofs!AttachedOnceCorrect`: `Spec => []AttachedOnce`. The property of the
  store is not inductive, since any copy may be written back: the invariant `OnceInv`
  extends it to every store in `hist`, to the reconciler's copy (with the fact that the
  copy does not have the workload at the steps that add it) and to the cleaner's copies.
* `AttachmentProofs!AtMostOneS3PACorrect`: `Spec => []AtMostOneS3PA`. `ExpectationInv`
  says that, until a reply is lost or the controller restarts, no store in `hist` has two
  S3PAs, at most one creation lies between the cache and the store, and an S3PA the cache
  does not show yet is covered by the expectation; a Reconcile that is about to create one
  has seen a cache without any and no expectation, hence the store has none.
* `AttachmentProofs!ActiveStaysAttachedCorrect`, `SameVersionCorrect` and `RetiredCorrect`,
  action properties of the specification, from one invariant. `VersionInv` says, of every
  copy of an S3PA (in `hist`, in the reconciler's or in the cleaner's hands), that it is
  the S3PA in the store if it has its resource version, and older otherwise (`Older`; what
  the cleaner has is that S3PA without workloads that are gone and without the entries of
  Pods it annotated, `Filtered`). With it: that a Reconcile which removes a workload has
  seen it inactive, that one which attaches has a Mountpoint Pod of its own version in
  hand, that the cleaner's list of existing Pods misses only aged workloads that are gone,
  and that a Mountpoint Pod the cache shows has the version it shows. Every step then
  writes nothing, or is a `GoodWrite`, and of these the three properties are evident.
  `RetiredCorrect` assumes `PodsFirst`, without which the property is false (section 4);
  the other two do not.
* `AttachmentProofs!AttachmentsRefinement`: `Spec => ImplementsAttachments`, assuming `PodsFirst`.
  The refinement mapping reads the last store of `hist`, the workloads and the Mountpoint Pods;
  the queue, the caches and all that `rec` and `cl` hold go unseen. `TypeOK`, `OnceInv` and
  `VersionInv` suffice: an accepted write was made from the S3PA in the store, which does not
  have the workload it adds (`Joins`), or it only takes away what is over or retired
  (`Leaves`), and either is one step of `Attachments` (`DecidedMaps`). A write that is refused
  or fails stutters, one whose reply is lost does not; annotations, spawned, deleted and evicted
  Pods are steps of their own, and a restart replaces the version. `Attachments` says less than
  one might wish where the code does: a retired Mountpoint Pod may still be attached to
  (section 4), and two S3PAs may exist after a restart (`AtMostOneS3PA` has its own theorem).
* `AttachmentProofs!PendingCorrect`:
  `Spec => [](~pending /\ [][~ForgetsExpectation]_vars => []PendingIsBacked)`, with cleaner
  and reconciler running and no assumption on the constants. Outright, `PendingIsBacked` is
  false (section 4): the cleaner deletes an S3PA and leaves the expectation. The theorem says
  that this is the only way: from any moment at which nothing is expected (the start, or any
  later state, whatever happened before), an expectation is backed until the cleaner deletes
  an S3PA while one is expected (`ForgetsExpectation`). Lag, failed calls, restarts, duplicates
  and all that the cleaner does otherwise do not leave it without one. (Only an applied write
  whose reply is lost is left out by `PendingIsBacked` itself: the reconciler takes it for
  failed, and an applied delete then leaves the expectation as well.) Restarts leave duplicates,
  so the S3PA that backs an expectation may be deleted as one; the theorem says another one is
  there. `BackedInv` says that while a S3PA is expected some S3PA exists which no store of
  `hist` shows next to one that has Mountpoint Pods and is deleted by now (`PendingInv`,
  `LastOfThose`); that only a S3PA which the cache showed is emptied or deleted, so at most one S3PA has no Mountpoint
  Pods and `recoverFromDuplicateS3PodAttachments` has at most one to delete, for one that has
  some (`DupInv`); that versions tell the contents of a S3PA apart, so the one that is deleted
  with a version precondition is the one that was seen empty; and that what the cleaner has
  listed is in every store if it still exists (`CleanInv`). A removal that empties the S3PA
  clears the expectation with its own delete. Without the parts about the expectation the invariant (`KnownInv`) holds
  always, also after a `ForgetsExpectation`, and with `~pending` it is the whole: that is why
  the theorem may start anywhere.
* `MPPodLockProofs!RefCountCorrect`, `OwnLockReleased` and `LockRefinement`: `LockInv` has the exact count,
  that a goroutine releases its own object, that an object is in the map under one name
  and that its mutex has one holder; from it every step of `MPPodLock` is a step of
  `PodMutex` or stutters.
* `DaemonsetProofs!MounterTypeCorrect`, `TrackingCorrect`, `DescriptorsCorrect`,
  `ShutdownCorrect`: `MounterInv` relates waiters, map entries and processes: every
  waiter that has not deleted owns its entry, every running process has such a waiter, a
  request is handled once, and main exits only with the wait group empty.

* `NodeProofs!NodeInvariant` and from it `NoMountAbandoned`, `WorkloadsKeepCredentials`,
  `BareMountsAreOfDeletedPods` and `WorkloadsSpared`, for any number of Mountpoint Pods,
  targets, calls, crashes, deletions, expired calls and restarts. None of the four is
  inductive. `NodeInv` adds `Exclusive` (the lock of a name has one holder among calls and
  unmounters); `PodInv` (a process serves exactly when the source is served, a served
  mount has credentials, a bare directory is bound only for a deleted Pod); `CallInv` and
  `UnmounterInv`, which say what a call or an unmounter may still rely on of what it read
  some steps ago. The scan works without the lock on Pods the informer does not show; that
  these are gone is the conjunct about `Seen`: a source is made only by a call that saw its
  Pod, and a call that waits for the lock has seen it. One lemma per action; `ProcessDies`
  is shared by all ways in which a process ends.
* `NodeProofs!TargetsAccountedFor`: `Spec => []MountsAccountedFor`, for any number of calls,
  targets, Mountpoint Pods, failures, deletions, restarts and expired calls. One mount for each
  target (`TargetBoundOnce`) is too much to ask: after an expired call two calls bind one, and
  a bare mount is bound over (section 4). Mount reads whether its target is mounted some steps
  before it binds it, and no lock orders calls for one target that use different Mountpoint
  Pods, so the invariant counts. `CountInv` says, of every target, that its mounts of file
  systems and the calls that will bind it (`Binders`) are together at most one more than the
  expired calls; and no more than these while the target shows no mount (`ShowsNone`) and only
  expired calls are about to bind, which is what lets the kubelet start another. Of bare mounts
  each is of a Mountpoint Pod of its own (`SoleBare`): the Pod is gone, the call that bound its
  directory had its lock (`Exclusive`), and no other call gets past the credentials of a Pod
  that is gone (`NonePast`).
* `HeadroomProofs!HeadroomInvariant` and from it `UngatedOnlyWithHeadroom`,
  `HeadroomFollowsLabel`, `HeadroomKept` and `OtherGatesKept`, for any volumes and any lag.
  The decisions are taken on copies, so `HeadroomInv` orders them (`Older`): a copy is of
  a workload that since only lost gates, only went forward, and kept its label while
  pending. `RecInv` says that of the copy in hand and relates what the pass did (created,
  removed, volumes left) to the store, `CleanerInv` that what the cleaner is about to delete
  has no pending workload.
* `TaintProofs!TaintInvariant` and from it `OnlyOwnTaintRemoved` and `NodeOpensRegistered`:
  the copy an attempt patches from had the taint, and an attempt that is at the patch has
  seen the registration, which is not withdrawn.

* `PublishProofs!WakeupCorrect`: `Spec => []NoLostWakeup`, for any number of calls.
  `NoLostWakeup` speaks of a call that selects; `WakeupInv` adds the call between
  registration and lookup, where the same must hold, the types, and that the informer does
  not show a Pod before it is scheduled. Sequences of events are of any length.
* `PublishProofs!CacheCorrect`: `Spec => []CacheFitsVolume`, for every limit, size and
  sequence of edits. `CacheInv` says that the volume was made from options the volume had at
  some time, that the arguments of every call in flight fit the limit (`Fits`) and that
  those of the process do.
  Lemmas follow an option through each stage: the safe size is 95% of the limit or less and
  within it in whole MiB (`SafeSizeIsSafe`), what `NodePublishVolume` returns fits
  (`SizedFits`, `PublishedFits`), and neither `mountS3AtSource` nor the container changes a
  size (`StartedWithVolume` and the lemmas before it). Assumed: `max-cache-size` is given at
  most once, as an integer, and the limit is a natural number (`ConfigurationsAssumption`).
* `PublishProofs!EnvFilesCorrect`, `CleanedCorrect` and `RefreshCorrect`: `EnvFilesExist`
  as an invariant, `CleanedIsEmpty` and `RefreshIsSeen` as action properties, for any targets
  of either kind, calls, rotations, failures and restarts. `CredentialsInv` says of every
  running process that its environment names files that exist and are its own (`EnvOK`), of
  every call what it has already provided: for the Mountpoint Pod, under the lock, each file
  no longer on its list is as new as its request (`PodProvided`); for a mount of systemd's,
  without a lock, the profile is the driver's whoever wrote it, and only the last file of the
  list is anything else (`SystemdProvided`). A removal is of a mount that is gone
  (`CleansUp`), and what the Pod unmounter does not list any more it has removed, unless there
  was an error (`UnmounterOK`). `FileNamesDiffer` says that names tell mounts apart except for
  the host's shared tokens, which Cleanup leaves (`CleanupShape`). Assumed: the Pod's directory
  is not the host's (`CredentialsAssumption`), names of targets are not names of Pods.

Only model-checked: every liveness property, since the prover does no fairness.

## 6. Not modelled

* What is in a token or a profile, and the environment variables other than those that
  name credential files; the lookup of the service account's role may fail, which to the
  model is a publish that was not made.
* Rendering of Pod specs other than the cache volume, splitting of options and parsing of
  volume contexts and target paths, driver wiring, the CSI identity and controller
  services: no state.
* The goroutine of client-go that stays behind when `Wait` returned with its channel full
  (`watcher.go:106`); temporary files of `ReplaceFile`.
* Sizes are exact: `SafeMaxCacheSize` is the quotient of integers, which the floating point
  expression of `node.go:168` equals for limits below 2^48 bytes.
* That the poller of `mount.err` stops with its context (`pod_mounter.go:376`): in the model a
  call that is over may still fail on that file. It has more behaviours for it, no property
  depends on them.
* Durations: the taint watcher's resync every 5 s against attempts of up to about 16 s,
  back-off, the cleaner's period.
* Fields of the S3PA other than the attachments; several field tuples at once.

## 7. Plan

Done, in this order: `Cluster`, `Reconciler`, `StaleAttachmentCleaner`, `Controller`, `Attachments`;
`PodMutex`, `MPPodLock`; `NodeHost`, `MountpointContainer`, `PodMounter`, `PodUnmounter`,
`Node`; `Headroom`; `TaintWatcher`; `DaemonsetMounter`; `PublishRequest`, `PodWatcher`,
`Credentials`, `Publish`; the proofs of section 5.

Next, models: a target that moves between two Mountpoint Pods; a composition of controller
and node (annotation against mount), with `Attachments` in the controller's place.
