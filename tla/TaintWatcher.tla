---------------------------- MODULE TaintWatcher ----------------------------
(***************************************************************************)
(* The node plugin's watcher for the agent-not-ready taint                 *)
(* (pkg/driver/node/taint.go): once the CSI driver is registered it takes  *)
(* the taint off its node.  Two goroutines try it, the informer's event    *)
(* handler and the scan after the cache is synced, each with the copy of   *)
(* the Node it was given, while others change the taints of the node.      *)
(***************************************************************************)
EXTENDS Integers, Sequences

CONSTANTS
    OtherTaints,  \* taints of other agents
    NotReady,     \* s3.csi.aws.com/agent-not-ready
    Steps,        \* tries of one attempt (backoff)
    MaxQueue,     \* events the handler may be behind
    MaxChanges,   \* changes others make to the taints
    MaxFaults     \* API calls that fail

ASSUME TaintAssumption ==
    /\ NotReady \notin OtherTaints
    /\ Steps \in Nat \ {0} /\ MaxQueue \in Nat \ {0} /\ MaxChanges \in Nat /\ MaxFaults \in Nat

Taints == OtherTaints \cup {NotReady}
Goroutines == {"handler", "scan"}

VARIABLES
    taints,      \* of the Node, at the API server
    seen,        \* of the Node, in the informer's store
    events,      \* Nodes on their way to the event handler
    registered,  \* the CSINode lists the driver
    attempt,     \* attemptTaintRemoval of each goroutine
    watching,    \* the informer runs: "starting", "synced", "scanned", "stopped"
    changes, faults

vars == <<taints, seen, events, registered, attempt, watching, changes, faults>>

AttemptType == [pc : {"idle", "check", "patch"}, node : SUBSET Taints, tries : 0..(Steps - 1)]

AttemptIdle == [pc |-> "idle", node |-> {}, tries |-> 0]

TypeOK ==
    /\ taints \subseteq Taints /\ seen \subseteq Taints
    /\ events \in Seq(SUBSET Taints) /\ Len(events) <= MaxQueue
    /\ registered \in BOOLEAN
    /\ attempt \in [Goroutines -> AttemptType]
    /\ watching \in {"starting", "synced", "scanned", "stopped"}
    /\ changes \in 0..MaxChanges /\ faults \in 0..MaxFaults

Init ==
    /\ taints \in SUBSET Taints
    /\ seen = {} /\ events = <<>>
    /\ registered = FALSE
    /\ attempt = [g \in Goroutines |-> AttemptIdle]
    /\ watching = "starting"
    /\ changes = 0 /\ faults = 0

-----------------------------------------------------------------------------
(* The informer: first list, changes, and a resync every 5 seconds that hands the *)
(* stored Node to the handler again.                                              *)
Deliver(node) == Len(events) < MaxQueue /\ events' = Append(events, node)

InformerSyncs ==
    /\ watching = "starting"
    /\ watching' = "synced"
    /\ seen' = taints
    /\ Deliver(taints)
    /\ UNCHANGED <<taints, registered, attempt, changes, faults>>

InformerObserves ==
    /\ watching \in {"synced", "scanned"}
    /\ seen # taints
    /\ seen' = taints
    /\ Deliver(taints)
    /\ UNCHANGED <<taints, registered, attempt, watching, changes, faults>>

(* Mutant: the informer does not resync. *)
NoResync == FALSE /\ UNCHANGED vars

Resync ==
    /\ watching \in {"synced", "scanned"}
    /\ Deliver(seen)
    /\ UNCHANGED <<taints, seen, registered, attempt, watching, changes, faults>>

-----------------------------------------------------------------------------
HasNotReadyTaint(node) == NotReady \in node

AttemptOn(node) ==
    IF HasNotReadyTaint(node) THEN [pc |-> "check", node |-> node, tries |-> 0] ELSE AttemptIdle

HandleEvent ==
    /\ attempt["handler"].pc = "idle"
    /\ events # <<>>
    /\ attempt' = [attempt EXCEPT !["handler"] = AttemptOn(Head(events))]
    /\ events' = Tail(events)
    /\ UNCHANGED <<taints, seen, registered, watching, changes, faults>>

(* The scan in case no event fires, then the wait for maxWatchDuration *)
ImmediateScan ==
    /\ watching = "synced"
    /\ watching' = "scanned"
    /\ attempt' = [attempt EXCEPT !["scan"] = AttemptOn(seen)]
    /\ UNCHANGED <<taints, seen, events, registered, changes, faults>>

Stop ==
    /\ watching = "scanned" /\ attempt["scan"].pc = "idle"
    /\ watching' = "stopped"
    /\ events' = <<>>
    /\ UNCHANGED <<taints, seen, registered, attempt, changes, faults>>

(* The backoff ends after Steps tries; every try looks for the driver again. *)
Retry(g) ==
    attempt' = [attempt EXCEPT ![g] =
                  IF attempt[g].tries + 1 = Steps THEN AttemptIdle
                  ELSE [attempt[g] EXCEPT !.pc = "check", !.tries = @ + 1]]

Fault == faults < MaxFaults /\ faults' = faults + 1

(* Mutant: the patch does not wait for the driver. *)
CheckNothing(g) ==
    /\ attempt[g].pc = "check"
    /\ attempt' = [attempt EXCEPT ![g].pc = "patch"]
    /\ UNCHANGED <<taints, seen, events, registered, watching, changes, faults>>

CheckDriverRegistered(g) ==
    /\ attempt[g].pc = "check"
    /\ \/ registered /\ attempt' = [attempt EXCEPT ![g].pc = "patch"] /\ UNCHANGED faults
       \/ ~registered /\ Retry(g) /\ UNCHANGED faults
       \/ Fault /\ Retry(g)
    /\ UNCHANGED <<taints, seen, events, registered, watching, changes>>

(* Mutant: the patch replaces the list without the test. *)
ReplaceTaints(g) ==
    /\ attempt[g].pc = "patch"
    /\ taints' = attempt[g].node \ {NotReady}
    /\ attempt' = [attempt EXCEPT ![g] = AttemptIdle]
    /\ UNCHANGED <<seen, events, registered, watching, changes, faults>>

(* A JSON patch of the whole list: the server tests it against the copy first. *)
RemoveNotReadyTaint(g) ==
    /\ attempt[g].pc = "patch"
    /\ \/ /\ taints = attempt[g].node
          /\ taints' = attempt[g].node \ {NotReady}
          /\ attempt' = [attempt EXCEPT ![g] = AttemptIdle]
          /\ UNCHANGED faults
       \/ taints # attempt[g].node /\ Retry(g) /\ UNCHANGED <<taints, faults>>
       \/ Fault /\ Retry(g) /\ UNCHANGED taints
    /\ UNCHANGED <<seen, events, registered, watching, changes>>

-----------------------------------------------------------------------------
(* kubelet and the other agents of the node *)
DriverRegisters ==
    /\ ~registered
    /\ registered' = TRUE
    /\ UNCHANGED <<taints, seen, events, attempt, watching, changes, faults>>

OthersChange ==
    /\ changes < MaxChanges
    /\ changes' = changes + 1
    /\ \E t \in Taints : taints' \in {taints \cup {t}, taints \ ({t} \cap OtherTaints)}
    /\ UNCHANGED <<seen, events, registered, attempt, watching, faults>>

GoroutineStep(g) == CheckDriverRegistered(g) \/ RemoveNotReadyTaint(g)

Informer == InformerSyncs \/ InformerObserves \/ Resync

Next ==
    \/ Informer
    \/ HandleEvent
    \/ ImmediateScan
    \/ Stop
    \/ \E g \in Goroutines : GoroutineStep(g)
    \/ DriverRegisters
    \/ OthersChange

Spec == Init /\ [][Next]_vars

(* Goroutines run, the informer watches and resyncs.  Others change the taints a *)
(* bounded number of times; nothing makes the driver register.                   *)
FairSpec ==
    /\ Spec
    /\ WF_vars(InformerSyncs) /\ SF_vars(InformerObserves) /\ SF_vars(Resync)
    /\ WF_vars(HandleEvent) /\ WF_vars(ImmediateScan)
    /\ \A g \in Goroutines : WF_vars(GoroutineStep(g))

-----------------------------------------------------------------------------
(* A step of the watcher that changes the taints removes its own taint and leaves *)
(* the taints of the others as they are now, not as the cache had them.           *)
OnlyOwnTaint ==
    [][attempt' # attempt /\ taints' # taints => taints' = taints \ {NotReady}]_vars

(* The node opens for workloads only after the driver registered. *)
OpensWhenRegistered ==
    [][(NotReady \in taints) /\ NotReady \notin taints' => registered]_vars

(* Once the driver is registered the taint goes, unless the watcher stops, after *)
(* which nothing is said: an attempt that gave up, on an old copy or before the  *)
(* registration, is repeated.                                                    *)
TaintIsRemoved ==
    registered /\ NotReady \in taints ~> NotReady \notin taints \/ watching = "stopped"
=============================================================================
