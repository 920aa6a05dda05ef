---------------------------- MODULE TaintProofs -----------------------------
(***************************************************************************)
(* The taint watcher, for any taints of other agents, any queue, any       *)
(* number of tries and of changes by others: its patch removes its own     *)
(* taint only, and only once the driver is registered.                     *)
(***************************************************************************)
EXTENDS TaintWatcher, TLAPS

(* A goroutine that patches has found the driver registered: a registration is *)
(* not withdrawn, and a retry looks for it again.                              *)
PatchAfterCheck == \A g \in Goroutines : attempt[g].pc = "patch" => registered

(* A goroutine holds on to a copy of the Node that had the taint. *)
CopyHasTaint == \A g \in Goroutines : attempt[g].pc # "idle" => NotReady \in attempt[g].node

TaintInv == TypeOK /\ PatchAfterCheck /\ CopyHasTaint

-----------------------------------------------------------------------------
(* What an attempt starts with is an attempt. *)
LEMMA AttemptOnType ==
    ASSUME NEW node \in SUBSET Taints
    PROVE  /\ AttemptIdle \in AttemptType /\ AttemptIdle.pc = "idle"
           /\ AttemptOn(node) \in AttemptType
           /\ AttemptOn(node).pc # "patch"
           /\ AttemptOn(node).pc # "idle" => NotReady \in AttemptOn(node).node
BY TaintAssumption DEF AttemptIdle, AttemptOn, AttemptType, HasNotReadyTaint, Taints

(* A retry goes back to the check, with the same copy, or gives up. *)
LEMMA RetryKeeps ==
    ASSUME TypeOK, CopyHasTaint, NEW g \in Goroutines, attempt[g].pc # "idle", Retry(g)
    PROVE  /\ attempt' \in [Goroutines -> AttemptType]
           /\ attempt'[g].pc # "patch"
           /\ attempt'[g].pc # "idle" => NotReady \in attempt'[g].node
           /\ \A k \in Goroutines \ {g} : attempt'[k] = attempt[k]
<1>1. attempt[g] \in AttemptType
  BY DEF TypeOK
<1>. DEFINE next == IF attempt[g].tries + 1 = Steps THEN AttemptIdle
                    ELSE [attempt[g] EXCEPT !.pc = "check", !.tries = @ + 1]
<1>2. next \in AttemptType /\ next.pc # "patch"
  <2>1. CASE attempt[g].tries + 1 = Steps
    BY <2>1, AttemptOnType
  <2>2. CASE attempt[g].tries + 1 # Steps
    <3>1. attempt[g].tries + 1 \in 0..(Steps - 1)
      BY <1>1, <2>2, TaintAssumption DEF AttemptType
    <3>. QED
      BY <1>1, <2>2, <3>1 DEF AttemptType
  <2>. QED
    BY <2>1, <2>2
<1>3. next.pc # "idle" => next.node = attempt[g].node
  BY <1>1 DEF AttemptIdle, AttemptType
<1>4. attempt' = [attempt EXCEPT ![g] = next]
  BY DEF Retry
<1>. HIDE DEF next
<1>5. attempt' \in [Goroutines -> AttemptType] /\ attempt'[g] = next
  BY <1>2, <1>4 DEF TypeOK
<1>6. \A k \in Goroutines \ {g} : attempt'[k] = attempt[k]
  BY <1>4 DEF TypeOK
<1>7. NotReady \in attempt[g].node
  BY DEF CopyHasTaint
<1>. QED
  BY <1>2, <1>3, <1>5, <1>6, <1>7

(* At first no goroutine has an attempt. *)
LEMMA TaintInit == Init => TaintInv
<1>. SUFFICES ASSUME Init PROVE TaintInv
  OBVIOUS
<1>1. AttemptIdle \in AttemptType /\ AttemptIdle.pc = "idle"
  BY AttemptOnType
<1>2. events \in Seq(SUBSET Taints) /\ Len(events) <= MaxQueue
  BY TaintAssumption DEF Init
<1>3. 0 \in 0..MaxChanges /\ 0 \in 0..MaxFaults
  BY TaintAssumption
<1>4. TypeOK
  BY <1>1, <1>2, <1>3 DEF Init, TypeOK
<1>. QED
  BY <1>1, <1>4 DEF Init, TaintInv, PatchAfterCheck, CopyHasTaint

(* The informer leaves the attempts alone. *)
LEMMA InformerKeeps == ASSUME TaintInv, Informer PROVE TaintInv'
<1>1. TypeOK /\ PatchAfterCheck /\ CopyHasTaint
  BY DEF TaintInv
<1>2. /\ UNCHANGED <<taints, registered, attempt, changes, faults>>
      /\ watching' \in {"starting", "synced", "scanned", "stopped"}
      /\ seen' \in {taints, seen}
  BY <1>1 DEF Informer, InformerSyncs, InformerObserves, Resync, TypeOK
<1>3. PICK node \in SUBSET Taints : Deliver(node)
  BY <1>1 DEF Informer, InformerSyncs, InformerObserves, Resync, TypeOK
<1>4. events' \in Seq(SUBSET Taints) /\ Len(events') <= MaxQueue
  BY <1>1, <1>3, TaintAssumption DEF Deliver, TypeOK
<1>5. TypeOK'
  BY <1>1, <1>2, <1>4 DEF TypeOK
<1>. QED
  BY <1>1, <1>2, <1>5 DEF TaintInv, PatchAfterCheck, CopyHasTaint

(* A new attempt starts with the check. *)
LEMMA StartKeeps ==
    ASSUME TaintInv, HandleEvent \/ ImmediateScan
    PROVE  TaintInv'
<1>1. TypeOK /\ PatchAfterCheck /\ CopyHasTaint
  BY DEF TaintInv
<1>2. PICK g \in Goroutines, node \in SUBSET Taints :
        attempt' = [attempt EXCEPT ![g] = AttemptOn(node)]
  <2>1. CASE HandleEvent
    <3>1. Head(events) \in SUBSET Taints
      BY <1>1, <2>1 DEF HandleEvent, TypeOK
    <3>. QED
      BY <2>1, <3>1 DEF HandleEvent, Goroutines
  <2>2. CASE ImmediateScan
    BY <1>1, <2>2 DEF ImmediateScan, Goroutines, TypeOK
  <2>. QED
    BY <2>1, <2>2
<1>3. /\ attempt' \in [Goroutines -> AttemptType] /\ attempt'[g] = AttemptOn(node)
      /\ \A k \in Goroutines \ {g} : attempt'[k] = attempt[k]
  BY <1>1, <1>2, AttemptOnType DEF TypeOK
<1>4. /\ UNCHANGED <<taints, seen, registered, changes, faults>>
      /\ watching' \in {"starting", "synced", "scanned", "stopped"}
  BY <1>1 DEF HandleEvent, ImmediateScan, TypeOK
<1>5. events' \in Seq(SUBSET Taints) /\ Len(events') <= MaxQueue
  <2>1. CASE HandleEvent
    BY <1>1, <2>1, TaintAssumption DEF HandleEvent, TypeOK
  <2>2. CASE ImmediateScan
    BY <1>1, <2>2 DEF ImmediateScan, TypeOK
  <2>. QED
    BY <2>1, <2>2
<1>6. TypeOK'
  BY <1>1, <1>3, <1>4, <1>5 DEF TypeOK
<1>7. PatchAfterCheck' /\ CopyHasTaint'
  BY <1>1, <1>3, <1>4, AttemptOnType DEF PatchAfterCheck, CopyHasTaint
<1>. QED
  BY <1>6, <1>7 DEF TaintInv

(* The check moves on to the patch only with the driver registered. *)
LEMMA CheckKeeps ==
    ASSUME TaintInv, NEW g \in Goroutines, CheckDriverRegistered(g)
    PROVE  TaintInv'
<1>1. TypeOK /\ PatchAfterCheck /\ CopyHasTaint
  BY DEF TaintInv
<1>2. attempt[g].pc = "check" /\ UNCHANGED <<taints, seen, events, registered, watching, changes>>
  BY DEF CheckDriverRegistered
<1>3. faults' \in 0..MaxFaults
  BY <1>1, TaintAssumption DEF CheckDriverRegistered, Fault, TypeOK
<1>4. /\ attempt' \in [Goroutines -> AttemptType]
      /\ attempt'[g].pc = "patch" => registered
      /\ attempt'[g].pc # "idle" => NotReady \in attempt'[g].node
      /\ \A k \in Goroutines \ {g} : attempt'[k] = attempt[k]
  <2>1. CASE registered /\ attempt' = [attempt EXCEPT ![g].pc = "patch"]
    <3>1. attempt[g] \in AttemptType
      BY <1>1 DEF TypeOK
    <3>2. [attempt[g] EXCEPT !.pc = "patch"] \in AttemptType
      BY <3>1 DEF AttemptType
    <3>3. /\ attempt' \in [Goroutines -> AttemptType]
          /\ attempt'[g] = [attempt[g] EXCEPT !.pc = "patch"]
          /\ \A k \in Goroutines \ {g} : attempt'[k] = attempt[k]
      BY <1>1, <2>1, <3>2 DEF TypeOK
    <3>4. attempt'[g].node = attempt[g].node
      BY <3>1, <3>3 DEF AttemptType
    <3>. QED
      BY <1>1, <1>2, <2>1, <3>3, <3>4 DEF CopyHasTaint
  <2>2. CASE Retry(g)
    BY <1>1, <1>2, <2>2, RetryKeeps
  <2>. QED
    BY <2>1, <2>2 DEF CheckDriverRegistered
<1>5. TypeOK'
  BY <1>1, <1>2, <1>3, <1>4 DEF TypeOK
<1>6. PatchAfterCheck' /\ CopyHasTaint'
  BY <1>1, <1>2, <1>4 DEF PatchAfterCheck, CopyHasTaint
<1>. QED
  BY <1>5, <1>6 DEF TaintInv

(* The patch: done, refused for an old copy, or failed. *)
LEMMA PatchKeeps ==
    ASSUME TaintInv, NEW g \in Goroutines, RemoveNotReadyTaint(g)
    PROVE  TaintInv'
<1>1. TypeOK /\ PatchAfterCheck /\ CopyHasTaint
  BY DEF TaintInv
<1>2. attempt[g].pc = "patch" /\ UNCHANGED <<seen, events, registered, watching, changes>>
  BY DEF RemoveNotReadyTaint
<1>3. faults' \in 0..MaxFaults
  BY <1>1, TaintAssumption DEF RemoveNotReadyTaint, Fault, TypeOK
<1>4. taints' \subseteq Taints
  BY <1>1 DEF RemoveNotReadyTaint, TypeOK
<1>5. /\ attempt' \in [Goroutines -> AttemptType]
      /\ attempt'[g].pc # "patch"
      /\ attempt'[g].pc # "idle" => NotReady \in attempt'[g].node
      /\ \A k \in Goroutines \ {g} : attempt'[k] = attempt[k]
  <2>1. CASE attempt' = [attempt EXCEPT ![g] = AttemptIdle]
    BY <1>1, <2>1, AttemptOnType DEF TypeOK
  <2>2. CASE Retry(g)
    BY <1>1, <1>2, <2>2, RetryKeeps
  <2>. QED
    BY <2>1, <2>2 DEF RemoveNotReadyTaint
<1>6. TypeOK'
  BY <1>1, <1>2, <1>3, <1>4, <1>5 DEF TypeOK
<1>7. PatchAfterCheck' /\ CopyHasTaint'
  BY <1>1, <1>2, <1>5 DEF PatchAfterCheck, CopyHasTaint
<1>. QED
  BY <1>6, <1>7 DEF TaintInv

(* kubelet registers the driver, others change taints, the watcher stops. *)
LEMMA OthersKeep ==
    ASSUME TaintInv, Stop \/ DriverRegisters \/ OthersChange
    PROVE  TaintInv'
<1>1. TypeOK /\ PatchAfterCheck /\ CopyHasTaint
  BY DEF TaintInv
<1>2. UNCHANGED <<attempt, seen, faults>> /\ registered' \in BOOLEAN /\ (registered => registered')
  BY <1>1 DEF Stop, DriverRegisters, OthersChange, TypeOK
<1>3. events' \in Seq(SUBSET Taints) /\ Len(events') <= MaxQueue
  <2>1. CASE events' = <<>>
    BY <2>1, TaintAssumption
  <2>2. CASE events' = events
    BY <1>1, <2>2 DEF TypeOK
  <2>. QED
    BY <2>1, <2>2 DEF Stop, DriverRegisters, OthersChange
<1>4. changes' \in 0..MaxChanges
  BY <1>1, TaintAssumption DEF Stop, DriverRegisters, OthersChange, TypeOK
<1>5. taints' \subseteq Taints /\ watching' \in {"starting", "synced", "scanned", "stopped"}
  BY <1>1 DEF Stop, DriverRegisters, OthersChange, TypeOK
<1>6. TypeOK'
  BY <1>1, <1>2, <1>3, <1>4, <1>5 DEF TypeOK
<1>. QED
  BY <1>1, <1>2, <1>6 DEF TaintInv, PatchAfterCheck, CopyHasTaint

(* Every step keeps the invariant. *)
LEMMA TaintNext == TaintInv /\ [Next]_vars => TaintInv'
<1>. SUFFICES ASSUME TaintInv, [Next]_vars PROVE TaintInv'
  OBVIOUS
<1>1. CASE UNCHANGED vars
  BY <1>1 DEF vars, TaintInv, TypeOK, PatchAfterCheck, CopyHasTaint
<1>2. CASE Next
  BY <1>2, InformerKeeps, StartKeeps, CheckKeeps, PatchKeeps, OthersKeep DEF Next, GoroutineStep
<1>. QED
  BY <1>1, <1>2

(* The watcher's state is well formed, a patch is sent only after the driver     *)
(* was found registered, and every attempt works on a copy that has the taint.   *)
THEOREM TaintInvariant == Spec => []TaintInv
BY TaintInit, TaintNext, PTL DEF Spec

-----------------------------------------------------------------------------
(* Only a goroutine's patch and other agents change the taints. *)
LEMMA WhoChangesTaints ==
    ASSUME [Next]_vars, taints' # taints
    PROVE  \/ \E g \in Goroutines : RemoveNotReadyTaint(g) /\ taints' = taints \ {NotReady}
           \/ OthersChange
BY DEF Next, vars, Informer, InformerSyncs, InformerObserves, Resync, HandleEvent, ImmediateScan,
       Stop, GoroutineStep, CheckDriverRegistered, RemoveNotReadyTaint, DriverRegisters

(* The patch of removeNotReadyTaint carries the whole list, yet takes only its    *)
(* own taint away: the API server tests the copy first.                           *)
THEOREM OnlyOwnTaintRemoved == Spec => OnlyOwnTaint
<1>1. [Next]_vars => [attempt' # attempt /\ taints' # taints => taints' = taints \ {NotReady}]_vars
  <2>. SUFFICES ASSUME [Next]_vars, attempt' # attempt, taints' # taints
                PROVE  taints' = taints \ {NotReady}
    OBVIOUS
  <2>. QED
    BY WhoChangesTaints DEF OthersChange
<1>. QED
  BY <1>1, PTL DEF Spec, OnlyOwnTaint

(* The taint leaves the node only when the CSINode lists the driver: between the  *)
(* check and the patch of one goroutine the other and the other agents may act.   *)
THEOREM NodeOpensRegistered == Spec => OpensWhenRegistered
<1>1. TaintInv /\ [Next]_vars
        => [(NotReady \in taints) /\ NotReady \notin taints' => registered]_vars
  <2>. SUFFICES ASSUME TaintInv, [Next]_vars, NotReady \in taints, NotReady \notin taints'
                PROVE  registered
    OBVIOUS
  <2>1. ~OthersChange
    BY TaintAssumption DEF OthersChange
  <2>2. PICK g \in Goroutines : RemoveNotReadyTaint(g)
    BY <2>1, WhoChangesTaints
  <2>. QED
    BY <2>2 DEF RemoveNotReadyTaint, TaintInv, PatchAfterCheck
<1>. QED
  BY <1>1, TaintInvariant, PTL DEF Spec, OpensWhenRegistered
=============================================================================
