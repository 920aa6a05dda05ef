----------------------------- MODULE PodWatcher -----------------------------
(***************************************************************************)
(* Watcher.Wait: a call waits until the informer shows its Mountpoint Pod  *)
(* Running.  Between three readers of the same fact (the event handler it  *)
(* registers, the lister and the channel it selects on) no event may be    *)
(* lost.                                                                   *)
(*                                                                         *)
(* The informer lists Pods with the node's name only: a Pod that is not    *)
(* scheduled is not there for it.                                          *)
(***************************************************************************)
EXTENDS Integers, Sequences

CONSTANT Calls    \* calls in flight

VARIABLES
    phase,        \* the Mountpoint Pod in the API server
    seen,         \* ... and in the informer's cache
    wait          \* the Wait of each call: its handler's queue, and podChan

watcherVars == <<phase, seen, wait>>

(* A Pod that is annotated with needs-unmount still runs. *)
Phases == {"unscheduled", "pending", "running", "annotated", "ended"}

IsPodReady(ph) == ph \in {"running", "annotated"}

(* What the field selector lets through *)
Visible(ph) == IF ph = "unscheduled" THEN "absent" ELSE ph

NoWait == [pc |-> "off", queue |-> <<>>, podChan |-> <<>>]

Waits ==
    [pc : {"off", "get", "select", "ready"}, queue : Seq(Phases),
     podChan : {<<>>} \cup {<<ph>> : ph \in Phases}]

WatcherTypeOK ==
    /\ phase \in Phases
    /\ seen \in {Visible(ph) : ph \in Phases}
    /\ wait \in [Calls -> Waits]

WatcherInit(ph) ==
    /\ phase = ph
    /\ seen = Visible(ph)
    /\ wait = [c \in Calls |-> NoWait]

-----------------------------------------------------------------------------
(* The Pod is scheduled, starts, is annotated and ends. *)
PodBecomes(ph) ==
    /\ \/ phase = "unscheduled" /\ ph = "pending"
       \/ phase = "pending" /\ ph \in {"running", "ended"}
       \/ phase = "running" /\ ph = "annotated"
       \/ phase = "annotated" /\ ph = "ended"
    /\ phase' = ph
    /\ UNCHANGED <<seen, wait>>

(* Mutant: the handler has no UpdateFunc. *)
DistributeAdds ==
    LET registered == {c \in Calls : wait[c].pc \in {"get", "select"} /\ seen = "absent"} IN
    /\ seen # Visible(phase)
    /\ seen' = Visible(phase)
    /\ wait' = [c \in Calls |-> IF c \in registered
                               THEN [wait[c] EXCEPT !.queue = Append(@, Visible(phase))]
                               ELSE wait[c]]
    /\ phase' = phase

(* The informer stores the Pod and distributes the event, under one lock.  It   *)
(* may miss changes in between.                                                 *)
Distribute ==
    LET registered == {c \in Calls : wait[c].pc \in {"get", "select"}} IN
    /\ seen # Visible(phase)
    /\ seen' = Visible(phase)
    /\ wait' = [c \in Calls |-> IF c \in registered
                               THEN [wait[c] EXCEPT !.queue = Append(@, Visible(phase))]
                               ELSE wait[c]]
    /\ phase' = phase

(* AddEventHandler: the handler is registered, and gets what is in the cache. *)
Register(c) ==
    /\ wait[c].pc = "off"
    /\ wait' = [wait EXCEPT ![c].pc = "get",
                            ![c].queue = IF seen = "absent" THEN <<>> ELSE <<seen>>]
    /\ UNCHANGED <<phase, seen>>

(* lister.Get *)
Get(c) ==
    /\ wait[c].pc = "get"
    /\ wait' = [wait EXCEPT ![c] = IF IsPodReady(seen) THEN [NoWait EXCEPT !.pc = "ready"]
                                   ELSE [@ EXCEPT !.pc = "select"]]
    /\ UNCHANGED <<phase, seen>>

(* The handler's goroutine: it blocks on a ready Pod while podChan is full. *)
HandleEvent(c) ==
    /\ wait[c].pc \in {"get", "select"} /\ wait[c].queue # <<>>
    /\ LET event == Head(wait[c].queue) IN
       /\ IsPodReady(event) => wait[c].podChan = <<>>
       /\ wait' = [wait EXCEPT ![c].queue = Tail(@),
                               ![c].podChan = IF IsPodReady(event) THEN <<event>> ELSE @]
    /\ UNCHANGED <<phase, seen>>

(* The two cases of the select; the second is an error of the call. *)
ReceivePod(c) ==
    /\ wait[c].pc = "select" /\ wait[c].podChan # <<>>
    /\ wait' = [wait EXCEPT ![c] = [NoWait EXCEPT !.pc = "ready"]]
    /\ UNCHANGED <<phase, seen>>

WaitTimesOut(c) ==
    /\ wait[c].pc = "select"
    /\ wait' = [wait EXCEPT ![c] = NoWait]
    /\ UNCHANGED <<phase, seen>>

WatcherStep(c) == Get(c) \/ HandleEvent(c) \/ ReceivePod(c)

-----------------------------------------------------------------------------
(* A call that waits for a Pod the informer has seen Running will hear of it:   *)
(* the ready Pod is in its channel or among its handler's events, whichever way *)
(* registration, lookup and the informer's events interleave.                   *)
NoLostWakeup ==
    \A c \in Calls :
        wait[c].pc = "select" /\ IsPodReady(seen) =>
            \/ wait[c].podChan # <<>>
            \/ \E i \in DOMAIN wait[c].queue : IsPodReady(wait[c].queue[i])
=============================================================================
