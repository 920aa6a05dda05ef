------------------------------ MODULE PodMutex ------------------------------
(***************************************************************************)
(* What lockMountpointPod promises its callers: a mutex for every          *)
(* Mountpoint Pod name.  A caller asks for one, holds it alone, releases.  *)
(***************************************************************************)
CONSTANTS Threads, Names, Nil

VARIABLE call   \* the call each thread makes: state, and name of the Pod

Idle == [pc |-> "idle", name |-> Nil]

Init == call = [t \in Threads |-> Idle]

Request(t, n) ==
    /\ call[t] = Idle
    /\ call' = [call EXCEPT ![t] = [pc |-> "waiting", name |-> n]]

Acquire(t) ==
    /\ call[t].pc = "waiting"
    /\ \A u \in Threads : call[u] # [pc |-> "holding", name |-> call[t].name]
    /\ call' = [call EXCEPT ![t] = [pc |-> "holding", name |-> call[t].name]]

Release(t) ==
    /\ call[t].pc = "holding"
    /\ call' = [call EXCEPT ![t] = Idle]

Next ==
    \E t \in Threads :
        \/ \E n \in Names : Request(t, n)
        \/ Acquire(t)
        \/ Release(t)

Spec == Init /\ [][Next]_call
=============================================================================
