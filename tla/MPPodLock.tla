------------------------------ MODULE MPPodLock -----------------------------
(***************************************************************************)
(* The reference-counted lock per Mountpoint Pod that the node's Mount,    *)
(* the Pod unmounter and its event handlers share                          *)
(* (pkg/driver/node/mounter/mppod_lock.go).                                *)
(*                                                                         *)
(* mpPodLocks maps a Pod name to a lock object that is created by the      *)
(* first caller and removed from the map by the last one.  Each function   *)
(* on the map is one step: it runs under mpPodLocksMutex and never blocks. *)
(* The mutex of the object itself is taken and released outside of it.     *)
(***************************************************************************)
EXTENDS Integers, FiniteSets

CONSTANTS
    Threads,  \* goroutines that mount or unmount
    Names,    \* names of Mountpoint Pods
    Locks,    \* pool of lock objects (addresses)
    Nil

ASSUME LockAssumption ==
    IsFiniteSet(Threads) /\ Nil \notin Locks /\ Nil \notin Names

VARIABLES
    mpPodLocks,  \* the map from name to lock object
    refCount,    \* field of each lock object
    locked,      \* state of the mutex of each lock object
    th           \* what each goroutine does: name and lock are its locals

vars == <<mpPodLocks, refCount, locked, th>>

ThreadType == [pc : {"idle", "waiting", "holding", "releasing"},
               name : Names \cup {Nil}, lock : Locks \cup {Nil}]

ThreadIdle == [pc |-> "idle", name |-> Nil, lock |-> Nil]

TypeOK ==
    /\ mpPodLocks \in [Names -> Locks \cup {Nil}]
    /\ refCount \in [Locks -> Int]
    /\ locked \in [Locks -> BOOLEAN]
    /\ th \in [Threads -> ThreadType]
    /\ \A t \in Threads : th[t].pc # "idle" => th[t].name \in Names /\ th[t].lock \in Locks

Init ==
    /\ mpPodLocks = [n \in Names |-> Nil]
    /\ refCount = [l \in Locks |-> 0]
    /\ locked = [l \in Locks |-> FALSE]
    /\ th = [t \in Threads |-> ThreadIdle]

-----------------------------------------------------------------------------
(* Addresses nobody refers to: what an allocation may return *)
Unreferenced ==
    {l \in Locks : /\ \A n \in Names : mpPodLocks[n] # l
                   /\ \A t \in Threads : th[t].lock # l}

(* Mutant: a second user is not counted. *)
GetMPPodLockUncounted(t, n) ==
    /\ th[t].pc = "idle"
    /\ \E l \in Locks :
        /\ th' = [th EXCEPT ![t] = [pc |-> "waiting", name |-> n, lock |-> l]]
        /\ \/ /\ mpPodLocks[n] = Nil
              /\ l \in Unreferenced
              /\ refCount' = [refCount EXCEPT ![l] = 1]
              /\ locked' = [locked EXCEPT ![l] = FALSE]
              /\ mpPodLocks' = [mpPodLocks EXCEPT ![n] = l]
           \/ mpPodLocks[n] = l /\ UNCHANGED <<refCount, locked, mpPodLocks>>

(* getMPPodLock, called by lockMountpointPod *)
GetMPPodLock(t, n) ==
    /\ th[t].pc = "idle"
    /\ \E l \in Locks :
        /\ th' = [th EXCEPT ![t] = [pc |-> "waiting", name |-> n, lock |-> l]]
        /\ \/ /\ mpPodLocks[n] = Nil
              /\ l \in Unreferenced
              /\ refCount' = [refCount EXCEPT ![l] = 1]
              /\ locked' = [locked EXCEPT ![l] = FALSE]
              /\ mpPodLocks' = [mpPodLocks EXCEPT ![n] = l]
           \/ /\ mpPodLocks[n] = l
              /\ refCount' = [refCount EXCEPT ![l] = refCount[l] + 1]
              /\ UNCHANGED <<locked, mpPodLocks>>

(* mpPodLock.mutex.Lock() of lockMountpointPod *)
MutexLock(t) ==
    /\ th[t].pc = "waiting"
    /\ ~locked[th[t].lock]
    /\ locked' = [locked EXCEPT ![th[t].lock] = TRUE]
    /\ th' = [th EXCEPT ![t] = [th[t] EXCEPT !.pc = "holding"]]
    /\ UNCHANGED <<mpPodLocks, refCount>>

(* mpPodLock.mutex.Unlock() of the returned function *)
MutexUnlock(t) ==
    /\ th[t].pc = "holding"
    /\ locked' = [locked EXCEPT ![th[t].lock] = FALSE]
    /\ th' = [th EXCEPT ![t] = [th[t] EXCEPT !.pc = "releasing"]]
    /\ UNCHANGED <<mpPodLocks, refCount>>

(* Mutant: the lock object leaves the map with the first user. *)
ReleaseAtOnce(t) ==
    /\ th[t].pc = "releasing"
    /\ th' = [th EXCEPT ![t] = ThreadIdle]
    /\ mpPodLocks' = [mpPodLocks EXCEPT ![th[t].name] = Nil]
    /\ UNCHANGED <<refCount, locked>>

(* Mutant: the lock object never leaves the map. *)
ReleaseKeepsLock(t) ==
    /\ th[t].pc = "releasing"
    /\ th' = [th EXCEPT ![t] = ThreadIdle]
    /\ LET l == mpPodLocks[th[t].name]
       IN  refCount' = IF l = Nil THEN refCount
                       ELSE [refCount EXCEPT ![l] = refCount[l] - 1]
    /\ UNCHANGED <<locked, mpPodLocks>>

(* releaseMPPodLock: it looks the lock up again, by name *)
ReleaseMPPodLock(t) ==
    /\ th[t].pc = "releasing"
    /\ th' = [th EXCEPT ![t] = ThreadIdle]
    /\ LET n == th[t].name
           l == mpPodLocks[n]
       IN  /\ refCount' = IF l = Nil THEN refCount
                          ELSE [refCount EXCEPT ![l] = refCount[l] - 1]
           /\ mpPodLocks' = [mpPodLocks EXCEPT ![n] =
                                IF l = Nil \/ refCount[l] - 1 <= 0 THEN Nil ELSE l]
    /\ UNCHANGED locked

Next ==
    \E t \in Threads :
        \/ \E n \in Names : GetMPPodLock(t, n)
        \/ MutexLock(t)
        \/ MutexUnlock(t)
        \/ ReleaseMPPodLock(t)

Spec == Init /\ [][Next]_vars

-----------------------------------------------------------------------------
Users(n) == {t \in Threads : th[t].pc # "idle" /\ th[t].name = n}

(* The lock object of a name counts exactly the goroutines between             *)
(* getMPPodLock and releaseMPPodLock, and leaves the map with the last one:    *)
(* it is neither dropped under a goroutine nor kept for ever.                  *)
RefCountExact ==
    \A n \in Names :
        IF mpPodLocks[n] = Nil THEN Users(n) = {}
                               ELSE /\ refCount[mpPodLocks[n]] = Cardinality(Users(n))
                                    /\ Users(n) # {}

(* releaseMPPodLock finds the object its goroutine locked: the branch "Should  *)
(* never happen" is not taken, and no other goroutine's object is released.    *)
ReleasesItsOwnLock ==
    \A t \in Threads :
        th[t].pc # "idle" => mpPodLocks[th[t].name] = th[t].lock

(* Two lock objects for one name would let two goroutines in: the map, the     *)
(* counts and the objects together are a mutex per name (PodMutex).            *)
Call(t) ==
    IF th[t].pc \in {"idle", "releasing"} THEN [pc |-> "idle", name |-> Nil]
                                          ELSE [pc |-> th[t].pc, name |-> th[t].name]

Mutex == INSTANCE PodMutex WITH call <- [t \in Threads |-> Call(t)]

(* Callers of lockMountpointPod see a mutex per Mountpoint Pod name. *)
ImplementsPodMutex == Mutex!Spec
=============================================================================
