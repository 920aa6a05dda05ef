-------------------------- MODULE MPPodLockProofs ---------------------------
(***************************************************************************)
(* The lock of every Mountpoint Pod name is a mutex, for any number of     *)
(* goroutines and names.                                                   *)
(***************************************************************************)
EXTENDS MPPodLock, FiniteSetTheorems, TLAPS

(* No lock object serves two names. *)
OneName ==
    \A a, b \in Names : mpPodLocks[a] = mpPodLocks[b] /\ mpPodLocks[a] # Nil => a = b

(* The mutex of an object is locked by the one goroutine that holds it. *)
HeldByOne ==
    /\ \A t \in Threads : th[t].pc = "holding" => locked[th[t].lock]
    /\ \A t, u \in Threads :
        th[t].pc = "holding" /\ th[u].pc = "holding" /\ th[t].lock = th[u].lock => t = u

LockInv == TypeOK /\ RefCountExact /\ ReleasesItsOwnLock /\ OneName /\ HeldByOne

LEMMA UsersFinite == ASSUME NEW n PROVE IsFiniteSet(Users(n))
BY LockAssumption, FS_Subset DEF Users

(* A goroutine that asks for a name is one user more of that name only. *)
LEMMA UsersGet ==
    ASSUME TypeOK, NEW t \in Threads, NEW n \in Names, NEW l \in Locks, th[t].pc = "idle",
           th' = [th EXCEPT ![t] = [pc |-> "waiting", name |-> n, lock |-> l]]
    PROVE  /\ Users(n)' = Users(n) \cup {t} /\ t \notin Users(n)
           /\ \A m \in Names \ {n} : Users(m)' = Users(m)
BY DEF TypeOK, Users

(* A goroutine that is done is one user less. *)
LEMMA UsersRelease ==
    ASSUME TypeOK, NEW t \in Threads, NEW n \in Names, th[t].pc = "releasing",
           th[t].name = n, th' = [th EXCEPT ![t] = ThreadIdle]
    PROVE  /\ Users(n)' = Users(n) \ {t} /\ t \in Users(n)
           /\ \A m \in Names \ {n} : Users(m)' = Users(m)
BY DEF TypeOK, Users, ThreadIdle

(* Taking or releasing the mutex changes no user. *)
LEMMA UsersSame ==
    ASSUME TypeOK, NEW t \in Threads, NEW pc \in {"holding", "releasing"}, th[t].pc # "idle",
           th' = [th EXCEPT ![t] = [th[t] EXCEPT !.pc = pc]]
    PROVE  \A n \in Names : Users(n)' = Users(n)
BY DEF TypeOK, ThreadType, Users

(* At first nothing is locked. *)
LEMMA LockInit == Init => LockInv
<1>. SUFFICES ASSUME Init PROVE LockInv
  OBVIOUS
<1>1. TypeOK
  BY LockAssumption DEF Init, TypeOK, ThreadType, ThreadIdle
<1>2. \A n \in Names : Users(n) = {}
  BY DEF Init, Users, ThreadIdle
<1>3. RefCountExact
  BY <1>2 DEF Init, RefCountExact
<1>. QED
  BY <1>1, <1>3 DEF Init, LockInv, ReleasesItsOwnLock, OneName, HeldByOne, ThreadIdle

(* getMPPodLock: a new object that nobody else knows, or one user more. *)
LEMMA GetKeepsInv ==
    ASSUME LockInv, NEW t \in Threads, NEW n \in Names, GetMPPodLock(t, n)
    PROVE  LockInv'
<1>0. TypeOK /\ RefCountExact /\ ReleasesItsOwnLock /\ OneName /\ HeldByOne /\ Nil \notin Locks
  BY LockAssumption DEF LockInv
<1>1. PICK l \in Locks :
        /\ th' = [th EXCEPT ![t] = [pc |-> "waiting", name |-> n, lock |-> l]]
        /\ \/ /\ mpPodLocks[n] = Nil
              /\ l \in Unreferenced
              /\ refCount' = [refCount EXCEPT ![l] = 1]
              /\ locked' = [locked EXCEPT ![l] = FALSE]
              /\ mpPodLocks' = [mpPodLocks EXCEPT ![n] = l]
           \/ /\ mpPodLocks[n] = l
              /\ refCount' = [refCount EXCEPT ![l] = refCount[l] + 1]
              /\ UNCHANGED <<locked, mpPodLocks>>
  BY DEF GetMPPodLock
<1>2. th[t].pc = "idle"
  BY DEF GetMPPodLock
<1>3. /\ Users(n)' = Users(n) \cup {t} /\ t \notin Users(n)
      /\ \A m \in Names \ {n} : Users(m)' = Users(m)
  BY <1>0, <1>1, <1>2, UsersGet
<1>4. /\ Cardinality(Users(n)') = Cardinality(Users(n)) + 1
      /\ Cardinality(Users(n)) \in Nat
  BY <1>3, UsersFinite, FS_AddElement, FS_CardinalityType
<1>5. TypeOK'
  <2>1. [pc |-> "waiting", name |-> n, lock |-> l] \in ThreadType
    BY DEF ThreadType
  <2>2. th' \in [Threads -> ThreadType]
    BY <1>0, <1>1, <2>1 DEF TypeOK
  <2>3. /\ mpPodLocks' \in [Names -> Locks \cup {Nil}] /\ refCount' \in [Locks -> Int]
        /\ locked' \in [Locks -> BOOLEAN]
    <3>1. refCount[l] + 1 \in Int /\ 1 \in Int
      BY <1>0 DEF TypeOK
    <3>2. refCount' \in [Locks -> Int]
      <4>1. refCount \in [Locks -> Int]
        BY <1>0 DEF TypeOK
      <4>2. refCount' = [refCount EXCEPT ![l] = 1] \/ refCount' = [refCount EXCEPT ![l] = refCount[l] + 1]
        BY <1>1
      <4>. QED
        BY <3>1, <4>1, <4>2
    <3>3. mpPodLocks' \in [Names -> Locks \cup {Nil}] /\ locked' \in [Locks -> BOOLEAN]
      BY <1>0, <1>1 DEF TypeOK
    <3>. QED
      BY <3>2, <3>3
  <2>4. \A u \in Threads : th'[u].pc # "idle" => th'[u].name \in Names /\ th'[u].lock \in Locks
    BY <1>0, <1>1 DEF TypeOK
  <2>. QED
    BY <2>2, <2>3, <2>4 DEF TypeOK
<1>6. /\ th'[t] = [pc |-> "waiting", name |-> n, lock |-> l]
      /\ \A u \in Threads \ {t} : th'[u] = th[u]
      /\ mpPodLocks'[n] = l
      /\ \A m \in Names \ {n} : mpPodLocks'[m] = mpPodLocks[m] /\ mpPodLocks[m] # l
  BY <1>0, <1>1 DEF TypeOK, OneName, Unreferenced
<1>7. RefCountExact'
  <2>1. refCount'[l] = Cardinality(Users(n)')
    <3>1. CASE mpPodLocks[n] = Nil
      <4>1. refCount'[l] = 1
        BY <1>0, <1>1, <3>1 DEF TypeOK
      <4>2. Cardinality(Users(n)) = 0
        BY <1>0, <3>1, FS_EmptySet DEF RefCountExact
      <4>. QED
        BY <1>4, <4>1, <4>2
    <3>2. CASE mpPodLocks[n] = l
      <4>1. refCount'[l] = refCount[l] + 1
        BY <1>0, <1>1, <3>2 DEF TypeOK
      <4>2. Cardinality(Users(n)) = refCount[l]
        BY <1>0, <3>2 DEF RefCountExact
      <4>. QED
        BY <1>4, <4>1, <4>2
    <3>. QED
      BY <1>1, <3>1, <3>2
  <2>2. \A k \in Locks \ {l} : refCount'[k] = refCount[k]
    BY <1>0, <1>1 DEF TypeOK
  <2>3. ASSUME NEW m \in Names \ {n}
        PROVE  IF mpPodLocks'[m] = Nil THEN Users(m)' = {}
               ELSE refCount'[mpPodLocks'[m]] = Cardinality(Users(m)') /\ Users(m)' # {}
    BY <1>0, <1>3, <1>6, <2>2 DEF RefCountExact, TypeOK
  <2>4. IF mpPodLocks'[n] = Nil THEN Users(n)' = {}
        ELSE refCount'[mpPodLocks'[n]] = Cardinality(Users(n)') /\ Users(n)' # {}
    BY <1>0, <1>3, <1>6, <2>1
  <2>. QED
    BY <2>3, <2>4 DEF RefCountExact
<1>8. ReleasesItsOwnLock'
  <2>. SUFFICES ASSUME NEW u \in Threads, th'[u].pc # "idle"
                PROVE  mpPodLocks'[th'[u].name] = th'[u].lock
    BY DEF ReleasesItsOwnLock
  <2>1. CASE u = t
    BY <1>6, <2>1
  <2>2. CASE u # t
    <3>1. mpPodLocks[th[u].name] = th[u].lock /\ th[u].name \in Names /\ th[u].lock \in Locks
      BY <1>0, <1>6, <2>2 DEF ReleasesItsOwnLock, TypeOK
    <3>2. CASE th[u].name = n
      <4>1. mpPodLocks[n] = l
        BY <1>0, <1>1, <3>1, <3>2
      <4>. QED
        BY <1>6, <2>2, <3>1, <3>2, <4>1
    <3>. QED
      BY <1>6, <2>2, <3>1, <3>2
  <2>. QED
    BY <2>1, <2>2
<1>9. OneName'
  BY <1>0, <1>6 DEF OneName
<1>10. HeldByOne'
  <2>1. \A u \in Threads : th'[u].pc = "holding" => u # t /\ th[u].pc = "holding"
    BY <1>6
  <2>2. ASSUME NEW u \in Threads, th'[u].pc = "holding" PROVE locked'[th'[u].lock]
    <3>1. th'[u] = th[u] /\ th[u].pc = "holding" /\ th[u].lock \in Locks
      BY <1>0, <1>6, <2>1, <2>2 DEF TypeOK
    <3>2. CASE mpPodLocks[n] = Nil
      <4>1. th[u].lock # l
        BY <1>0, <1>1, <3>2 DEF Unreferenced
      <4>. QED
        BY <1>0, <1>1, <3>1, <3>2, <4>1 DEF HeldByOne, TypeOK
    <3>3. CASE mpPodLocks[n] = l
      BY <1>0, <1>1, <3>1, <3>3 DEF HeldByOne
    <3>. QED
      BY <1>1, <3>2, <3>3
  <2>. QED
    BY <1>0, <1>6, <2>1, <2>2 DEF HeldByOne
<1>. QED
  BY <1>5, <1>7, <1>8, <1>9, <1>10 DEF LockInv

(* mutex.Lock and mutex.Unlock: the object has no holder, or the one that leaves. *)
LEMMA MutexKeepsInv ==
    ASSUME LockInv, NEW t \in Threads, MutexLock(t) \/ MutexUnlock(t)
    PROVE  LockInv'
<1>0. TypeOK /\ RefCountExact /\ ReleasesItsOwnLock /\ OneName /\ HeldByOne
  BY DEF LockInv
<1>1. PICK pc \in {"holding", "releasing"} :
        /\ th' = [th EXCEPT ![t] = [th[t] EXCEPT !.pc = pc]]
        /\ locked' = [locked EXCEPT ![th[t].lock] = (pc = "holding")]
        /\ th[t].pc # "idle" /\ UNCHANGED <<mpPodLocks, refCount>>
        /\ pc = "holding" => ~locked[th[t].lock]
        /\ pc = "releasing" => th[t].pc = "holding"
  BY DEF MutexLock, MutexUnlock
<1>2. /\ th[t] \in ThreadType /\ th[t].lock \in Locks /\ th[t].name \in Names
      /\ [th[t] EXCEPT !.pc = pc] \in ThreadType
  BY <1>0, <1>1 DEF TypeOK, ThreadType
<1>3. /\ th'[t].pc = pc /\ th'[t].name = th[t].name /\ th'[t].lock = th[t].lock
      /\ \A u \in Threads \ {t} : th'[u] = th[u]
  BY <1>0, <1>1, <1>2 DEF TypeOK, ThreadType
<1>4. TypeOK'
  <2>1. th' \in [Threads -> ThreadType] /\ locked' \in [Locks -> BOOLEAN]
    BY <1>0, <1>1, <1>2 DEF TypeOK
  <2>. QED
    BY <1>0, <1>1, <1>2, <1>3, <2>1 DEF TypeOK
<1>5. RefCountExact'
  BY <1>0, <1>1, UsersSame DEF RefCountExact
<1>6. ReleasesItsOwnLock'
  BY <1>0, <1>1, <1>3 DEF ReleasesItsOwnLock
<1>7. OneName'
  BY <1>0, <1>1 DEF OneName
<1>8. ASSUME NEW u \in Threads \ {t}, th[u].pc = "holding"
      PROVE  th[u].lock \in Locks /\ th[u].lock # th[t].lock
  BY <1>0, <1>1, <1>8 DEF TypeOK, HeldByOne
<1>9. HeldByOne'
  <2>1. \A u \in Threads : th'[u].pc = "holding" => locked'[th'[u].lock]
    BY <1>0, <1>1, <1>2, <1>3, <1>8 DEF HeldByOne, TypeOK
  <2>2. \A u, v \in Threads :
          th'[u].pc = "holding" /\ th'[v].pc = "holding" /\ th'[u].lock = th'[v].lock => u = v
    BY <1>0, <1>3, <1>8 DEF HeldByOne
  <2>. QED
    BY <2>1, <2>2 DEF HeldByOne
<1>. QED
  BY <1>4, <1>5, <1>6, <1>7, <1>9 DEF LockInv

(* releaseMPPodLock: one user less, and the object leaves the map with the last. *)
LEMMA ReleaseKeepsInv ==
    ASSUME LockInv, NEW t \in Threads, ReleaseMPPodLock(t)
    PROVE  LockInv'
<1>0. /\ TypeOK /\ RefCountExact /\ ReleasesItsOwnLock /\ OneName /\ HeldByOne
      /\ Nil \notin Locks
  BY LockAssumption DEF LockInv
<1>1. PICK n \in Names, l \in Locks :
        th[t].name = n /\ th[t].lock = l /\ mpPodLocks[n] = l /\ th[t].pc = "releasing"
  BY <1>0 DEF ReleaseMPPodLock, TypeOK, ReleasesItsOwnLock
<1>2. /\ th' = [th EXCEPT ![t] = ThreadIdle]
      /\ refCount' = [refCount EXCEPT ![l] = refCount[l] - 1]
      /\ mpPodLocks' = [mpPodLocks EXCEPT ![n] = IF refCount[l] - 1 <= 0 THEN Nil ELSE l]
      /\ UNCHANGED locked
  BY <1>0, <1>1 DEF ReleaseMPPodLock
<1>3. /\ Users(n)' = Users(n) \ {t} /\ t \in Users(n)
      /\ \A m \in Names \ {n} : Users(m)' = Users(m)
  BY <1>0, <1>1, <1>2, UsersRelease
<1>4. /\ Cardinality(Users(n)') = refCount[l] - 1
      /\ IsFiniteSet(Users(n)') /\ Cardinality(Users(n)') \in Nat
  <2>1. refCount[l] = Cardinality(Users(n))
    BY <1>0, <1>1 DEF RefCountExact
  <2>2. /\ IsFiniteSet(Users(n) \ {t})
        /\ Cardinality(Users(n) \ {t}) = Cardinality(Users(n)) - 1
    BY <1>3, UsersFinite, FS_RemoveElement
  <2>. QED
    BY <1>3, <2>1, <2>2, FS_CardinalityType
<1>5. Users(n)' = {} <=> refCount[l] - 1 <= 0
  <2>1. Users(n)' = {} <=> Cardinality(Users(n)') = 0
    BY <1>4, FS_EmptySet
  <2>2. refCount[l] \in Int
    BY <1>0 DEF TypeOK
  <2>3. Cardinality(Users(n)') = 0 <=> refCount[l] - 1 <= 0
    BY <1>4, <2>2
  <2>. QED
    BY <2>1, <2>3
<1>6. /\ th'[t] = ThreadIdle /\ \A u \in Threads \ {t} : th'[u] = th[u]
      /\ refCount'[l] = refCount[l] - 1
      /\ \A k \in Locks \ {l} : refCount'[k] = refCount[k]
      /\ mpPodLocks'[n] = IF refCount[l] - 1 <= 0 THEN Nil ELSE l
      /\ \A m \in Names \ {n} : mpPodLocks'[m] = mpPodLocks[m] /\ mpPodLocks[m] # l
  BY <1>0, <1>1, <1>2 DEF TypeOK, OneName
<1>7. TypeOK'
  <2>1. ThreadIdle \in ThreadType /\ ThreadIdle.pc = "idle"
    BY DEF ThreadIdle, ThreadType
  <2>2. th' \in [Threads -> ThreadType]
    BY <1>0, <1>2, <2>1 DEF TypeOK
  <2>3. /\ mpPodLocks' \in [Names -> Locks \cup {Nil}] /\ refCount' \in [Locks -> Int]
        /\ locked' \in [Locks -> BOOLEAN]
    BY <1>0, <1>2 DEF TypeOK
  <2>4. \A u \in Threads : th'[u].pc # "idle" => th'[u].name \in Names /\ th'[u].lock \in Locks
    BY <1>0, <1>6, <2>1 DEF TypeOK
  <2>. QED
    BY <2>2, <2>3, <2>4 DEF TypeOK
<1>8. RefCountExact'
  <2>1. ASSUME NEW m \in Names \ {n}
        PROVE  IF mpPodLocks'[m] = Nil THEN Users(m)' = {}
               ELSE refCount'[mpPodLocks'[m]] = Cardinality(Users(m)') /\ Users(m)' # {}
    BY <1>0, <1>3, <1>6 DEF RefCountExact, TypeOK
  <2>2. IF mpPodLocks'[n] = Nil THEN Users(n)' = {}
        ELSE refCount'[mpPodLocks'[n]] = Cardinality(Users(n)') /\ Users(n)' # {}
    BY <1>0, <1>4, <1>5, <1>6
  <2>. QED
    BY <2>1, <2>2 DEF RefCountExact
<1>9. ReleasesItsOwnLock'
  <2>. SUFFICES ASSUME NEW u \in Threads, th'[u].pc # "idle"
                PROVE  mpPodLocks'[th'[u].name] = th'[u].lock
    BY DEF ReleasesItsOwnLock
  <2>1. u # t /\ th'[u] = th[u]
    BY <1>6 DEF ThreadIdle
  <2>2. mpPodLocks[th[u].name] = th[u].lock /\ th[u].name \in Names
    BY <1>0, <2>1 DEF ReleasesItsOwnLock, TypeOK
  <2>3. CASE th[u].name = n
    <3>1. u \in Users(n)'
      BY <1>3, <2>1, <2>3 DEF Users
    <3>. QED
      BY <1>1, <1>5, <1>6, <2>1, <2>2, <2>3, <3>1
  <2>. QED
    BY <1>6, <2>1, <2>2, <2>3
<1>10. OneName'
  BY <1>0, <1>6 DEF OneName
<1>11. HeldByOne'
  <2>1. \A u \in Threads : th'[u].pc = "holding" => u # t
    BY <1>6 DEF ThreadIdle
  <2>. QED
    BY <1>0, <1>2, <1>6, <2>1 DEF HeldByOne
<1>. QED
  BY <1>7, <1>8, <1>9, <1>10, <1>11 DEF LockInv

(* The invariant holds of every state ... *)
LEMMA LockNext == LockInv /\ [Next]_vars => LockInv'
<1>. SUFFICES ASSUME LockInv, [Next]_vars PROVE LockInv'
  OBVIOUS
<1>1. CASE UNCHANGED vars
  <2>1. TypeOK' /\ ReleasesItsOwnLock' /\ OneName' /\ HeldByOne'
    BY <1>1 DEF vars, LockInv, TypeOK, ReleasesItsOwnLock, OneName, HeldByOne
  <2>2. RefCountExact'
    BY <1>1 DEF vars, LockInv, RefCountExact, Users
  <2>. QED
    BY <2>1, <2>2 DEF LockInv
<1>. QED
  BY <1>1, GetKeepsInv, MutexKeepsInv, ReleaseKeepsInv DEF Next

(* ... in particular its parts that the callers and the map's size depend on:  *)
(* no lock object is dropped under a goroutine or kept for ever.               *)
THEOREM RefCountCorrect == Spec => [](TypeOK /\ RefCountExact /\ ReleasesItsOwnLock)
<1>1. LockInv => TypeOK /\ RefCountExact /\ ReleasesItsOwnLock
  BY DEF LockInv
<1>. QED
  BY <1>1, LockInit, LockNext, PTL DEF Spec

(* releaseMPPodLock never takes its branch "Should never happen", and releases *)
(* no other goroutine's object, for any number of goroutines and names.        *)
THEOREM OwnLockReleased == Spec => []ReleasesItsOwnLock
BY RefCountCorrect, PTL

(* The calls as PodMutex sees them. *)
LEMMA CallsInit == Init => Mutex!Init
BY DEF Init, Mutex!Init, Mutex!Idle, Call, ThreadIdle

(* Every step is a step of the mutex, or none. *)
LEMMA CallsNext ==
    LockInv /\ [Next]_vars => [Mutex!Next]_([t \in Threads |-> Call(t)])
<1>. SUFFICES ASSUME LockInv, [Next]_vars
              PROVE  [Mutex!Next]_([t \in Threads |-> Call(t)])
  OBVIOUS
<1>. DEFINE calls == [t \in Threads |-> Call(t)]
<1>a. TypeOK
  BY DEF LockInv
<1>1. ASSUME NEW t \in Threads, NEW n \in Names, GetMPPodLock(t, n)
      PROVE  Mutex!Request(t, n)
  <2>1. PICK l \in Locks :
          th' = [th EXCEPT ![t] = [pc |-> "waiting", name |-> n, lock |-> l]]
    BY <1>1 DEF GetMPPodLock
  <2>2. calls' = [calls EXCEPT ![t] = [pc |-> "waiting", name |-> n]]
    BY <1>a, <2>1 DEF TypeOK, Call
  <2>3. calls[t] = Mutex!Idle
    BY <1>1 DEF GetMPPodLock, Call, Mutex!Idle
  <2>. QED
    BY <2>2, <2>3 DEF Mutex!Request
<1>2. ASSUME NEW t \in Threads, MutexLock(t) PROVE Mutex!Acquire(t)
  <2>1. /\ th[t].pc = "waiting" /\ ~locked[th[t].lock]
        /\ th' = [th EXCEPT ![t] = [th[t] EXCEPT !.pc = "holding"]]
        /\ th[t] \in ThreadType
    BY <1>2, <1>a DEF MutexLock, TypeOK
  <2>2. calls' = [calls EXCEPT ![t] = [pc |-> "holding", name |-> th[t].name]]
    BY <1>a, <2>1 DEF TypeOK, ThreadType, Call
  <2>3. calls[t].pc = "waiting" /\ calls[t].name = th[t].name
    BY <2>1 DEF Call
  <2>4. ASSUME NEW u \in Threads PROVE calls[u] # [pc |-> "holding", name |-> th[t].name]
    <3>. SUFFICES ASSUME th[u].pc = "holding", th[u].name = th[t].name PROVE FALSE
      BY DEF Call
    <3>1. th[u].lock = th[t].lock
      BY <2>1 DEF LockInv, ReleasesItsOwnLock
    <3>. QED
      BY <2>1, <3>1 DEF LockInv, HeldByOne
  <2>. HIDE DEF calls
  <2>. QED
    BY <2>2, <2>3, <2>4 DEF Mutex!Acquire, calls
<1>3. ASSUME NEW t \in Threads, MutexUnlock(t) PROVE Mutex!Release(t)
  <2>1. /\ th[t].pc = "holding" /\ th[t] \in ThreadType
        /\ th' = [th EXCEPT ![t] = [th[t] EXCEPT !.pc = "releasing"]]
    BY <1>3, <1>a DEF MutexUnlock, TypeOK
  <2>2. calls' = [calls EXCEPT ![t] = Mutex!Idle]
    BY <1>a, <2>1 DEF TypeOK, ThreadType, Call, Mutex!Idle
  <2>3. calls[t].pc = "holding"
    BY <2>1 DEF Call
  <2>. QED
    BY <2>2, <2>3 DEF Mutex!Release
<1>4. ASSUME NEW t \in Threads, ReleaseMPPodLock(t) PROVE UNCHANGED calls
  BY <1>4, <1>a DEF ReleaseMPPodLock, TypeOK, Call, ThreadIdle
<1>5. CASE UNCHANGED vars
  BY <1>5 DEF vars, Call
<1>. QED
  BY <1>1, <1>2, <1>3, <1>4, <1>5 DEF Next, Mutex!Next

(* lockMountpointPod is a mutex per Mountpoint Pod name: the map of counted    *)
(* lock objects implements PodMutex.                                           *)
THEOREM LockRefinement == Spec => ImplementsPodMutex
BY LockInit, LockNext, CallsInit, CallsNext, PTL DEF Spec, ImplementsPodMutex, Mutex!Spec
=============================================================================
