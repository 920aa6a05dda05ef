--------------------------- MODULE DaemonsetProofs --------------------------
(***************************************************************************)
(* Proofs about DaemonsetMounter, for every number of requests and mount   *)
(* ids: no Mountpoint process is lost to its manager, no descriptor leaks, *)
(* and the mounter never ends before its processes and waiters.            *)
(***************************************************************************)
EXTENDS DaemonsetMounter, TLAPS

(* A waiter that has not deleted its entry owns the entry of its mount id. *)
WaitersOwnEntries ==
    \A r \in wg \ deleted : mountId[r] \in MountIds /\ processes[mountId[r]] = r

(* A process that runs has such a waiter. *)
RunningHasWaiter == \A r \in Requests : Running(r) => r \in wg \ deleted

(* Waiters belong to requests that were made, and delete before they report. *)
WaitersValid == deleted \subseteq wg /\ \A r \in wg : mountId[r] \in MountIds

(* A request is handled once: it waits, or is handled, or has a waiter. *)
HandledOnce ==
    /\ conn \notin backlog /\ conn \notin wg
    /\ \A r \in backlog : mountId[r] # Nil /\ r \notin wg
    /\ conn # Nil => mountId[conn] # Nil

(* main returns after the last waiter and accepts nothing then. *)
ExitedIdle == main = "exited" => wg = {}

(* The inductive invariant *)
MounterInv ==
    /\ TypeOK
    /\ WaitersOwnEntries /\ RunningHasWaiter /\ WaitersValid
    /\ HandledOnce /\ ExitedIdle
    /\ NoDescriptorLeak

THEOREM InitEstablishes == Init => MounterInv
<1> SUFFICES ASSUME Init PROVE MounterInv
  OBVIOUS
<1>1. TypeOK
  BY MounterAssumption DEF Init, TypeOK
<1> QED
  BY <1>1, MounterAssumption
     DEF MounterInv, Init, WaitersOwnEntries, RunningHasWaiter, WaitersValid, HandledOnce, ExitedIdle,
         NoDescriptorLeak, Running

(* Each step keeps the invariant.  Launch finds no entry under its mount id, so no *)
(* other waiter has one there; a waiter deletes the only entry of its mount id.    *)
THEOREM StepKeepsInv == MounterInv /\ [Next]_vars => MounterInv'
<1> SUFFICES ASSUME MounterInv, [Next]_vars PROVE MounterInv'
  OBVIOUS
<1> USE MounterAssumption
<1> USE DEF MounterInv, WaitersOwnEntries, RunningHasWaiter, WaitersValid, HandledOnce, ExitedIdle,
        NoDescriptorLeak, Running
<1>1. ASSUME NEW r \in Requests, NEW m \in MountIds \cup {Invalid, Malformed}, Request(r, m) PROVE MounterInv'
  <2>1. TypeOK'
    BY <1>1 DEF Request, TypeOK, mainVars, childVars
  <2>2. mountId[r] = Nil /\ r \notin wg /\ r # conn
    BY <1>1 DEF Request, TypeOK
  <2>3. \A q \in Requests : q # r => mountId'[q] = mountId[q]
    BY <1>1 DEF Request, TypeOK
  <2> QED
    BY <1>1, <2>1, <2>2, <2>3 DEF Request, TypeOK, mainVars, childVars
<1>2. ASSUME NEW r \in Requests, ProcessExits(r) PROVE MounterInv'
  <2>1. TypeOK'
    BY <1>2 DEF ProcessExits, TypeOK, driverVars, mainVars, childVars
  <2> QED
    BY <1>2, <2>1 DEF ProcessExits, TypeOK, driverVars, mainVars, childVars
<1>3. ASSUME NEW r \in Requests, WaiterDeletes(r) PROVE MounterInv'
  <2>1. TypeOK'
    BY <1>3 DEF WaiterDeletes, TypeOK, driverVars, mainVars
  <2>2. \A q \in wg \ deleted : q # r => mountId[q] # mountId[r]
    BY <1>3 DEF WaiterDeletes
  <2> QED
    BY <1>3, <2>1, <2>2 DEF WaiterDeletes, TypeOK, driverVars, mainVars
<1>4. ASSUME NEW r \in Requests, WaiterReports(r) PROVE MounterInv'
  <2>1. TypeOK'
    BY <1>4 DEF WaiterReports, TypeOK, driverVars, mainVars
  <2> QED
    BY <1>4, <2>1 DEF WaiterReports, TypeOK, driverVars, mainVars
<1>5. ASSUME NEW m \in MountIds, RemoveErrorFile(m) PROVE MounterInv'
  BY <1>5 DEF RemoveErrorFile, TypeOK, driverVars, mainVars
<1>6. CASE SigTerm
  BY <1>6 DEF SigTerm, TypeOK, driverVars, mainVars, childVars
<1>7. CASE CloseListener
  BY <1>7 DEF CloseListener, TypeOK, mainVars, childVars
<1>8. CASE Accept
  BY <1>8 DEF Accept, TypeOK, childVars
<1>9. CASE AcceptClosed
  BY <1>9 DEF AcceptClosed, TypeOK, driverVars, childVars
<1>10. CASE RecvFails
  BY <1>10 DEF RecvFails, BackToAccept, TypeOK, driverVars, childVars
<1>11. CASE RecvOnConn
  BY <1>11 DEF RecvOnConn, TypeOK, driverVars, childVars
<1>12. CASE InvalidMountId
  BY <1>12 DEF InvalidMountId, BackToAccept, TypeOK, driverVars, childVars
<1>13. CASE LaunchFails
  BY <1>13 DEF LaunchFails, BackToAccept, TypeOK, driverVars, childVars
<1>14. CASE Launch
  <2>1. TypeOK'
    BY <1>14 DEF Launch, BackToAccept, TypeOK, driverVars
  <2>2. \A q \in wg \ deleted : mountId[q] # mountId[conn]
    BY <1>14 DEF Launch, TypeOK
  <2>3. conn \in Requests /\ conn \notin deleted
    BY <1>14 DEF Launch, TypeOK
  <2> QED
    BY <1>14, <2>1, <2>2, <2>3 DEF Launch, BackToAccept, TypeOK, driverVars
<1>15. CASE ShutdownSignals
  <2>1. TypeOK'
    BY <1>15 DEF ShutdownSignals, TypeOK, driverVars, childVars
  <2> QED
    BY <1>15, <2>1 DEF ShutdownSignals, TypeOK, driverVars, childVars
<1>16. CASE ShutdownWaits
  BY <1>16 DEF ShutdownWaits, TypeOK, driverVars, childVars
<1>17. CASE UNCHANGED vars
  BY <1>17 DEF vars, TypeOK
<1> QED
  BY <1>1, <1>2, <1>3, <1>4, <1>5, <1>6, <1>7, <1>8, <1>9, <1>10, <1>11, <1>12, <1>13, <1>14, <1>15,
     <1>16, <1>17 DEF Next, MainStep, WaiterStep

(* The type invariant, with the connection closed whenever main is not in          *)
(* handleConnection.                                                               *)
THEOREM MounterTypeCorrect == Spec => []TypeOK
<1>1. MounterInv => TypeOK
  BY DEF MounterInv
<1> QED
  BY InitEstablishes, StepKeepsInv, <1>1, PTL DEF Spec

(* ProcessManager.processes has every Mountpoint process that runs, under its own  *)
(* mount id, in every interleaving of Launch with the waiters of other processes.  *)
THEOREM TrackingCorrect == Spec => []EveryProcessIsTracked
<1>1. MounterInv => EveryProcessIsTracked
  BY DEF MounterInv, RunningHasWaiter, WaitersOwnEntries, EveryProcessIsTracked
<1> QED
  BY InitEstablishes, StepKeepsInv, <1>1, PTL DEF Spec

(* Every return of handleConnection and Launch closes the descriptor. *)
THEOREM DescriptorsCorrect == Spec => []NoDescriptorLeak
<1>1. MounterInv => NoDescriptorLeak
  BY DEF MounterInv
<1> QED
  BY InitEstablishes, StepKeepsInv, <1>1, PTL DEF Spec

(* When main returns, every Mountpoint process has ended and every waiter has      *)
(* reported.                                                                       *)
THEOREM ShutdownCorrect == Spec => []ShutdownIsComplete
<1>1. MounterInv => ShutdownIsComplete
  BY DEF MounterInv, RunningHasWaiter, WaitersValid, ExitedIdle, ShutdownIsComplete
<1> QED
  BY InitEstablishes, StepKeepsInv, <1>1, PTL DEF Spec
=============================================================================
