-------------------------- MODULE DaemonsetMounter --------------------------
(***************************************************************************)
(* The mounter DaemonSet (cmd/aws-s3-csi-daemonset-mounter): one process   *)
(* that accepts mount requests, each a connection with options and a FUSE  *)
(* descriptor, starts a Mountpoint process for each and, on SIGTERM, ends  *)
(* them all.  A request and the Mountpoint process it leads to have the    *)
(* same name here.                                                         *)
(***************************************************************************)
CONSTANTS
    Requests,   \* connections the driver makes
    MountIds,   \* valid mount ids
    Invalid,    \* a mount id that validMountId does not match
    Malformed,  \* a request that RecvOnConn gives up on
    Nil

ASSUME MounterAssumption ==
    /\ Invalid # Malformed /\ Invalid # Nil /\ Malformed # Nil
    /\ MountIds \cap {Invalid, Malformed, Nil} = {} /\ Nil \notin Requests

VARIABLES
    mountId,    \* what a request asks for, Nil before it is made
    backlog,    \* connections the kernel keeps for Accept
    listening,  \* the listener is open
    signalled,  \* SIGTERM arrived
    main,       \* main's control
    conn,       \* connection main handles, until it is closed
    held,       \* FUSE descriptors open in the mounter itself
    processes,  \* ProcessManager.processes
    proc,       \* state of each Mountpoint process
    wg,         \* waiter goroutines the WaitGroup counts
    deleted,    \* waiters that removed their process from the map
    errorFile   \* process whose stderr <mount-id>.error holds

vars == <<mountId, backlog, listening, signalled, main, conn, held,
          processes, proc, wg, deleted, errorFile>>
driverVars == <<mountId, backlog>>
mainVars == <<main, conn>>
childVars == <<wg, deleted, errorFile>>

Running(r) == proc[r] \in {"running", "terminating"}

TypeOK ==
    /\ mountId \in [Requests -> MountIds \cup {Invalid, Malformed, Nil}]
    /\ backlog \subseteq Requests
    /\ listening \in BOOLEAN /\ signalled \in BOOLEAN
    /\ main \in {"accept", "receiving", "received", "shutdown", "waiting", "exited"}
    /\ conn \in Requests \cup {Nil} /\ (conn # Nil <=> main \in {"receiving", "received"})
    /\ held \subseteq Requests
    /\ processes \in [MountIds -> Requests \cup {Nil}]
    /\ proc \in [Requests -> {"none", "running", "terminating", "succeeded", "failed"}]
    /\ wg \subseteq Requests /\ deleted \subseteq Requests
    /\ errorFile \in [MountIds -> Requests \cup {Nil}]

Init ==
    /\ mountId = [r \in Requests |-> Nil]
    /\ backlog = {}
    /\ listening = TRUE /\ signalled = FALSE
    /\ main = "accept" /\ conn = Nil
    /\ held = {}
    /\ processes = [m \in MountIds |-> Nil]
    /\ proc = [r \in Requests |-> "none"]
    /\ wg = {} /\ deleted = {}
    /\ errorFile = [m \in MountIds |-> Nil]

-----------------------------------------------------------------------------
(* The driver, which sends requests and removes error files, and the kubelet.  The *)
(* order in which requests arrive does not matter.                                 *)
Request(r, m) ==
    /\ listening /\ mountId[r] = Nil
    /\ mountId' = [mountId EXCEPT ![r] = m]
    /\ backlog' = backlog \cup {r}
    /\ UNCHANGED <<listening, signalled, mainVars, held, processes, proc, childVars>>

RemoveErrorFile(m) ==
    /\ errorFile[m] # Nil
    /\ errorFile' = [errorFile EXCEPT ![m] = Nil]
    /\ UNCHANGED <<driverVars, listening, signalled, mainVars, held, processes, proc, wg, deleted>>

SigTerm ==
    /\ ~signalled
    /\ signalled' = TRUE
    /\ UNCHANGED <<driverVars, listening, mainVars, held, processes, proc, childVars>>

(* A Mountpoint process ends by itself or because of SIGTERM. *)
ProcessExits(r) ==
    /\ Running(r)
    /\ \E s \in {"succeeded", "failed"} : proc' = [proc EXCEPT ![r] = s]
    /\ UNCHANGED <<driverVars, listening, signalled, mainVars, held, processes, childVars>>

-----------------------------------------------------------------------------
(* main *)

(* The signal goroutine closes the listener; connections nobody accepted are reset. *)
CloseListener ==
    /\ signalled /\ listening
    /\ listening' = FALSE
    /\ backlog' = {}
    /\ UNCHANGED <<mountId, signalled, mainVars, held, processes, proc, childVars>>

Accept ==
    /\ main = "accept" /\ listening
    /\ \E r \in backlog : conn' = r /\ backlog' = backlog \ {r}
    /\ main' = "receiving"
    /\ UNCHANGED <<mountId, listening, signalled, held, processes, proc, childVars>>

AcceptClosed ==
    /\ main = "accept" /\ ~listening
    /\ main' = "shutdown"
    /\ UNCHANGED <<driverVars, listening, signalled, conn, held, processes, proc, childVars>>

(* Mutant: the connection is not closed. *)
BackWithConn == main' = "accept" /\ held' = held \ {conn} /\ UNCHANGED conn

(* handleConnection: back to Accept, without the descriptor *)
BackToAccept == main' = "accept" /\ conn' = Nil /\ held' = held \ {conn}

(* RecvOnConn fails, at the latest after its timeout, and closes what it received. *)
RecvFails ==
    /\ main = "receiving" /\ mountId[conn] = Malformed
    /\ BackToAccept
    /\ UNCHANGED <<driverVars, listening, signalled, processes, proc, childVars>>

RecvOnConn ==
    /\ main = "receiving" /\ mountId[conn] # Malformed
    /\ main' = "received" /\ held' = held \cup {conn}
    /\ UNCHANGED <<driverVars, listening, signalled, conn, processes, proc, childVars>>

InvalidMountId ==
    /\ main = "received" /\ mountId[conn] = Invalid
    /\ BackToAccept
    /\ UNCHANGED <<driverVars, listening, signalled, processes, proc, childVars>>

(* Mutant: the descriptor stays open when the process cannot be started. *)
LaunchLeaks ==
    /\ main = "received" /\ mountId[conn] \in MountIds
    /\ main' = "accept" /\ conn' = Nil
    /\ UNCHANGED <<driverVars, listening, signalled, held, processes, proc, childVars>>

(* Launch: a duplicate, or the process does not start. *)
LaunchFails ==
    /\ main = "received" /\ mountId[conn] \in MountIds
    /\ BackToAccept
    /\ UNCHANGED <<driverVars, listening, signalled, processes, proc, childVars>>

(* Mutant: no check for a process of the same mount. *)
LaunchTwice ==
    /\ main = "received" /\ mountId[conn] \in MountIds
    /\ processes' = [processes EXCEPT ![mountId[conn]] = conn]
    /\ proc' = [proc EXCEPT ![conn] = "running"]
    /\ wg' = wg \cup {conn}
    /\ BackToAccept
    /\ UNCHANGED <<driverVars, listening, signalled, deleted, errorFile>>

(* Check, start and map entry are one critical section of pm.mu; main itself adds *)
(* to the WaitGroup before it starts the waiter.                                  *)
Launch ==
    /\ main = "received" /\ mountId[conn] \in MountIds
    /\ processes[mountId[conn]] = Nil
    /\ processes' = [processes EXCEPT ![mountId[conn]] = conn]
    /\ proc' = [proc EXCEPT ![conn] = "running"]
    /\ wg' = wg \cup {conn}
    /\ BackToAccept
    /\ UNCHANGED <<driverVars, listening, signalled, deleted, errorFile>>

(* Mutant: Shutdown does not signal. *)
ShutdownSilently ==
    /\ main = "shutdown"
    /\ main' = "waiting"
    /\ UNCHANGED <<driverVars, listening, signalled, conn, held, processes, proc, childVars>>

(* Shutdown: SIGTERM to every process of the map, under pm.mu *)
ShutdownSignals ==
    /\ main = "shutdown"
    /\ main' = "waiting"
    /\ proc' = [r \in Requests |->
                  IF Running(r) /\ \E m \in MountIds : processes[m] = r THEN "terminating" ELSE proc[r]]
    /\ UNCHANGED <<driverVars, listening, signalled, conn, held, processes, childVars>>

(* pm.wg.Wait(), and main returns *)
ShutdownWaits ==
    /\ main = "waiting" /\ wg = {}
    /\ main' = "exited"
    /\ UNCHANGED <<driverVars, listening, signalled, conn, held, processes, proc, childVars>>

-----------------------------------------------------------------------------
(* The waiter goroutine of a process *)

(* Mutant: the waiter is done before it writes the error file. *)
WaiterDoneEarly(r) ==
    /\ r \in wg \ deleted /\ ~Running(r)
    /\ processes' = [processes EXCEPT ![mountId[r]] = Nil]
    /\ wg' = wg \ {r} /\ deleted' = deleted \cup {r}
    /\ UNCHANGED <<driverVars, listening, signalled, mainVars, held, proc, errorFile>>

(* handle.Wait() returned: the entry of its mount id leaves the map. *)
WaiterDeletes(r) ==
    /\ r \in wg \ deleted /\ ~Running(r)
    /\ processes' = [processes EXCEPT ![mountId[r]] = Nil]
    /\ deleted' = deleted \cup {r}
    /\ UNCHANGED <<driverVars, listening, signalled, mainVars, held, proc, wg, errorFile>>

(* stderr goes to the error file; a failure to write it is only logged. *)
WaiterReports(r) ==
    /\ r \in deleted
    /\ \/ proc[r] = "failed" /\ errorFile' = [errorFile EXCEPT ![mountId[r]] = r]
       \/ UNCHANGED errorFile
    /\ wg' = wg \ {r} /\ deleted' = deleted \ {r}
    /\ UNCHANGED <<driverVars, listening, signalled, mainVars, held, processes, proc>>

MainStep ==
    \/ Accept \/ AcceptClosed
    \/ RecvFails \/ RecvOnConn \/ InvalidMountId
    \/ LaunchFails \/ Launch
    \/ ShutdownSignals \/ ShutdownWaits

WaiterStep(r) == WaiterDeletes(r) \/ WaiterReports(r)

Next ==
    \/ \E r \in Requests :
        \/ \E m \in MountIds \cup {Invalid, Malformed} : Request(r, m)
        \/ ProcessExits(r)
        \/ WaiterStep(r)
    \/ \E m \in MountIds : RemoveErrorFile(m)
    \/ SigTerm
    \/ CloseListener
    \/ MainStep

Spec == Init /\ [][Next]_vars

(* Goroutines run, and mount-s3 ends when it is told to. *)
FairSpec ==
    /\ Spec
    /\ WF_vars(MainStep) /\ WF_vars(CloseListener)
    /\ \A r \in Requests :
        /\ WF_vars(WaiterStep(r))
        /\ WF_vars(proc[r] = "terminating" /\ ProcessExits(r))

-----------------------------------------------------------------------------
(* The map has every process that runs under its mount id: so a mount has at most *)
(* one, Shutdown misses none, and no waiter deletes the entry of another process. *)
EveryProcessIsTracked ==
    \A r \in Requests : Running(r) => processes[mountId[r]] = r

(* The mounter holds a FUSE descriptor only while it starts a process: once that *)
(* process ends nothing keeps the mount half alive, whatever way Launch returned. *)
NoDescriptorLeak == held \subseteq {r \in {conn} : main = "received"}

(* main returns only when every process ended and every waiter handed over what  *)
(* its process left on stderr.                                                   *)
ShutdownIsComplete ==
    main = "exited" => deleted = {} /\ \A r \in Requests : ~Running(r)

(* SIGTERM ends the mounter, however many processes run and requests wait. *)
ShutdownEnds == signalled ~> main = "exited"
=============================================================================
