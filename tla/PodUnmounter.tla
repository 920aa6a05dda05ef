---------------------------- MODULE PodUnmounter ----------------------------
(***************************************************************************)
(* PodUnmounter: unmounts the sources of Mountpoint Pods annotated with    *)
(* needs-unmount, from the informer's update handler and from a periodic   *)
(* scan of the source directory, which also removes sources of Pods that   *)
(* no longer exist.                                                        *)
(***************************************************************************)
EXTENDS NodeHost

VARIABLE unmounter    \* the two goroutines: locals

Unmounters == {"handler", "cleanup"}

UnmounterIdle == [pc |-> "idle", mp |-> Nil, locked |-> FALSE, entries |-> {}]

UnmounterTypeOK ==
    /\ unmounter \in [Unmounters ->
        [pc : {"idle", "next", "lock", "exit", "check", "unused", "umount", "remove", "credentials"},
         mp : MountpointPods \cup {Nil}, locked : BOOLEAN, entries : SUBSET MountpointPods]]
    /\ \A u \in Unmounters :
        /\ unmounter[u].pc = "idle" => unmounter[u] = UnmounterIdle
        /\ unmounter[u].pc \notin {"idle", "next"} => unmounter[u].mp # Nil

UnmounterInit == unmounter = [u \in Unmounters |-> UnmounterIdle]

LockedUnmounters(p) == {u \in Unmounters : unmounter[u].locked /\ unmounter[u].mp = p}

UGoto(u, pc) == unmounter' = [unmounter EXCEPT ![u].pc = pc]

(* Return from the work on one Pod; the scan goes on with the next entry. *)
UReturn(u) ==
    LET rest == unmounter[u].entries IN
    unmounter' = [unmounter EXCEPT ![u] =
                    [UnmounterIdle EXCEPT !.pc = IF rest = {} THEN "idle" ELSE "next",
                                          !.entries = rest]]

-----------------------------------------------------------------------------
(* An update event, or the informer's resync, for an annotated Pod *)
HandleMountpointPodUpdate(p) ==
    /\ unmounter["handler"].pc = "idle" /\ NeedsUnmount(podSeen[p])
    /\ unmounter' = [unmounter EXCEPT !["handler"].pc = "lock", !["handler"].mp = p]
    /\ UNCHANGED hostVars

CleanupDanglingMounts ==
    /\ unmounter["cleanup"].pc = "idle"
    /\ LET entries == {p \in MountpointPods : source[p] # "absent"} IN
       /\ entries # {}
       /\ unmounter' = [unmounter EXCEPT !["cleanup"].pc = "next", !["cleanup"].entries = entries]
    /\ UNCHANGED hostVars

(* One entry of the directory.  Without its Pod the source is removed, and no *)
(* lock is taken for that.                                                    *)
NextEntry(p) ==
    LET u == "cleanup"
        rest == unmounter[u].entries \ {p}
        Go(pc) == unmounter' = [unmounter EXCEPT ![u].pc = pc, ![u].mp = p, ![u].entries = rest]
    IN
    /\ unmounter[u].pc = "next" /\ p \in unmounter[u].entries
    /\ \/ podSeen[p] = "gone" /\ Go("check")
       \/ NeedsUnmount(podSeen[p]) /\ Go("lock")
       \/ /\ podSeen[p] = "running"
          /\ unmounter' = [unmounter EXCEPT ![u].pc = IF rest = {} THEN "idle" ELSE "next",
                                            ![u].entries = rest]
    /\ UNCHANGED hostVars

UnmountMountpointPodIfNeeded(u, free) ==
    /\ unmounter[u].pc = "lock" /\ free
    /\ unmounter' = [unmounter EXCEPT ![u].pc = "exit", ![u].locked = TRUE]
    /\ UNCHANGED hostVars

(* Mutant: the exit file is never written. *)
WriteExitFileNot(u) ==
    /\ unmounter[u].pc = "exit"
    /\ UGoto(u, "check")
    /\ UNCHANGED hostVars

(* cleanUnmount begins: the exit file comes first. *)
WriteExitFile(u) ==
    LET p == unmounter[u].mp IN
    /\ unmounter[u].pc = "exit"
    /\ \/ pod[p] # "gone" /\ files' = [files EXCEPT ![p].exit = TRUE] /\ UGoto(u, "check")
       \/ pod[p] = "gone" /\ files' = files /\ UReturn(u)
    /\ UNCHANGED <<source, bound, proc, pod, podSeen, crashes, deletions>>

(* unmountAndRemoveMountpointSource *)
CheckMountpointSource(u) ==
    LET p == unmounter[u].mp IN
    /\ unmounter[u].pc = "check" /\ source[p] # "pending"
    /\ \/ source[p] = "absent" /\ unmounter[u].locked /\ UGoto(u, "credentials")
       \/ source[p] = "absent" /\ ~unmounter[u].locked /\ UReturn(u)
       \/ source[p] = "served" /\ UGoto(u, "unused")
       \/ source[p] = "corrupted" /\ UGoto(u, "umount")
       \/ source[p] = "dir" /\ UGoto(u, "remove")
    /\ UNCHANGED hostVars

(* Mutant: the source is unmounted whether or not it is in use. *)
UnusedOrNot(u) ==
    /\ unmounter[u].pc = "unused"
    /\ UGoto(u, "umount")
    /\ UNCHANGED hostVars

(* Mutant: cleanUnmount goes on after an error. *)
UnusedOrCleanUp(u) ==
    /\ unmounter[u].pc = "unused"
    /\ \/ References(unmounter[u].mp) = {} /\ UGoto(u, "umount")
       \/ References(unmounter[u].mp) # {} /\ UGoto(u, "credentials")
    /\ UNCHANGED hostVars

(* Gives up after 30 seconds; a later event or scan tries again. *)
WaitUntilMountpointIsUnused(u) ==
    /\ unmounter[u].pc = "unused"
    /\ \/ References(unmounter[u].mp) = {} /\ UGoto(u, "umount")
       \/ References(unmounter[u].mp) # {} /\ UReturn(u)
    /\ UNCHANGED hostVars

(* Depending on the node's umount, "not mounted" counts as success or as an error. *)
UnmountSource(u) ==
    LET p == unmounter[u].mp IN
    /\ unmounter[u].pc = "umount"
    /\ \/ /\ source[p] \in {"pending", "served", "corrupted"}
          /\ Mounts([source EXCEPT ![p] = "dir"], bound)
          /\ UGoto(u, "remove")
       \/ source[p] = "dir" /\ UGoto(u, "remove") /\ UNCHANGED <<source, bound, proc>>
       \/ source[p] \in {"absent", "dir"} /\ UReturn(u) /\ UNCHANGED <<source, bound, proc>>
    /\ UNCHANGED <<files, pod, podSeen, crashes, deletions>>

(* waitUntilMountpointIsUnmounted and the removal of the empty directory *)
RemoveSource(u) ==
    LET p == unmounter[u].mp IN
    /\ unmounter[u].pc = "remove" /\ source[p] # "pending"
    /\ \/ /\ source[p] = "dir"
          /\ source' = [source EXCEPT ![p] = "absent"]
          /\ IF unmounter[u].locked THEN UGoto(u, "credentials") ELSE UReturn(u)
       \/ source[p] # "dir" /\ UReturn(u) /\ source' = source
    /\ UNCHANGED <<bound, proc, files, pod, podSeen, crashes, deletions>>

CleanupCredentials(u) ==
    LET p == unmounter[u].mp IN
    /\ unmounter[u].pc = "credentials"
    /\ files' = [files EXCEPT ![p].creds = FALSE]
    /\ UReturn(u)
    /\ UNCHANGED <<source, bound, proc, pod, podSeen, crashes, deletions>>
=============================================================================
