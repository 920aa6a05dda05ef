----------------------------- MODULE NodeProofs -----------------------------
(***************************************************************************)
(* One node, for any number of Mountpoint Pods, targets, calls in flight,  *)
(* failures, deletions, expired calls and restarts of the plugin: what the *)
(* lock per Mountpoint Pod protects, and what survives where it is not     *)
(* taken.  Last, what may pile up on a target: Mount looks at it long      *)
(* before it binds it, and takes no lock of it.                            *)
(***************************************************************************)
EXTENDS Node, TLAPS, FiniteSetTheorems, FunctionTheorems, Functions

LockedPcs == {"source", "credentials", "mount", "send", "wait", "bind"}

(* The informer has seen the Pod, or it is gone: what cleanupDanglingMounts    *)
(* takes for a Pod that no longer exists is one.                               *)
Seen(p) == podSeen[p] = "gone" => pod[p] = "gone"

(* A mount on some target, live or of the bare directory *)
In(b, m) == \E t \in Targets : \E i \in DOMAIN b[t] : b[t][i] = m
Live(p) == HasLive(bound, p)
Bare(p) == In(bound, [mp |-> p, fs |-> "bare"])

(* A Mountpoint Pod: what its phase, its process, its source and the bind      *)
(* mounts say of each other                                                    *)
PodInv(p) ==
    /\ pod[p] = "succeeded" => proc[p] = "done"
    /\ pod[p] = "gone" => proc[p] = "off"
    /\ proc[p] = "starting" => source[p] = "pending"
    /\ proc[p] = "serving" <=> source[p] = "served"
    /\ Live(p) => proc[p] = "serving" /\ files[p].creds
    /\ Bare(p) => pod[p] = "gone"
    /\ source[p] # "absent" => Seen(p)

(* A call: what it knows of its Mountpoint Pod between two of its steps *)
CallInv(c) ==
    LET r == call[c]
        p == r.mp
        gone == pod[p] = "gone"
    IN  /\ r.pc \in LockedPcs \cup {"lock"} => Seen(p)
        /\ r.pc \in {"credentials", "mount", "bind"} => source[p] # "pending"
        /\ r.pc = "bind" \/ (r.pc = "credentials" /\ r.isSource) =>
                source[p] \in {"served", "corrupted"} \/ gone
        /\ r.pc = "send" => /\ source[p] = "pending" \/ gone
                            /\ ~files[p].err /\ proc[p] \notin {"starting", "serving"}
        /\ r.pc = "wait" /\ files[p].err => proc[p] \notin {"starting", "serving"}
        /\ r.pc \in {"mount", "send", "wait", "bind"} => files[p].creds \/ gone

(* A goroutine of the unmounter: it holds the lock of its Mountpoint Pod, or   *)
(* that Pod is gone.                                                           *)
UnmounterInv(u) ==
    LET r == unmounter[u]
        p == r.mp
    IN  /\ \A q \in r.entries : Seen(q)
        /\ r.pc = "next" => r.mp = Nil
        /\ r.pc \in {"idle", "next", "lock"} => ~r.locked
        /\ r.pc \in {"exit", "credentials"} => r.locked
        /\ r.pc \in {"check", "unused", "umount", "remove"} => r.locked \/ pod[p] = "gone"
        /\ r.locked /\ r.pc \in {"unused", "umount", "remove", "credentials"} => source[p] # "pending"
        /\ r.locked /\ r.pc = "umount" /\ source[p] = "served" => ~Live(p)
        /\ r.pc = "credentials" => source[p] # "served"

(* The lock of each Mountpoint Pod has one holder. *)
Exclusive ==
    /\ \A c, d \in Calls :
        call[c].pc \in LockedPcs /\ call[d].pc \in LockedPcs /\ call[c].mp = call[d].mp => c = d
    /\ \A u, v \in Unmounters :
        unmounter[u].locked /\ unmounter[v].locked /\ unmounter[u].mp = unmounter[v].mp => u = v
    /\ \A c \in Calls, u \in Unmounters :
        call[c].pc \in LockedPcs /\ unmounter[u].locked => call[c].mp # unmounter[u].mp

NodeInv ==
    /\ TypeOK /\ Exclusive /\ NoAbandonedMount
    /\ \A p \in MountpointPods : PodInv(p)
    /\ \A c \in Calls : CallInv(c)
    /\ \A u \in Unmounters : UnmounterInv(u)

-----------------------------------------------------------------------------
(* Mounts on the targets *)
LEMMA LiveIn ==
    ASSUME NEW b \in [Targets -> Seq(MountType)], NEW p
    PROVE  HasLive(b, p) <=> In(b, [mp |-> p, fs |-> "live"])
BY DEF HasLive, In

(* One mount less on a target: nothing new is mounted anywhere. *)
LEMMA InTail ==
    ASSUME NEW b \in [Targets -> Seq(MountType)], NEW t \in Targets, NEW x,
           x = b[t] \/ (b[t] # <<>> /\ x = Tail(b[t]))
    PROVE  /\ [b EXCEPT ![t] = x] \in [Targets -> Seq(MountType)]
           /\ \A m : In([b EXCEPT ![t] = x], m) => In(b, m)
<1>. DEFINE e == [b EXCEPT ![t] = x]
<1>1. b[t] \in Seq(MountType)
  OBVIOUS
<1>2. x \in Seq(MountType) /\ \A i \in DOMAIN x : \E j \in DOMAIN b[t] : x[i] = b[t][j]
  <2>1. CASE x = b[t]
    BY <1>1, <2>1
  <2>2. CASE b[t] # <<>> /\ x = Tail(b[t])
    <3>1. /\ x \in Seq(MountType) /\ Len(x) = Len(b[t]) - 1 /\ Len(b[t]) \in Nat
          /\ \A i \in 1..Len(x) : x[i] = b[t][i + 1]
      BY <1>1, <2>2
    <3>2. DOMAIN x = 1..Len(x) /\ DOMAIN b[t] = 1..Len(b[t])
      BY <1>1, <3>1
    <3>. QED
      BY <3>1, <3>2
  <2>. QED
    BY <2>1, <2>2
<1>3. e \in [Targets -> Seq(MountType)]
  BY <1>2
<1>4. e[t] = x /\ \A u \in Targets \ {t} : e[u] = b[u]
  OBVIOUS
<1>5. ASSUME NEW m, In(e, m) PROVE In(b, m)
  <2>. HIDE DEF e
  <2>1. PICK u \in Targets : \E i \in DOMAIN e[u] : e[u][i] = m
    BY <1>5 DEF In
  <2>2. \E i \in DOMAIN b[u] : b[u][i] = m
    <3>1. CASE u = t
      BY <1>2, <1>4, <2>1, <3>1
    <3>2. CASE u # t
      BY <1>4, <2>1, <3>2
    <3>. QED
      BY <3>1, <3>2
  <2>. QED
    BY <2>2 DEF In
<1>. QED
  BY <1>3, <1>5

(* A bind mount: it is the only new one. *)
LEMMA InBind ==
    ASSUME NEW b \in [Targets -> Seq(MountType)], NEW t \in Targets, NEW n \in MountType
    PROVE  /\ [b EXCEPT ![t] = <<n>> \o @] \in [Targets -> Seq(MountType)]
           /\ \A m : In([b EXCEPT ![t] = <<n>> \o @], m) => In(b, m) \/ m = n
<1>. DEFINE x == <<n>> \o b[t]
            e == [b EXCEPT ![t] = x]
<1>1. b[t] \in Seq(MountType) /\ <<n>> \in Seq(MountType)
  OBVIOUS
<1>2. /\ x \in Seq(MountType)
      /\ \A i \in DOMAIN x : x[i] = n \/ \E j \in DOMAIN b[t] : x[i] = b[t][j]
  <2>1. /\ x \in Seq(MountType) /\ Len(x) = Len(b[t]) + 1 /\ Len(b[t]) \in Nat
        /\ x[1] = n /\ \A i \in 2..Len(x) : x[i] = b[t][i - 1]
    BY <1>1
  <2>2. DOMAIN x = 1..Len(x) /\ DOMAIN b[t] = 1..Len(b[t])
    BY <1>1, <2>1
  <2>. HIDE DEF x
  <2>3. ASSUME NEW i \in DOMAIN x, i # 1 PROVE \E j \in DOMAIN b[t] : x[i] = b[t][j]
    <3>1. i \in 2..Len(x) /\ i - 1 \in DOMAIN b[t]
      BY <2>1, <2>2, <2>3
    <3>. QED
      BY <2>1, <3>1
  <2>. QED
    BY <2>1, <2>3
<1>. HIDE DEF x
<1>3. e \in [Targets -> Seq(MountType)] /\ e[t] = x /\ \A u \in Targets \ {t} : e[u] = b[u]
  BY <1>2
<1>4. ASSUME NEW m, In(e, m) PROVE In(b, m) \/ m = n
  <2>. HIDE DEF e
  <2>1. PICK u \in Targets : \E i \in DOMAIN e[u] : e[u][i] = m
    BY <1>4 DEF In
  <2>2. m = n \/ \E i \in DOMAIN b[u] : b[u][i] = m
    <3>0. PICK i \in DOMAIN e[u] : e[u][i] = m
      BY <2>1
    <3>1. CASE u = t
      <4>1. i \in DOMAIN x /\ x[i] = m
        BY <1>3, <3>0, <3>1
      <4>2. x[i] = n \/ \E j \in DOMAIN b[t] : x[i] = b[t][j]
        BY <1>2, <4>1
      <4>. QED
        BY <3>1, <4>1, <4>2
    <3>2. CASE u # t
      <4>1. e[u] = b[u]
        BY <1>3, <3>2
      <4>. QED
        BY <3>0, <4>1
    <3>. QED
      BY <3>1, <3>2
  <2>. QED
    BY <2>2 DEF In
<1>. QED
  BY <1>3, <1>4 DEF x

(* A process dies: its live mounts are dead, the others as they were. *)
Died(b, p) ==
    [t \in Targets |-> [i \in DOMAIN b[t] |->
        IF b[t][i] = [mp |-> p, fs |-> "live"] THEN [mp |-> p, fs |-> "dead"] ELSE b[t][i]]]

LEMMA InDies ==
    ASSUME NEW b \in [Targets -> Seq(MountType)], NEW p \in MountpointPods, NEW e, e = Died(b, p)
    PROVE  /\ e \in [Targets -> Seq(MountType)]
           /\ \A m : In(e, m) => /\ m # [mp |-> p, fs |-> "live"]
                                 /\ In(b, m) \/ m = [mp |-> p, fs |-> "dead"]
<1>. DEFINE dead == [mp |-> p, fs |-> "dead"]
            live == [mp |-> p, fs |-> "live"]
            F(s) == [i \in DOMAIN s |-> IF s[i] = live THEN dead ELSE s[i]]
<1>1. dead \in MountType /\ dead # live
  <2>1. dead.fs # live.fs
    OBVIOUS
  <2>. QED
    BY <2>1 DEF MountType
<1>. HIDE DEF dead, live
<1>2. ASSUME NEW t \in Targets PROVE e[t] = F(b[t]) /\ F(b[t]) \in Seq(MountType)
  <2>1. b[t] \in Seq(MountType) /\ DOMAIN b[t] = 1..Len(b[t]) /\ Len(b[t]) \in Nat
    OBVIOUS
  <2>2. \A i \in 1..Len(b[t]) : b[t][i] \in MountType
    BY <2>1
  <2>3. F(b[t]) \in [1..Len(b[t]) -> MountType]
    BY <1>1, <2>1, <2>2
  <2>4. F(b[t]) \in Seq(MountType)
    BY <2>1, <2>3
  <2>. QED
    BY <2>4 DEF Died, dead, live
<1>3. e \in [Targets -> Seq(MountType)]
  BY <1>2 DEF Died
<1>4. ASSUME NEW m, In(e, m) PROVE m # live /\ (In(b, m) \/ m = dead)
  <2>1. PICK t \in Targets : \E i \in DOMAIN e[t] : e[t][i] = m
    BY <1>4 DEF In
  <2>2. PICK i \in DOMAIN b[t] : m = IF b[t][i] = live THEN dead ELSE b[t][i]
    <3>1. e[t] = F(b[t])
      BY <1>2
    <3>2. DOMAIN F(b[t]) = DOMAIN b[t]
      OBVIOUS
    <3>3. \A i \in DOMAIN b[t] : F(b[t])[i] = IF b[t][i] = live THEN dead ELSE b[t][i]
      OBVIOUS
    <3>. QED
      BY <2>1, <3>1, <3>2, <3>3
  <2>. QED
    BY <1>1, <2>2 DEF In
<1>. QED
  BY <1>3, <1>4 DEF dead, live

-----------------------------------------------------------------------------
(* What a step says of a Mountpoint Pod it does not work on *)
Still(q) ==
    /\ source'[q] = source[q] /\ proc'[q] = proc[q] /\ files'[q] = files[q] /\ pod'[q] = pod[q]
    /\ Live(q)' => Live(q)
    /\ Bare(q)' => Bare(q)
    /\ Seen(q) => Seen(q)'

NoAbandoned(q) == source[q] = "pending" => NodeHoldsFd(q) \/ proc[q] = "starting"

Busy == {"exit", "check", "unused", "umount", "remove", "credentials"}

LEMMA StillPod == ASSUME NEW q, PodInv(q), Still(q) PROVE PodInv(q)'
BY DEF PodInv, Still

LEMMA StillCall ==
    ASSUME NEW c, CallInv(c), call'[c] = call[c],
           call[c].pc \in LockedPcs \cup {"lock"} => Still(call[c].mp)
    PROVE  CallInv(c)'
BY DEF CallInv, Still, LockedPcs

LEMMA WaitingCall ==
    ASSUME NEW c, CallInv(c), call'[c] = call[c], call[c].pc \notin LockedPcs,
           call[c].pc = "lock" => (Seen(call[c].mp) => Seen(call[c].mp)')
    PROVE  CallInv(c)'
BY DEF CallInv, LockedPcs

LEMMA StillUnmounter ==
    ASSUME NEW u, UnmounterInv(u), unmounter'[u] = unmounter[u],
           \A q \in unmounter[u].entries : Seen(q) => Seen(q)',
           unmounter[u].pc \in Busy => Still(unmounter[u].mp)
    PROVE  UnmounterInv(u)'
<1>. DEFINE r == unmounter[u]
<1>1. CASE r.pc \in Busy
  BY <1>1 DEF UnmounterInv, Still, Busy
<1>2. CASE r.pc \notin Busy
  BY <1>2 DEF UnmounterInv, Busy
<1>. QED
  BY <1>1, <1>2

(* A step on one Mountpoint Pod p, or on none (p = Nil): the calls and unmounters *)
(* of other Pods notice nothing, those of p are looked at one by one.             *)
LEMMA Concludes ==
    ASSUME NodeInv, NEW p, TypeOK', Exclusive',
           \A q \in MountpointPods \ {p} : Still(q) /\ (NodeHoldsFd(q) => NodeHoldsFd(q)'),
           p \in MountpointPods => PodInv(p)' /\ NoAbandoned(p)' /\ (Seen(p) => Seen(p)'),
           \A c \in Calls : \/ CallInv(c)'
                            \/ call'[c] = call[c] /\ (call[c].pc \in LockedPcs => call[c].mp # p),
           \A u \in Unmounters : \/ UnmounterInv(u)'
                                 \/ /\ unmounter'[u] = unmounter[u]
                                    /\ unmounter[u].pc \in Busy => unmounter[u].mp # p
    PROVE  NodeInv'
<1>1. ASSUME NEW q \in MountpointPods PROVE PodInv(q)' /\ NoAbandoned(q)' /\ (Seen(q) => Seen(q)')
  <2>1. CASE q = p
    BY <2>1
  <2>2. CASE q # p
    <3>1. Still(q) /\ (NodeHoldsFd(q) => NodeHoldsFd(q)') /\ PodInv(q) /\ NoAbandoned(q)
      BY <2>2 DEF NodeInv, NoAbandonedMount, NoAbandoned
    <3>2. PodInv(q)'
      BY <3>1, StillPod
    <3>3. NoAbandoned(q)' /\ (Seen(q) => Seen(q)')
      BY <3>1 DEF NoAbandoned, Still
    <3>. QED
      BY <3>2, <3>3
  <2>. QED
    BY <2>1, <2>2
<1>2. ASSUME NEW c \in Calls PROVE CallInv(c)'
  <2>1. CASE call'[c] = call[c] /\ (call[c].pc \in LockedPcs => call[c].mp # p)
    <3>0. CallInv(c)
      BY DEF NodeInv
    <3>1. call[c].pc \in LockedPcs \cup {"lock"} => call[c].mp \in MountpointPods
      BY DEF NodeInv, TypeOK, MounterTypeOK, CallType, LockedPcs
    <3>2. CASE call[c].pc \in LockedPcs
      BY <2>1, <3>0, <3>1, <3>2, StillCall
    <3>3. CASE call[c].pc \notin LockedPcs
      BY <1>1, <2>1, <3>0, <3>1, <3>3, WaitingCall
    <3>. QED
      BY <3>2, <3>3
  <2>. QED
    BY <2>1
<1>3. ASSUME NEW u \in Unmounters PROVE UnmounterInv(u)'
  <2>1. CASE unmounter'[u] = unmounter[u] /\ (unmounter[u].pc \in Busy => unmounter[u].mp # p)
    <3>1. /\ UnmounterInv(u) /\ unmounter[u].entries \subseteq MountpointPods
          /\ unmounter[u].pc \in Busy => unmounter[u].mp \in MountpointPods
      BY DEF NodeInv, TypeOK, UnmounterTypeOK, Busy
    <3>. QED
      BY <1>1, <2>1, <3>1, StillUnmounter
  <2>. QED
    BY <2>1
<1>4. NoAbandonedMount'
  BY <1>1 DEF NoAbandonedMount, NoAbandoned
<1>. QED
  BY <1>1, <1>2, <1>3, <1>4 DEF NodeInv

(* A step that changes nothing of the host. *)
LEMMA HostStill ==
    ASSUME UNCHANGED hostVars
    PROVE  /\ \A q \in MountpointPods : Still(q)
           /\ HostTypeOK => HostTypeOK'
           /\ \A q \in MountpointPods : PodInv(q) => PodInv(q)'
BY DEF hostVars, Still, Live, Bare, Seen, HostTypeOK, PodInv

-----------------------------------------------------------------------------
(* Assignments to the locals of a call and of an unmounter.                    *)
CallOK(r) ==
    /\ r \in CallType
    /\ r.pc = "idle" => r = NoCall
    /\ r.pc # "idle" => r.target # Nil
    /\ r.pc \notin {"idle", "attachment", "unmount"} => r.mp # Nil

LEMMA SetCall ==
    ASSUME MounterTypeOK, NEW c \in Calls, NEW r, CallOK(r), call' = [call EXCEPT ![c] = r],
           workload' \in [Targets -> {"none", "wanted", "terminated", "unpublished"}],
           attachment' \in [Targets -> MountpointPods \cup {Nil}], expiries' \in 0..MaxExpiries
    PROVE  MounterTypeOK' /\ call'[c] = r /\ \A d \in Calls \ {c} : call'[d] = call[d]
BY DEF MounterTypeOK, CallOK

LEMMA CallIsOK == ASSUME MounterTypeOK, NEW c \in Calls PROVE CallOK(call[c]) /\ CallOK(NoCall)
<1>1. CallOK(call[c])
  BY DEF MounterTypeOK, CallOK
<1>2. CallOK(NoCall)
  BY DEF CallOK, NoCall, CallType
<1>. QED
  BY <1>1, <1>2

LEMMA GotoSets ==
    ASSUME MounterTypeOK, NEW c \in Calls, call[c].pc \in LockedPcs \cup {"pod", "lock"},
           NEW pc \in LockedPcs \cup {"lock"}, Goto(c, pc), UNCHANGED <<workload, attachment, expiries>>
    PROVE  /\ MounterTypeOK' /\ \A d \in Calls \ {c} : call'[d] = call[d]
           /\ call'[c].pc = pc /\ call'[c].mp = call[c].mp /\ call'[c].isSource = call[c].isSource
<1>. DEFINE r == [call[c] EXCEPT !.pc = pc]
<1>1. CallOK(call[c]) /\ call[c] \in CallType
  BY CallIsOK DEF CallOK
<1>2. /\ r \in CallType /\ r.pc = pc /\ r.mp = call[c].mp /\ r.isSource = call[c].isSource
      /\ r.target = call[c].target
  BY <1>1 DEF CallType, LockedPcs
<1>3. call' = [call EXCEPT ![c] = r]
  BY DEF Goto
<1>. HIDE DEF r
<1>4. CallOK(r)
  BY <1>1, <1>2 DEF CallOK, LockedPcs
<1>. QED
  BY <1>2, <1>3, <1>4, SetCall DEF MounterTypeOK

LEMMA ReturnSets ==
    ASSUME MounterTypeOK, NEW c \in Calls, Return(c), UNCHANGED <<attachment, expiries>>,
           workload' \in [Targets -> {"none", "wanted", "terminated", "unpublished"}]
    PROVE  /\ MounterTypeOK' /\ \A d \in Calls \ {c} : call'[d] = call[d]
           /\ call'[c] = NoCall /\ call'[c].pc = "idle" /\ CallInv(c)'
<1>1. CallOK(NoCall) /\ call' = [call EXCEPT ![c] = NoCall]
  BY CallIsOK DEF Return
<1>2. /\ MounterTypeOK' /\ \A d \in Calls \ {c} : call'[d] = call[d]
      /\ call'[c] = NoCall
  BY <1>1, SetCall DEF MounterTypeOK
<1>. QED
  BY <1>2 DEF NoCall, CallInv, LockedPcs

UnmounterType ==
    [pc : {"idle", "next", "lock", "exit", "check", "unused", "umount", "remove", "credentials"},
     mp : MountpointPods \cup {Nil}, locked : BOOLEAN, entries : SUBSET MountpointPods]

LEMMA SetUnmounter ==
    ASSUME UnmounterTypeOK, NEW u \in Unmounters, NEW r \in UnmounterType,
           r.pc = "idle" => r = UnmounterIdle, r.pc \notin {"idle", "next"} => r.mp # Nil,
           unmounter' = [unmounter EXCEPT ![u] = r]
    PROVE  UnmounterTypeOK' /\ unmounter'[u] = r /\ \A v \in Unmounters \ {u} : unmounter'[v] = unmounter[v]
BY DEF UnmounterTypeOK, UnmounterType

LEMMA UGotoSets ==
    ASSUME UnmounterTypeOK, NEW u \in Unmounters, unmounter[u].pc \in Busy, NEW pc \in Busy, UGoto(u, pc)
    PROVE  /\ UnmounterTypeOK' /\ \A v \in Unmounters \ {u} : unmounter'[v] = unmounter[v]
           /\ unmounter'[u].pc = pc /\ unmounter'[u].mp = unmounter[u].mp
           /\ unmounter'[u].locked = unmounter[u].locked /\ unmounter'[u].entries = unmounter[u].entries
<1>. DEFINE r == [unmounter[u] EXCEPT !.pc = pc]
<1>1. unmounter[u] \in UnmounterType /\ unmounter[u].mp # Nil
  BY DEF UnmounterTypeOK, UnmounterType, Busy
<1>2. /\ r \in UnmounterType /\ r.pc = pc /\ r.mp = unmounter[u].mp /\ r.locked = unmounter[u].locked
      /\ r.entries = unmounter[u].entries
  BY <1>1 DEF UnmounterType, Busy
<1>3. unmounter' = [unmounter EXCEPT ![u] = r] /\ pc \notin {"idle", "next"}
  BY DEF UGoto, Busy
<1>. HIDE DEF r
<1>. QED
  BY <1>1, <1>2, <1>3, SetUnmounter

LEMMA UReturnSets ==
    ASSUME UnmounterTypeOK, NEW u \in Unmounters, UReturn(u)
    PROVE  /\ UnmounterTypeOK' /\ \A v \in Unmounters \ {u} : unmounter'[v] = unmounter[v]
           /\ unmounter'[u].pc \in {"idle", "next"} /\ unmounter'[u].mp = Nil
           /\ ~unmounter'[u].locked /\ unmounter'[u].entries = unmounter[u].entries
<1>. DEFINE rest == unmounter[u].entries
            pc == IF rest = {} THEN "idle" ELSE "next"
            r == [UnmounterIdle EXCEPT !.pc = pc, !.entries = rest]
<1>1. rest \subseteq MountpointPods /\ pc \in {"idle", "next"} /\ (pc = "idle" => rest = {})
  BY DEF UnmounterTypeOK
<1>2. unmounter' = [unmounter EXCEPT ![u] = r]
  BY DEF UReturn
<1>. HIDE DEF rest, pc
<1>3. r = [pc |-> pc, mp |-> Nil, locked |-> FALSE, entries |-> rest]
  <2>1. UnmounterIdle \in [pc : {"idle"}, mp : {Nil}, locked : {FALSE}, entries : {{}}]
    BY DEF UnmounterIdle
  <2>2. r \in [pc : {pc}, mp : {Nil}, locked : {FALSE}, entries : {rest}]
    BY <2>1
  <2>. HIDE DEF r
  <2>. QED
    BY <2>2
<1>4. /\ r \in UnmounterType /\ r.pc = pc /\ r.mp = Nil /\ r.locked = FALSE /\ r.entries = rest
      /\ r.pc = "idle" => r = UnmounterIdle
  BY <1>1, <1>3 DEF UnmounterType, UnmounterIdle
<1>. HIDE DEF r
<1>. QED
  BY <1>1, <1>2, <1>4, SetUnmounter DEF rest

-----------------------------------------------------------------------------
(* A target is unmounted: no process ends, as no source is. *)
LEMMA TargetUnmounted ==
    ASSUME NodeInv, NEW t \in Targets, NEW x, x = bound[t] \/ (bound[t] # <<>> /\ x = Tail(bound[t])),
           Mounts(source, [bound EXCEPT ![t] = x]), UNCHANGED <<files, pod, podSeen, crashes, deletions>>
    PROVE  HostTypeOK' /\ \A q \in MountpointPods : Still(q)
<1>1. HostTypeOK /\ bound \in [Targets -> Seq(MountType)] /\ \A q \in MountpointPods : PodInv(q)
  BY DEF NodeInv, TypeOK, HostTypeOK
<1>2. /\ bound' \in [Targets -> Seq(MountType)] /\ \A m : In(bound', m) => In(bound, m)
      /\ source' = source
  BY <1>1, InTail DEF Mounts
<1>3. \A q \in MountpointPods : proc'[q] = proc[q]
  BY <1>1 DEF Mounts, PodInv
<1>4. proc' \in [MountpointPods -> ProcStates]
  BY <1>1 DEF Mounts, HostTypeOK, ProcStates
<1>5. HostTypeOK'
  BY <1>1, <1>2, <1>4 DEF HostTypeOK
<1>6. ASSUME NEW q \in MountpointPods PROVE Still(q)
  <2>1. (Live(q)' => Live(q)) /\ (Bare(q)' => Bare(q))
    BY <1>1, <1>2, LiveIn DEF Live, Bare
  <2>. QED
    BY <1>2, <1>3, <2>1 DEF Still, Seen
<1>. QED
  BY <1>5, <1>6

(* What is at the source of p changes, and its process may end with it. *)
LEMMA SourceMounted ==
    ASSUME NodeInv, NEW p \in MountpointPods, NEW s \in SourceStates,
           Mounts([source EXCEPT ![p] = s], bound), UNCHANGED <<files, pod, podSeen, crashes, deletions>>
    PROVE  /\ HostTypeOK' /\ \A q \in MountpointPods \ {p} : Still(q)
           /\ source'[p] = s
           /\ proc'[p] = IF /\ proc[p] \in {"starting", "serving"} /\ s \notin {"pending", "served"}
                            /\ ~Live(p)
                         THEN "ended" ELSE proc[p]
           /\ Live(p)' = Live(p) /\ Bare(p)' = Bare(p) /\ Seen(p)' = Seen(p)
<1>1. HostTypeOK /\ \A q \in MountpointPods : PodInv(q)
  BY DEF NodeInv, TypeOK
<1>2. /\ source' \in [MountpointPods -> SourceStates] /\ source'[p] = s /\ bound' = bound
      /\ \A q \in MountpointPods \ {p} : source'[q] = source[q]
  BY <1>1 DEF HostTypeOK, Mounts
<1>3. proc' \in [MountpointPods -> ProcStates]
  BY <1>1 DEF Mounts, HostTypeOK, ProcStates
<1>4. /\ \A q \in MountpointPods \ {p} : proc'[q] = proc[q]
      /\ proc'[p] = IF /\ proc[p] \in {"starting", "serving"} /\ s \notin {"pending", "served"}
                       /\ ~Live(p)
                    THEN "ended" ELSE proc[p]
  <2>1. \A q \in MountpointPods :
          proc'[q] = IF /\ proc[q] \in {"starting", "serving"}
                        /\ source'[q] \notin {"pending", "served"} /\ ~Live(q)
                     THEN "ended" ELSE proc[q]
    BY DEF Mounts, Live
  <2>. QED
    BY <1>1, <1>2, <2>1 DEF PodInv
<1>5. HostTypeOK'
  BY <1>1, <1>2, <1>3 DEF HostTypeOK
<1>6. \A q \in MountpointPods : Live(q)' = Live(q) /\ Bare(q)' = Bare(q) /\ Seen(q)' = Seen(q)
  BY <1>2 DEF Live, Bare, Seen
<1>. QED
  BY <1>2, <1>4, <1>5, <1>6 DEF Still

(* The lock is where it was, or free. *)
LEMMA ExclusiveKept ==
    ASSUME Exclusive,
           \A c \in Calls : call'[c].pc \in LockedPcs => call[c].pc \in LockedPcs /\ call'[c].mp = call[c].mp,
           \A u \in Unmounters : unmounter'[u].locked => unmounter[u].locked /\ unmounter'[u].mp = unmounter[u].mp
    PROVE  Exclusive'
BY DEF Exclusive

(* A call that holds the lock works on its Mountpoint Pod: no other holder is   *)
(* there to be disturbed, and an unmounter without the lock works on a Pod that *)
(* is gone.                                                                     *)
LEMMA CallActs ==
    ASSUME NodeInv, NEW c \in Calls, call[c].pc \in LockedPcs, NEW p, p = call[c].mp,
           HostTypeOK', MounterTypeOK', UNCHANGED <<unmounter, restarts>>,
           \A d \in Calls \ {c} : call'[d] = call[d],
           call'[c].pc \in LockedPcs => call'[c].mp = p,
           \A q \in MountpointPods \ {p} : Still(q),
           PodInv(p)', NoAbandoned(p)', Seen(p) => Seen(p)', pod'[p] = pod[p], CallInv(c)'
    PROVE  NodeInv'
<1>1. TypeOK /\ Exclusive /\ \A u \in Unmounters : UnmounterInv(u)
  BY DEF NodeInv
<1>2. TypeOK'
  BY <1>1 DEF TypeOK, UnmounterTypeOK
<1>3. Exclusive'
  BY <1>1, ExclusiveKept
<1>4. \A q \in MountpointPods \ {p} : NodeHoldsFd(q) => NodeHoldsFd(q)'
  BY DEF NodeHoldsFd
<1>5. \A d \in Calls : \/ CallInv(d)'
                       \/ call'[d] = call[d] /\ (call[d].pc \in LockedPcs => call[d].mp # p)
  BY <1>1 DEF Exclusive
<1>6. ASSUME NEW u \in Unmounters, unmounter[u].pc \in Busy, unmounter[u].mp = p PROVE UnmounterInv(u)'
  <2>1. ~unmounter[u].locked /\ UnmounterInv(u)
    BY <1>1, <1>6 DEF Exclusive
  <2>2. \A q \in unmounter[u].entries : Seen(q)'
    <3>1. unmounter[u].entries \subseteq MountpointPods
      BY <1>1 DEF TypeOK, UnmounterTypeOK
    <3>. QED
      BY <2>1, <3>1 DEF UnmounterInv, Still
  <2>3. pod[p] = "gone" /\ unmounter[u].pc \in {"check", "unused", "umount", "remove"}
    BY <1>6, <2>1 DEF UnmounterInv, Busy
  <2>. QED
    BY <1>6, <2>1, <2>2, <2>3 DEF UnmounterInv
<1>. QED
  BY <1>2, <1>3, <1>4, <1>5, <1>6, Concludes

(* A call without the lock leaves every Mountpoint Pod as it is. *)
LEMMA CallWaits ==
    ASSUME NodeInv, NEW c \in Calls, call[c].pc \notin LockedPcs, call'[c].pc \notin LockedPcs,
           HostTypeOK', MounterTypeOK', UNCHANGED <<unmounter, restarts>>,
           \A d \in Calls \ {c} : call'[d] = call[d],
           \A q \in MountpointPods : Still(q), CallInv(c)'
    PROVE  NodeInv'
<1>1. TypeOK /\ Exclusive
  BY DEF NodeInv
<1>2. TypeOK'
  BY <1>1 DEF TypeOK, UnmounterTypeOK
<1>3. Exclusive'
  BY <1>1, ExclusiveKept
<1>4. \A q \in MountpointPods : NodeHoldsFd(q) => NodeHoldsFd(q)'
  BY DEF NodeHoldsFd, LockedPcs
<1>5. Nil \notin MountpointPods
  BY HostAssumption
<1>6. \A d \in Calls : \/ CallInv(d)'
                       \/ call'[d] = call[d] /\ (call[d].pc \in LockedPcs => call[d].mp # Nil)
  BY <1>1 DEF TypeOK, MounterTypeOK, LockedPcs
<1>7. \A u \in Unmounters : unmounter'[u] = unmounter[u] /\ (unmounter[u].pc \in Busy => unmounter[u].mp # Nil)
  BY <1>1 DEF TypeOK, UnmounterTypeOK, Busy
<1>. QED
  BY <1>2, <1>3, <1>4, <1>5, <1>6, <1>7, Concludes

-----------------------------------------------------------------------------
LEMMA NodeInit == Init => NodeInv
<1>. SUFFICES ASSUME Init PROVE NodeInv
  OBVIOUS
<1>. USE DEF Init, HostInit, MounterInit, UnmounterInit
<1>1. HostTypeOK
  <2>1. bound \in [Targets -> Seq(MountType)]
    OBVIOUS
  <2>. QED
    BY <2>1, HostAssumption DEF HostTypeOK, SourceStates, ProcStates, PodStates, NoFiles
<1>2. MounterTypeOK
  BY CallsAssumption DEF MounterTypeOK, NoCall, CallType
<1>3. UnmounterTypeOK
  BY DEF UnmounterTypeOK, UnmounterIdle
<1>4. restarts \in 0..MaxRestarts
  BY RestartsAssumption
<1>5. Exclusive
  BY DEF Exclusive, NoCall, UnmounterIdle, LockedPcs
<1>6. NoAbandonedMount
  BY DEF NoAbandonedMount
<1>7. ASSUME NEW p \in MountpointPods PROVE PodInv(p)
  <2>1. \A m : ~In(bound, m)
    BY DEF In
  <2>2. ~Live(p) /\ ~Bare(p)
    BY <1>1, <2>1, LiveIn DEF Live, Bare, HostTypeOK
  <2>. QED
    BY <2>2 DEF PodInv
<1>8. \A c \in Calls : CallInv(c)
  BY DEF CallInv, NoCall, LockedPcs
<1>9. \A u \in Unmounters : UnmounterInv(u)
  BY DEF UnmounterInv, UnmounterIdle
<1>. QED
  BY <1>1, <1>2, <1>3, <1>4, <1>5, <1>6, <1>7, <1>8, <1>9 DEF NodeInv, TypeOK

-----------------------------------------------------------------------------
(* The steps of a call that does not hold the lock *)
LEMMA PublishVolumeKeeps ==
    ASSUME NodeInv, NEW c \in Calls, NEW t \in Targets, PublishVolume(c, t), UNCHANGED <<unmounter, restarts>>
    PROVE  NodeInv'
<1>. DEFINE b == TargetState(t) = "served"
            r == [NoCall EXCEPT !.pc = "attachment", !.target = t, !.isTarget = b]
            x == IF TargetState(t) = "corrupted" THEN Tail(bound[t]) ELSE bound[t]
<1>1. MounterTypeOK /\ HostTypeOK /\ call[c].pc = "idle"
  BY DEF NodeInv, TypeOK, PublishVolume, MayCall
<1>2. x = bound[t] \/ (bound[t] # <<>> /\ x = Tail(bound[t]))
  BY DEF TargetState
<1>3. /\ Mounts(source, [bound EXCEPT ![t] = x]) /\ UNCHANGED <<files, pod, podSeen, crashes, deletions>>
      /\ call' = [call EXCEPT ![c] = r] /\ UNCHANGED <<workload, attachment, expiries>>
  <2>1. [bound EXCEPT ![t] = x] = [bound EXCEPT ![t] = IF TargetState(t) = "corrupted" THEN Tail(@) ELSE @]
    OBVIOUS
  <2>. QED
    BY <2>1 DEF PublishVolume
<1>4. b \in BOOLEAN
  OBVIOUS
<1>. HIDE DEF b, x
<1>5. r \in CallType /\ r.pc = "attachment" /\ r.target = t
  BY <1>4 DEF NoCall, CallType
<1>. HIDE DEF r
<1>6. CallOK(r)
  <2>1. t # Nil
    BY HostAssumption
  <2>. QED
    BY <1>5, <2>1 DEF CallOK
<1>7. /\ MounterTypeOK' /\ call'[c] = r /\ \A d \in Calls \ {c} : call'[d] = call[d]
  BY <1>1, <1>3, <1>6, SetCall DEF MounterTypeOK
<1>8. HostTypeOK' /\ \A q \in MountpointPods : Still(q)
  BY <1>2, <1>3, TargetUnmounted
<1>9. CallInv(c)'
  BY <1>5, <1>7 DEF CallInv, LockedPcs
<1>. QED
  BY <1>1, <1>5, <1>7, <1>8, <1>9, CallWaits DEF LockedPcs

LEMMA GetS3PodAttachmentKeeps ==
    ASSUME NodeInv, NEW c \in Calls, GetS3PodAttachment(c), UNCHANGED <<unmounter, restarts>>
    PROVE  NodeInv'
<1>1. MounterTypeOK /\ HostTypeOK /\ call[c].pc = "attachment" /\ UNCHANGED <<workload, attachment, expiries>>
  BY DEF NodeInv, TypeOK, GetS3PodAttachment
<1>2. HostTypeOK' /\ \A q \in MountpointPods : Still(q)
  BY <1>1, HostStill DEF GetS3PodAttachment
<1>3. CASE Return(c)
  <2>1. /\ MounterTypeOK' /\ \A d \in Calls \ {c} : call'[d] = call[d]
        /\ call'[c].pc = "idle" /\ CallInv(c)'
    BY <1>1, <1>3, ReturnSets DEF MounterTypeOK
  <2>. QED
    BY <1>1, <1>2, <2>1, CallWaits DEF LockedPcs
<1>4. CASE /\ attachment[call[c].target] # Nil
           /\ call' = [call EXCEPT ![c].pc = "pod", ![c].mp = attachment[call[c].target]]
  <2>. DEFINE p == attachment[call[c].target]
              r == [call[c] EXCEPT !.pc = "pod", !.mp = p]
  <2>1. CallOK(call[c]) /\ call[c] \in CallType /\ call[c].target # Nil /\ call[c].target \in Targets
    BY <1>1, CallIsOK DEF CallOK, CallType
  <2>2. p \in MountpointPods /\ p # Nil
    BY <1>1, <1>4, <2>1 DEF MounterTypeOK
  <2>3. call' = [call EXCEPT ![c] = r]
    BY <1>4
  <2>. HIDE DEF p
  <2>4. r \in CallType /\ r.pc = "pod" /\ r.target = call[c].target /\ r.mp = p
    BY <2>1, <2>2 DEF CallType
  <2>. HIDE DEF r
  <2>5. CallOK(r)
    BY <2>1, <2>2, <2>4 DEF CallOK
  <2>6. /\ MounterTypeOK' /\ call'[c] = r /\ \A d \in Calls \ {c} : call'[d] = call[d]
    BY <1>1, <2>3, <2>5, SetCall DEF MounterTypeOK
  <2>7. CallInv(c)'
    BY <2>4, <2>6 DEF CallInv, LockedPcs
  <2>. QED
    BY <1>1, <1>2, <2>4, <2>6, <2>7, CallWaits DEF LockedPcs
<1>. QED
  BY <1>3, <1>4 DEF GetS3PodAttachment

LEMMA WaitForMountpointPodKeeps ==
    ASSUME NodeInv, NEW c \in Calls, WaitForMountpointPod(c), UNCHANGED <<unmounter, restarts>>
    PROVE  NodeInv'
<1>1. MounterTypeOK /\ HostTypeOK /\ call[c].pc = "pod" /\ UNCHANGED <<workload, attachment, expiries>>
  BY DEF NodeInv, TypeOK, WaitForMountpointPod
<1>2. HostTypeOK' /\ \A q \in MountpointPods : Still(q)
  BY <1>1, HostStill DEF WaitForMountpointPod
<1>3. CASE Return(c)
  <2>1. /\ MounterTypeOK' /\ \A d \in Calls \ {c} : call'[d] = call[d]
        /\ call'[c].pc = "idle" /\ CallInv(c)'
    BY <1>1, <1>3, ReturnSets DEF MounterTypeOK
  <2>. QED
    BY <1>1, <1>2, <2>1, CallWaits DEF LockedPcs
<1>4. CASE IsReady(podSeen[call[c].mp]) /\ Goto(c, "lock")
  <2>1. /\ MounterTypeOK' /\ \A d \in Calls \ {c} : call'[d] = call[d]
        /\ call'[c].pc = "lock" /\ call'[c].mp = call[c].mp
    BY <1>1, <1>4, GotoSets
  <2>2. Seen(call[c].mp)'
    BY <1>4, <2>1 DEF Seen, IsReady, WaitForMountpointPod, hostVars
  <2>3. CallInv(c)'
    BY <2>1, <2>2 DEF CallInv, Seen
  <2>. QED
    BY <1>1, <1>2, <2>1, <2>3, CallWaits DEF LockedPcs
<1>. QED
  BY <1>3, <1>4 DEF WaitForMountpointPod

LEMMA UnpublishVolumeKeeps ==
    ASSUME NodeInv, NEW c \in Calls, NEW t \in Targets, UnpublishVolume(c, t), UNCHANGED <<unmounter, restarts>>
    PROVE  NodeInv'
<1>1. MounterTypeOK /\ HostTypeOK /\ call[c].pc = "idle" /\ CallInv(c) /\ UNCHANGED <<attachment, expiries>>
  BY DEF NodeInv, TypeOK, UnpublishVolume, MayCall
<1>2. HostTypeOK' /\ \A q \in MountpointPods : Still(q)
  BY <1>1, HostStill DEF UnpublishVolume
<1>3. CASE workload' = [workload EXCEPT ![t] = "unpublished"] /\ call' = call
  <2>1. MounterTypeOK'
    BY <1>1, <1>3 DEF MounterTypeOK
  <2>2. CallInv(c)'
    BY <1>1, <1>3 DEF CallInv, LockedPcs
  <2>. QED
    BY <1>1, <1>2, <1>3, <2>1, <2>2, CallWaits DEF LockedPcs
<1>4. CASE /\ call' = [call EXCEPT ![c] = [NoCall EXCEPT !.pc = "unmount", !.target = t]]
           /\ workload' = workload
  <2>. DEFINE r == [NoCall EXCEPT !.pc = "unmount", !.target = t]
  <2>1. r \in CallType /\ r.pc = "unmount" /\ r.target = t
    BY DEF NoCall, CallType
  <2>. HIDE DEF r
  <2>2. CallOK(r)
    BY <2>1, HostAssumption DEF CallOK
  <2>3. /\ MounterTypeOK' /\ call'[c] = r /\ \A d \in Calls \ {c} : call'[d] = call[d]
    BY <1>1, <1>4, <2>2, SetCall DEF MounterTypeOK, r
  <2>4. CallInv(c)'
    BY <2>1, <2>3 DEF CallInv, LockedPcs
  <2>. QED
    BY <1>1, <1>2, <2>1, <2>3, <2>4, CallWaits DEF LockedPcs
<1>. QED
  BY <1>3, <1>4 DEF UnpublishVolume

LEMMA UnmountTargetKeeps ==
    ASSUME NodeInv, NEW c \in Calls, UnmountTarget(c), UNCHANGED <<unmounter, restarts>>
    PROVE  NodeInv'
<1>. DEFINE t == call[c].target
            x == IF bound[t] = <<>> THEN bound[t] ELSE Tail(bound[t])
<1>1. MounterTypeOK /\ HostTypeOK /\ call[c].pc = "unmount" /\ Return(c) /\ UNCHANGED <<attachment, expiries>>
  BY DEF NodeInv, TypeOK, UnmountTarget
<1>2. t \in Targets
  BY <1>1 DEF MounterTypeOK, CallType
<1>3. Mounts(source, [bound EXCEPT ![t] = x]) /\ UNCHANGED <<files, pod, podSeen, crashes, deletions>>
  <2>1. [bound EXCEPT ![t] = x] = [bound EXCEPT ![t] = IF @ = <<>> THEN @ ELSE Tail(@)]
    OBVIOUS
  <2>. QED
    BY <2>1 DEF UnmountTarget
<1>4. x = bound[t] \/ (bound[t] # <<>> /\ x = Tail(bound[t]))
  OBVIOUS
<1>5. workload' \in [Targets -> {"none", "wanted", "terminated", "unpublished"}]
  BY <1>1, <1>2 DEF UnmountTarget, MounterTypeOK
<1>. HIDE DEF t, x
<1>6. /\ MounterTypeOK' /\ \A d \in Calls \ {c} : call'[d] = call[d]
      /\ call'[c].pc = "idle" /\ CallInv(c)'
  BY <1>1, <1>5, ReturnSets
<1>7. HostTypeOK' /\ \A q \in MountpointPods : Still(q)
  BY <1>2, <1>3, <1>4, TargetUnmounted
<1>. QED
  BY <1>1, <1>6, <1>7, CallWaits DEF LockedPcs

(* A call that got the lock is its only holder. *)
LEMMA LockMountpointPodKeeps ==
    ASSUME NodeInv, NEW c \in Calls, LockMountpointPod(c, Free(call[c].mp)), UNCHANGED <<unmounter, restarts>>
    PROVE  NodeInv'
<1>1. /\ TypeOK /\ MounterTypeOK /\ HostTypeOK /\ Exclusive /\ call[c].pc = "lock" /\ Free(call[c].mp) /\ CallInv(c)
      /\ Goto(c, "source") /\ UNCHANGED <<hostVars, workload, attachment, expiries>>
  BY DEF NodeInv, TypeOK, LockMountpointPod
<1>2. HostTypeOK' /\ \A q \in MountpointPods : Still(q)
  BY <1>1, HostStill
<1>3. /\ MounterTypeOK' /\ \A d \in Calls \ {c} : call'[d] = call[d]
      /\ call'[c].pc = "source" /\ call'[c].mp = call[c].mp
  BY <1>1, GotoSets DEF LockedPcs
<1>4. TypeOK'
  BY <1>1, <1>2, <1>3 DEF TypeOK, UnmounterTypeOK
<1>5. Exclusive'
  <2>1. \A d \in Calls : call[d].mp = call[c].mp => call[d].pc \notin LockedPcs
    BY <1>1 DEF Free, LockedCalls, LockedPcs
  <2>2. \A u \in Unmounters : ~(unmounter[u].locked /\ unmounter[u].mp = call[c].mp)
    BY <1>1 DEF Free, LockedUnmounters
  <2>. QED
    BY <1>1, <1>3, <2>1, <2>2 DEF Exclusive
<1>6. CallInv(c)'
  <2>1. Seen(call[c].mp)'
    BY <1>1, <1>3 DEF CallInv, Seen, hostVars
  <2>. QED
    BY <1>3, <2>1 DEF CallInv, Seen, LockedPcs
<1>7. \A q \in MountpointPods : NodeHoldsFd(q) => NodeHoldsFd(q)'
  BY <1>1, <1>3 DEF NodeHoldsFd
<1>8. \A d \in Calls : \/ CallInv(d)'
                       \/ call'[d] = call[d] /\ (call[d].pc \in LockedPcs => call[d].mp # Nil)
  BY <1>1, <1>3, <1>6 DEF MounterTypeOK, LockedPcs
<1>9. \A u \in Unmounters : unmounter'[u] = unmounter[u] /\ (unmounter[u].pc \in Busy => unmounter[u].mp # Nil)
  BY <1>1 DEF TypeOK, UnmounterTypeOK, Busy
<1>. QED
  BY <1>2, <1>4, <1>5, <1>7, <1>8, <1>9, Concludes, HostAssumption

(* The kubelet's deadline changes nothing of what a call does or holds. *)
LEMMA ExpireKeeps ==
    ASSUME NodeInv, NEW c \in Calls, Expire(c), UNCHANGED <<unmounter, restarts>>
    PROVE  NodeInv'
<1>. DEFINE r == [call[c] EXCEPT !.expired = TRUE]
            p == call[c].mp
<1>1. /\ MounterTypeOK /\ HostTypeOK /\ CallInv(c) /\ NoAbandonedMount /\ \A q \in MountpointPods : PodInv(q)
      /\ call[c].pc # "idle" /\ expiries < MaxExpiries
      /\ expiries' = expiries + 1 /\ call' = [call EXCEPT ![c] = r] /\ UNCHANGED <<hostVars, workload, attachment>>
  BY DEF NodeInv, TypeOK, Expire
<1>2. /\ HostTypeOK' /\ \A q \in MountpointPods : Still(q)
      /\ \A q \in MountpointPods : PodInv(q)'
  BY <1>1, HostStill
<1>3. CallOK(call[c]) /\ call[c] \in CallType
  BY <1>1, CallIsOK DEF CallOK
<1>4. /\ r \in CallType /\ r.pc = call[c].pc /\ r.mp = p /\ r.target = call[c].target
      /\ r.isSource = call[c].isSource
  BY <1>3 DEF CallType
<1>. HIDE DEF r
<1>5. CallOK(r)
  BY <1>1, <1>3, <1>4 DEF CallOK
<1>6. expiries' \in 0..MaxExpiries
  BY <1>1, CallsAssumption DEF MounterTypeOK
<1>7. /\ MounterTypeOK' /\ call'[c] = r /\ \A d \in Calls \ {c} : call'[d] = call[d]
  BY <1>1, <1>5, <1>6, SetCall DEF MounterTypeOK
<1>8. CallInv(c)'
  BY <1>1, <1>4, <1>7 DEF CallInv, hostVars, Seen
<1>9. CASE call[c].pc \in LockedPcs
  <2>1. p \in MountpointPods
    BY <1>1, <1>3, <1>9 DEF CallType, CallOK, LockedPcs
  <2>2. NoAbandoned(p)' /\ (Seen(p) => Seen(p)') /\ pod'[p] = pod[p] /\ PodInv(p)'
    <3>1. NodeHoldsFd(p) => NodeHoldsFd(p)'
      BY <1>4, <1>7 DEF NodeHoldsFd
    <3>2. p' = p
      BY <1>4, <1>7
    <3>. HIDE DEF p
    <3>. QED
      BY <1>1, <1>2, <2>1, <3>1, <3>2 DEF NoAbandonedMount, NoAbandoned, hostVars, Seen, PodInv, Live, Bare
  <2>. QED
    BY <1>2, <1>4, <1>7, <1>8, <1>9, <2>2, CallActs
<1>10. CASE call[c].pc \notin LockedPcs
  BY <1>2, <1>4, <1>7, <1>8, <1>10, CallWaits
<1>. QED
  BY <1>9, <1>10

-----------------------------------------------------------------------------
(* Workloads come and go, and the controller attaches and annotates: the calls  *)
(* stay where they are.                                                         *)
LEMMA WorkloadKeeps ==
    ASSUME NodeInv, UNCHANGED <<hostVars, call, expiries, unmounter, restarts>>,
           workload' \in [Targets -> {"none", "wanted", "terminated", "unpublished"}],
           attachment' \in [Targets -> MountpointPods \cup {Nil}]
    PROVE  NodeInv'
<1>1. MounterTypeOK /\ HostTypeOK /\ TypeOK /\ Exclusive
  BY DEF NodeInv, TypeOK
<1>2. HostTypeOK' /\ \A q \in MountpointPods : Still(q)
  BY <1>1, HostStill
<1>3. TypeOK'
  BY <1>1, <1>2 DEF TypeOK, MounterTypeOK, UnmounterTypeOK
<1>4. Exclusive'
  BY <1>1, ExclusiveKept
<1>5. \A q \in MountpointPods : NodeHoldsFd(q) => NodeHoldsFd(q)'
  BY DEF NodeHoldsFd
<1>6. \A d \in Calls : call'[d] = call[d] /\ (call[d].pc \in LockedPcs => call[d].mp # Nil)
  BY <1>1 DEF MounterTypeOK, LockedPcs
<1>7. \A u \in Unmounters : unmounter'[u] = unmounter[u] /\ (unmounter[u].pc \in Busy => unmounter[u].mp # Nil)
  BY <1>1 DEF TypeOK, UnmounterTypeOK, Busy
<1>. QED
  BY <1>2, <1>3, <1>4, <1>5, <1>6, <1>7, Concludes, HostAssumption

(* Only the annotation is new: a Pod that runs is not gone, and is not annotated *)
(* into anything that is.                                                        *)
LEMMA ControllerAnnotatesKeeps ==
    ASSUME NodeInv, NEW p \in MountpointPods, ControllerAnnotates(p), UNCHANGED <<unmounter, restarts>>
    PROVE  NodeInv'
<1>1. /\ TypeOK /\ MounterTypeOK /\ HostTypeOK /\ Exclusive /\ NoAbandonedMount /\ PodInv(p)
      /\ \A c \in Calls : CallInv(c)
      /\ \A u \in Unmounters : UnmounterInv(u)
      /\ pod[p] = "running" /\ pod' = [pod EXCEPT ![p] = "annotated"]
      /\ UNCHANGED <<source, bound, proc, files, podSeen, crashes, deletions, workload, attachment, call, expiries>>
  BY DEF NodeInv, TypeOK, ControllerAnnotates, mounterVars
<1>2. pod' \in [MountpointPods -> PodStates] /\ pod'[p] = "annotated"
      /\ \A q \in MountpointPods \ {p} : pod'[q] = pod[q]
  BY <1>1 DEF HostTypeOK, PodStates
<1>3. TypeOK'
  BY <1>1, <1>2 DEF TypeOK, HostTypeOK, MounterTypeOK, UnmounterTypeOK
<1>4. Exclusive'
  BY <1>1, ExclusiveKept
<1>5. \A q \in MountpointPods : /\ Live(q)' = Live(q) /\ Bare(q)' = Bare(q)
                                /\ NodeHoldsFd(q)' = NodeHoldsFd(q) /\ Seen(q)' = Seen(q)
  BY <1>1, <1>2 DEF Live, Bare, NodeHoldsFd, Seen
<1>6. \A q \in MountpointPods \ {p} : Still(q)
  BY <1>1, <1>2, <1>5 DEF Still
<1>7. PodInv(p)' /\ NoAbandoned(p)'
  BY <1>1, <1>2, <1>5 DEF PodInv, NoAbandonedMount, NoAbandoned
<1>8. ASSUME NEW c \in Calls, call[c].mp = p PROVE CallInv(c)'
  BY <1>1, <1>2, <1>5, <1>8 DEF CallInv
<1>9. ASSUME NEW u \in Unmounters, unmounter[u].mp = p PROVE UnmounterInv(u)'
  <2>1. unmounter[u].entries \subseteq MountpointPods /\ unmounter'[u] = unmounter[u]
    BY <1>1 DEF TypeOK, UnmounterTypeOK
  <2>. QED
    BY <1>1, <1>2, <1>5, <1>9, <2>1 DEF UnmounterInv
<1>. QED
  BY <1>1, <1>3, <1>4, <1>5, <1>6, <1>7, <1>8, <1>9, Concludes

-----------------------------------------------------------------------------
(* The steps of a call that holds the lock *)
LEMMA LockedCall ==
    ASSUME NodeInv, NEW c \in Calls, call[c].pc \in LockedPcs
    PROVE  /\ HostTypeOK /\ MounterTypeOK /\ call[c].mp \in MountpointPods /\ call[c].target \in Targets
           /\ PodInv(call[c].mp) /\ NoAbandoned(call[c].mp) /\ CallInv(c) /\ Seen(call[c].mp)
<1>1. HostTypeOK /\ MounterTypeOK /\ NoAbandonedMount /\ CallInv(c) /\ \A q \in MountpointPods : PodInv(q)
  BY DEF NodeInv, TypeOK
<1>2. call[c].mp \in MountpointPods /\ call[c].target \in Targets
  BY <1>1 DEF MounterTypeOK, CallType, LockedPcs
<1>. QED
  BY <1>1, <1>2 DEF CallInv, NoAbandonedMount, NoAbandoned

(* Only the files of p change. *)
LEMMA FilesWritten ==
    ASSUME HostTypeOK, NEW p \in MountpointPods, NEW f \in [exit : BOOLEAN, err : BOOLEAN, creds : BOOLEAN],
           files' = [files EXCEPT ![p] = f], UNCHANGED <<source, bound, proc, pod, podSeen, crashes, deletions>>
    PROVE  /\ HostTypeOK' /\ files'[p] = f /\ \A q \in MountpointPods \ {p} : Still(q)
           /\ Live(p)' = Live(p) /\ Bare(p)' = Bare(p) /\ Seen(p)' = Seen(p)
BY DEF HostTypeOK, Still, Live, Bare, Seen

LEMMA CheckSourceKeeps ==
    ASSUME NodeInv, NEW c \in Calls, CheckSource(c), UNCHANGED <<unmounter, restarts>>
    PROVE  NodeInv'
<1>. DEFINE p == call[c].mp
            b == source[p] = "served"
            s == IF b THEN "served" ELSE "dir"
            r == [call[c] EXCEPT !.pc = "credentials", !.isSource = b]
<1>1. /\ call[c].pc = "source" /\ call[c].pc \in LockedPcs /\ source[p] # "pending"
      /\ call' = [call EXCEPT ![c] = r] /\ UNCHANGED <<workload, attachment, expiries>>
      /\ UNCHANGED <<files, pod, podSeen, crashes, deletions>>
  BY DEF CheckSource, LockedPcs
<1>2. /\ HostTypeOK /\ MounterTypeOK /\ p \in MountpointPods /\ PodInv(p) /\ CallInv(c) /\ Seen(p)
  BY <1>1, LockedCall
<1>3. Mounts([source EXCEPT ![p] = s], bound)
  <2>1. [source EXCEPT ![p] = s] = [source EXCEPT ![p] = IF @ = "served" THEN @ ELSE "dir"]
    OBVIOUS
  <2>. QED
    BY <2>1 DEF CheckSource
<1>4. b \in BOOLEAN /\ s \in SourceStates /\ (b => s = "served") /\ (~b => s = "dir") /\ (s = "served" <=> b)
  BY DEF SourceStates
<1>5. call[c] \in CallType /\ CallOK(call[c])
  BY <1>2, CallIsOK DEF CallOK
<1>6. b <=> source[p] = "served"
  OBVIOUS
<1>. HIDE DEF b, s
<1>7. r \in CallType /\ r.pc = "credentials" /\ r.mp = p /\ r.isSource = b /\ r.target = call[c].target
  BY <1>4, <1>5 DEF CallType
<1>. HIDE DEF r
<1>8. CallOK(r)
  BY <1>1, <1>5, <1>7 DEF CallOK
<1>9. /\ MounterTypeOK' /\ call'[c] = r /\ \A d \in Calls \ {c} : call'[d] = call[d]
  BY <1>1, <1>2, <1>8, SetCall DEF MounterTypeOK
<1>10. p' = p
  BY <1>7, <1>9
<1>. HIDE DEF p
<1>11. /\ HostTypeOK' /\ \A q \in MountpointPods \ {p} : Still(q)
       /\ source'[p] = s /\ proc'[p] = proc[p]
       /\ Live(p)' = Live(p) /\ Bare(p)' = Bare(p) /\ Seen(p)' = Seen(p)
  <2>1. ~(proc[p] \in {"starting", "serving"} /\ s \notin {"pending", "served"})
    BY <1>1, <1>2, <1>4, <1>6 DEF PodInv
  <2>. QED
    BY <1>1, <1>2, <1>3, <1>4, <1>10, <2>1, SourceMounted
<1>12. PodInv(p)' /\ NoAbandoned(p)' /\ pod'[p] = pod[p]
  BY <1>1, <1>2, <1>4, <1>6, <1>10, <1>11 DEF PodInv, NoAbandoned
<1>13. CallInv(c)'
  BY <1>2, <1>4, <1>7, <1>9, <1>10, <1>11 DEF CallInv
<1>. QED
  BY <1>1, <1>2, <1>7, <1>9, <1>10, <1>11, <1>12, <1>13, CallActs DEF p

LEMMA ProvideCredentialsKeeps ==
    ASSUME NodeInv, NEW c \in Calls, ProvideCredentials(c), UNCHANGED <<unmounter, restarts>>
    PROVE  NodeInv'
<1>0. PICK p : p = call[c].mp
  OBVIOUS
<1>1. /\ call[c].pc = "credentials" /\ call[c].pc \in LockedPcs /\ UNCHANGED <<workload, attachment, expiries>>
      /\ UNCHANGED <<source, bound, proc, pod, podSeen, crashes, deletions>>
  BY DEF ProvideCredentials, LockedPcs
<1>2. /\ HostTypeOK /\ MounterTypeOK /\ p \in MountpointPods /\ PodInv(p) /\ CallInv(c) /\ Seen(p)
      /\ source[p] # "pending"
  BY <1>0, <1>1, LockedCall DEF CallInv
<1>3. NoAbandoned(p)'
  BY <1>1, <1>2 DEF NoAbandoned
<1>4. CASE /\ pod[p] # "gone" /\ files' = [files EXCEPT ![p].creds = TRUE]
           /\ Goto(c, IF call[c].isSource THEN "bind" ELSE "mount")
  <2>. DEFINE pc == IF call[c].isSource THEN "bind" ELSE "mount"
              f == [files[p] EXCEPT !.creds = TRUE]
  <2>1. pc \in {"bind", "mount"} /\ (pc = "bind" => call[c].isSource) /\ Goto(c, pc)
    BY <1>4
  <2>2. /\ f \in [exit : BOOLEAN, err : BOOLEAN, creds : BOOLEAN] /\ f.creds = TRUE
        /\ files' = [files EXCEPT ![p] = f]
    BY <1>2, <1>4 DEF HostTypeOK
  <2>. HIDE DEF pc, f
  <2>3. /\ MounterTypeOK' /\ \A d \in Calls \ {c} : call'[d] = call[d]
        /\ call'[c].pc = pc /\ call'[c].mp = p
    BY <1>0, <1>1, <1>2, <2>1, GotoSets DEF LockedPcs
  <2>4. /\ HostTypeOK' /\ files'[p] = f /\ \A q \in MountpointPods \ {p} : Still(q)
        /\ Live(p)' = Live(p) /\ Bare(p)' = Bare(p) /\ Seen(p)' = Seen(p)
    BY <1>1, <1>2, <2>2, FilesWritten
  <2>5. PodInv(p)' /\ pod'[p] = pod[p]
    BY <1>1, <1>2, <2>2, <2>4 DEF PodInv
  <2>6. CallInv(c)'
    BY <1>0, <1>1, <1>2, <2>1, <2>2, <2>3, <2>4 DEF CallInv
  <2>. QED
    BY <1>0, <1>1, <1>2, <1>3, <2>3, <2>4, <2>5, <2>6, CallActs
<1>5. CASE Return(c) /\ files' = files
  <2>1. /\ MounterTypeOK' /\ \A d \in Calls \ {c} : call'[d] = call[d]
        /\ call'[c].pc = "idle" /\ CallInv(c)'
    BY <1>1, <1>2, <1>5, ReturnSets DEF MounterTypeOK
  <2>2. UNCHANGED hostVars
    BY <1>1, <1>5 DEF hostVars
  <2>3. /\ HostTypeOK' /\ \A q \in MountpointPods : Still(q)
        /\ PodInv(p)'
    BY <1>2, <2>2, HostStill
  <2>4. pod'[p] = pod[p] /\ (Seen(p) => Seen(p)')
    BY <1>1 DEF Seen
  <2>. QED
    BY <1>0, <1>1, <1>2, <1>3, <2>1, <2>3, <2>4, CallActs DEF LockedPcs
<1>. QED
  BY <1>0, <1>4, <1>5 DEF ProvideCredentials

LEMMA MountSyscallKeeps ==
    ASSUME NodeInv, NEW c \in Calls, MountSyscall(c), UNCHANGED <<unmounter, restarts>>
    PROVE  NodeInv'
<1>0. PICK p : p = call[c].mp
  OBVIOUS
<1>1. /\ call[c].pc = "mount" /\ call[c].pc \in LockedPcs /\ UNCHANGED <<workload, attachment, expiries>>
      /\ UNCHANGED <<bound, proc, pod, podSeen, crashes, deletions>>
  BY DEF MountSyscall, LockedPcs
<1>2. /\ HostTypeOK /\ MounterTypeOK /\ p \in MountpointPods /\ PodInv(p) /\ CallInv(c) /\ Seen(p)
      /\ NoAbandoned(p)
  BY <1>0, <1>1, LockedCall
<1>3. CASE /\ source[p] = "dir" /\ source' = [source EXCEPT ![p] = "pending"]
           /\ files' = [files EXCEPT ![p].err = FALSE] /\ Goto(c, "send")
  <2>1. /\ source' \in [MountpointPods -> SourceStates] /\ source'[p] = "pending"
        /\ \A q \in MountpointPods \ {p} : source'[q] = source[q]
    BY <1>2, <1>3 DEF HostTypeOK, SourceStates
  <2>2. /\ files' \in [MountpointPods -> [exit : BOOLEAN, err : BOOLEAN, creds : BOOLEAN]]
        /\ files'[p].err = FALSE /\ files'[p].creds = files[p].creds
        /\ \A q \in MountpointPods \ {p} : files'[q] = files[q]
    BY <1>2, <1>3 DEF HostTypeOK
  <2>3. /\ MounterTypeOK' /\ \A d \in Calls \ {c} : call'[d] = call[d]
        /\ call'[c].pc = "send" /\ call'[c].mp = p
    BY <1>0, <1>1, <1>2, <1>3, GotoSets DEF LockedPcs
  <2>4. HostTypeOK'
    BY <1>1, <1>2, <2>1, <2>2 DEF HostTypeOK
  <2>5. \A q \in MountpointPods : Live(q)' = Live(q) /\ Bare(q)' = Bare(q) /\ Seen(q)' = Seen(q)
    BY <1>1 DEF Live, Bare, Seen
  <2>6. \A q \in MountpointPods \ {p} : Still(q)
    BY <1>1, <2>1, <2>2, <2>5 DEF Still
  <2>7. PodInv(p)' /\ pod'[p] = pod[p]
    BY <1>1, <1>2, <1>3, <2>1, <2>2, <2>5 DEF PodInv
  <2>8. NoAbandoned(p)'
    BY <2>3 DEF NoAbandoned, NodeHoldsFd
  <2>9. CallInv(c)'
    BY <1>0, <1>1, <1>2, <1>3, <2>1, <2>2, <2>3, <2>5 DEF CallInv, PodInv, LockedPcs
  <2>. QED
    BY <1>0, <1>1, <1>2, <2>3, <2>4, <2>5, <2>6, <2>7, <2>8, <2>9, CallActs
<1>4. CASE source[p] = "absent" /\ Return(c) /\ UNCHANGED <<source, files>>
  <2>1. /\ MounterTypeOK' /\ \A d \in Calls \ {c} : call'[d] = call[d]
        /\ call'[c].pc = "idle" /\ CallInv(c)'
    BY <1>1, <1>2, <1>4, ReturnSets DEF MounterTypeOK
  <2>2. UNCHANGED hostVars
    BY <1>1, <1>4 DEF hostVars
  <2>3. /\ HostTypeOK' /\ \A q \in MountpointPods : Still(q)
        /\ PodInv(p)'
    BY <1>2, <2>2, HostStill
  <2>4. pod'[p] = pod[p] /\ (Seen(p) => Seen(p)') /\ NoAbandoned(p)'
    BY <1>1, <1>4 DEF Seen, NoAbandoned
  <2>. QED
    BY <1>0, <1>1, <1>2, <2>1, <2>3, <2>4, CallActs DEF LockedPcs
<1>. QED
  BY <1>0, <1>3, <1>4 DEF MountSyscall

(* A call that gives up after the mount syscall: the process it may have started *)
(* is gone, and so is the mount.                                                 *)
LEMMA FailMountKeeps ==
    ASSUME NodeInv, NEW c \in Calls, call[c].pc \in LockedPcs, FailMount(c), UNCHANGED <<unmounter, restarts>>,
           proc[call[c].mp] \notin {"starting", "serving"},
           UNCHANGED <<files, pod, podSeen, crashes, deletions, workload, attachment, expiries>>
    PROVE  NodeInv'
<1>0. PICK p : p = call[c].mp
  OBVIOUS
<1>1. /\ HostTypeOK /\ MounterTypeOK /\ p \in MountpointPods /\ PodInv(p) /\ CallInv(c) /\ Seen(p)
  BY <1>0, LockedCall
<1>. DEFINE s == IF source[p] = "absent" THEN "absent" ELSE "dir"
<1>2. s \in SourceStates /\ s \in {"absent", "dir"} /\ Mounts([source EXCEPT ![p] = s], bound) /\ Return(c)
  BY <1>0 DEF FailMount, SourceStates
<1>. HIDE DEF s
<1>3. /\ MounterTypeOK' /\ \A d \in Calls \ {c} : call'[d] = call[d]
      /\ call'[c].pc = "idle" /\ CallInv(c)'
  BY <1>1, <1>2, ReturnSets DEF MounterTypeOK
<1>4. /\ HostTypeOK' /\ \A q \in MountpointPods \ {p} : Still(q)
      /\ source'[p] = s /\ proc'[p] = proc[p]
      /\ Live(p)' = Live(p) /\ Bare(p)' = Bare(p) /\ Seen(p)' = Seen(p)
  BY <1>0, <1>1, <1>2, SourceMounted
<1>5. PodInv(p)' /\ NoAbandoned(p)' /\ pod'[p] = pod[p]
  BY <1>0, <1>1, <1>2, <1>4 DEF PodInv, NoAbandoned
<1>. QED
  BY <1>0, <1>3, <1>4, <1>5, CallActs DEF LockedPcs

LEMMA SendMountOptionsKeeps ==
    ASSUME NodeInv, NEW c \in Calls, SendMountOptions(c), UNCHANGED <<unmounter, restarts>>
    PROVE  NodeInv'
<1>0. PICK p : p = call[c].mp
  OBVIOUS
<1>1. /\ call[c].pc = "send" /\ call[c].pc \in LockedPcs
      /\ UNCHANGED <<files, pod, podSeen, crashes, deletions, workload, attachment, expiries>>
  BY DEF SendMountOptions, LockedPcs
<1>2. /\ HostTypeOK /\ MounterTypeOK /\ p \in MountpointPods /\ PodInv(p) /\ CallInv(c) /\ Seen(p)
      /\ NoAbandoned(p) /\ proc[p] \notin {"starting", "serving"}
  BY <1>0, <1>1, LockedCall DEF CallInv
<1>3. CASE FailMount(c)
  BY <1>0, <1>1, <1>2, <1>3, FailMountKeeps
<1>4. CASE /\ proc[p] = "listening" /\ proc' = [proc EXCEPT ![p] = "starting"]
           /\ Goto(c, "wait") /\ UNCHANGED <<source, bound>>
  <2>1. /\ proc' \in [MountpointPods -> ProcStates] /\ proc'[p] = "starting"
        /\ \A q \in MountpointPods \ {p} : proc'[q] = proc[q]
    BY <1>2, <1>4 DEF HostTypeOK, ProcStates
  <2>2. HostTypeOK'
    BY <1>1, <1>2, <1>4, <2>1 DEF HostTypeOK
  <2>3. /\ MounterTypeOK' /\ \A d \in Calls \ {c} : call'[d] = call[d]
        /\ call'[c].pc = "wait" /\ call'[c].mp = p
    BY <1>0, <1>1, <1>2, <1>4, GotoSets DEF LockedPcs
  <2>4. \A q \in MountpointPods : Live(q)' = Live(q) /\ Bare(q)' = Bare(q) /\ Seen(q)' = Seen(q)
    BY <1>1, <1>4 DEF Live, Bare, Seen
  <2>5. \A q \in MountpointPods \ {p} : Still(q)
    BY <1>1, <1>4, <2>1, <2>4 DEF Still
  <2>6. source[p] = "pending" /\ pod[p] \notin {"gone", "succeeded"} /\ ~files[p].err /\ files[p].creds
    BY <1>0, <1>1, <1>2, <1>4 DEF CallInv, PodInv
  <2>7. PodInv(p)' /\ pod'[p] = pod[p] /\ NoAbandoned(p)'
    BY <1>1, <1>2, <1>4, <2>1, <2>4, <2>6 DEF PodInv, NoAbandoned
  <2>8. CallInv(c)'
    BY <1>0, <1>1, <1>2, <2>3, <2>4, <2>6 DEF CallInv
  <2>. QED
    BY <1>0, <1>1, <1>2, <2>2, <2>3, <2>4, <2>5, <2>7, <2>8, CallActs
<1>. QED
  BY <1>0, <1>3, <1>4 DEF SendMountOptions

LEMMA WaitForMountKeeps ==
    ASSUME NodeInv, NEW c \in Calls, WaitForMount(c), UNCHANGED <<unmounter, restarts>>
    PROVE  NodeInv'
<1>0. PICK p : p = call[c].mp
  OBVIOUS
<1>1. /\ call[c].pc = "wait" /\ call[c].pc \in LockedPcs
      /\ UNCHANGED <<files, pod, podSeen, crashes, deletions, workload, attachment, expiries>>
  BY DEF WaitForMount, LockedPcs
<1>2. /\ HostTypeOK /\ MounterTypeOK /\ p \in MountpointPods /\ PodInv(p) /\ CallInv(c) /\ Seen(p)
  BY <1>0, <1>1, LockedCall
<1>3. CASE FailMount(c) /\ (files[p].err \/ source[p] \notin {"pending", "served"})
  <2>1. proc[p] \notin {"starting", "serving"}
    BY <1>0, <1>1, <1>2, <1>3 DEF CallInv, PodInv
  <2>. QED
    BY <1>0, <1>1, <1>3, <2>1, FailMountKeeps
<1>4. CASE source[p] = "served" /\ Goto(c, "bind") /\ UNCHANGED <<source, bound, proc>>
  <2>1. /\ MounterTypeOK' /\ \A d \in Calls \ {c} : call'[d] = call[d]
        /\ call'[c].pc = "bind" /\ call'[c].mp = p
    BY <1>0, <1>1, <1>2, <1>4, GotoSets DEF LockedPcs
  <2>2. UNCHANGED hostVars
    BY <1>1, <1>4 DEF hostVars
  <2>3. /\ HostTypeOK' /\ \A q \in MountpointPods : Still(q)
        /\ PodInv(p)'
    BY <1>2, <2>2, HostStill
  <2>4. pod'[p] = pod[p] /\ Seen(p)' /\ NoAbandoned(p)'
    BY <1>1, <1>2, <1>4 DEF Seen, NoAbandoned
  <2>5. CallInv(c)'
    BY <1>0, <1>1, <1>2, <1>4, <2>1, <2>4 DEF CallInv
  <2>. QED
    BY <1>0, <1>1, <1>2, <2>1, <2>3, <2>4, <2>5, CallActs
<1>. QED
  BY <1>0, <1>3, <1>4 DEF WaitForMount

(* The bind mount is of a served file system whose credentials are there, or of *)
(* what is left of a Mountpoint Pod that is gone.                               *)
LEMMA BindMountKeeps ==
    ASSUME NodeInv, NEW c \in Calls, BindMount(c), UNCHANGED <<unmounter, restarts>>
    PROVE  NodeInv'
<1>. DEFINE K == [served |-> "live", pending |-> "live", corrupted |-> "dead", dir |-> "bare"]
<1>0. PICK p, t, f : p = call[c].mp /\ t = call[c].target /\ f = K[source[call[c].mp]]
  OBVIOUS
<1>. DEFINE n == [mp |-> p, fs |-> f]
<1>1. /\ call[c].pc = "bind" /\ call[c].pc \in LockedPcs /\ Return(c)
      /\ UNCHANGED <<source, proc, files, pod, podSeen, crashes, deletions, workload, attachment, expiries>>
      /\ \/ bound' = bound
         \/ source[p] # "absent" /\ bound' = [bound EXCEPT ![t] = <<n>> \o @]
  BY <1>0 DEF BindMount, LockedPcs
<1>2. /\ HostTypeOK /\ MounterTypeOK /\ p \in MountpointPods /\ PodInv(p) /\ CallInv(c) /\ Seen(p)
      /\ NoAbandoned(p) /\ t \in Targets
  BY <1>0, <1>1, LockedCall
<1>3. /\ source[p] # "pending"
      /\ source[p] \in {"served", "corrupted"} \/ pod[p] = "gone"
      /\ files[p].creds \/ pod[p] = "gone"
  BY <1>0, <1>1, <1>2 DEF CallInv
<1>4. source[p] # "absent" => source[p] \in {"served", "corrupted", "dir"}
  BY <1>2, <1>3 DEF HostTypeOK, SourceStates
<1>5. ASSUME source[p] # "absent"
      PROVE  f \in {"live", "dead", "bare"} /\ (f = "live" => source[p] = "served") /\ (f = "bare" => source[p] = "dir")
  <2>1. K["served"] = "live" /\ K["corrupted"] = "dead" /\ K["dir"] = "bare"
    OBVIOUS
  <2>. HIDE DEF K
  <2>. QED
    BY <1>0, <1>4, <1>5, <2>1
<1>. HIDE DEF K
<1>6. /\ MounterTypeOK' /\ \A d \in Calls \ {c} : call'[d] = call[d]
      /\ call'[c].pc = "idle" /\ CallInv(c)'
  BY <1>1, <1>2, ReturnSets DEF MounterTypeOK
<1>7. /\ bound' \in [Targets -> Seq(MountType)]
      /\ \A m : In(bound', m) => In(bound, m) \/ (m = n /\ source[p] # "absent")
  <2>1. CASE bound' = bound
    BY <1>2, <2>1 DEF HostTypeOK
  <2>2. CASE source[p] # "absent" /\ bound' = [bound EXCEPT ![t] = <<n>> \o @]
    <3>1. n \in MountType
      BY <1>2, <1>5, <2>2 DEF MountType
    <3>2. bound \in [Targets -> Seq(MountType)]
      BY <1>2 DEF HostTypeOK
    <3>. QED
      BY <1>2, <2>2, <3>1, <3>2, InBind
  <2>. QED
    BY <1>1, <2>1, <2>2
<1>8. HostTypeOK'
  BY <1>1, <1>2, <1>7 DEF HostTypeOK
<1>9. ASSUME NEW q \in MountpointPods PROVE
        /\ Live(q)' => Live(q) \/ (q = p /\ source[p] = "served")
        /\ Bare(q)' => Bare(q) \/ (q = p /\ source[p] = "dir")
  <2>1. bound \in [Targets -> Seq(MountType)]
    BY <1>2 DEF HostTypeOK
  <2>2. [mp |-> q, fs |-> "live"] = n => q = p /\ f = "live"
    OBVIOUS
  <2>3. [mp |-> q, fs |-> "bare"] = n => q = p /\ f = "bare"
    OBVIOUS
  <2>. HIDE DEF n
  <2>4. (Live(q)' => In(bound', [mp |-> q, fs |-> "live"])) /\ (In(bound, [mp |-> q, fs |-> "live"]) => Live(q))
    BY <1>7, <2>1, LiveIn DEF Live
  <2>5. (Bare(q)' => In(bound', [mp |-> q, fs |-> "bare"])) /\ (In(bound, [mp |-> q, fs |-> "bare"]) => Bare(q))
    BY DEF Bare, In
  <2>. QED
    BY <1>5, <1>7, <2>2, <2>3, <2>4, <2>5
<1>10. \A q \in MountpointPods \ {p} : Still(q)
  BY <1>1, <1>9 DEF Still, Seen
<1>11. PodInv(p)' /\ pod'[p] = pod[p] /\ Seen(p)'
  BY <1>1, <1>2, <1>3, <1>9 DEF PodInv, Seen
<1>12. NoAbandoned(p)'
  BY <1>1, <1>2, <1>3 DEF NoAbandoned, PodInv
<1>. QED
  BY <1>0, <1>1, <1>6, <1>8, <1>10, <1>11, <1>12, CallActs DEF LockedPcs

-----------------------------------------------------------------------------
(* A goroutine of the unmounter takes a step that changes nothing of the host. *)
LEMMA UnmounterMoves ==
    ASSUME NodeInv, NEW u \in Unmounters, UNCHANGED <<hostVars, mounterVars, restarts>>,
           UnmounterTypeOK', \A v \in Unmounters \ {u} : unmounter'[v] = unmounter[v],
           Exclusive', UnmounterInv(u)'
    PROVE  NodeInv'
<1>1. MounterTypeOK /\ HostTypeOK /\ TypeOK
  BY DEF NodeInv, TypeOK
<1>2. HostTypeOK' /\ \A q \in MountpointPods : Still(q)
  BY <1>1, HostStill
<1>3. TypeOK' /\ call' = call
  BY <1>1, <1>2 DEF TypeOK, MounterTypeOK, mounterVars
<1>4. \A q \in MountpointPods : NodeHoldsFd(q) => NodeHoldsFd(q)'
  BY <1>3 DEF NodeHoldsFd
<1>5. \A d \in Calls : call'[d] = call[d] /\ (call[d].pc \in LockedPcs => call[d].mp # Nil)
  BY <1>1, <1>3 DEF MounterTypeOK, LockedPcs
<1>6. \A v \in Unmounters : \/ UnmounterInv(v)'
                            \/ unmounter'[v] = unmounter[v] /\ (unmounter[v].pc \in Busy => unmounter[v].mp # Nil)
  BY <1>1 DEF TypeOK, UnmounterTypeOK, Busy
<1>. QED
  BY <1>2, <1>3, <1>4, <1>5, <1>6, Concludes, HostAssumption

LEMMA CleanupDanglingMountsKeeps ==
    ASSUME NodeInv, CleanupDanglingMounts, UNCHANGED <<mounterVars, restarts>>
    PROVE  NodeInv'
<1>. DEFINE u == "cleanup"
            es == {p \in MountpointPods : source[p] # "absent"}
            r == [unmounter[u] EXCEPT !.pc = "next", !.entries = es]
<1>1. /\ u \in Unmounters /\ UnmounterTypeOK /\ Exclusive /\ unmounter[u].pc = "idle"
      /\ unmounter' = [unmounter EXCEPT ![u] = r] /\ UNCHANGED hostVars /\ es \subseteq MountpointPods
  BY DEF NodeInv, TypeOK, CleanupDanglingMounts, Unmounters
<1>2. \A q \in es : Seen(q)
  BY DEF NodeInv, PodInv
<1>3. unmounter[u] \in UnmounterType /\ unmounter[u].mp = Nil /\ unmounter[u].locked = FALSE
  BY <1>1 DEF UnmounterTypeOK, UnmounterType, UnmounterIdle
<1>. HIDE DEF es, u
<1>4. /\ r \in UnmounterType /\ r.pc = "next" /\ r.entries = es /\ r.mp = Nil /\ r.locked = FALSE
  BY <1>1, <1>3 DEF UnmounterType
<1>. HIDE DEF r
<1>5. UnmounterTypeOK' /\ unmounter'[u] = r /\ \A v \in Unmounters \ {u} : unmounter'[v] = unmounter[v]
  BY <1>1, <1>4, SetUnmounter
<1>6. Exclusive'
  <2>1. call' = call
    BY DEF mounterVars
  <2>. QED
    BY <1>1, <1>4, <1>5, <2>1, ExclusiveKept
<1>7. UnmounterInv(u)'
  <2>1. \A q \in es : Seen(q)'
    BY <1>1, <1>2 DEF Seen, hostVars
  <2>. QED
    BY <1>4, <1>5, <2>1 DEF UnmounterInv, u
<1>. QED
  BY <1>1, <1>5, <1>6, <1>7, UnmounterMoves

LEMMA HandleMountpointPodUpdateKeeps ==
    ASSUME NodeInv, NEW p \in MountpointPods, HandleMountpointPodUpdate(p), UNCHANGED <<mounterVars, restarts>>
    PROVE  NodeInv'
<1>. DEFINE u == "handler"
            r == [unmounter[u] EXCEPT !.pc = "lock", !.mp = p]
<1>1. /\ u \in Unmounters /\ UnmounterTypeOK /\ Exclusive /\ unmounter[u].pc = "idle"
      /\ unmounter' = [unmounter EXCEPT ![u] = r] /\ UNCHANGED hostVars
  BY DEF NodeInv, TypeOK, HandleMountpointPodUpdate, Unmounters
<1>2. unmounter[u] \in UnmounterType /\ unmounter[u].entries = {} /\ unmounter[u].locked = FALSE
  BY <1>1 DEF UnmounterTypeOK, UnmounterType, UnmounterIdle
<1>. HIDE DEF u
<1>3. r \in UnmounterType /\ r.pc = "lock" /\ r.entries = {} /\ r.mp = p /\ r.locked = FALSE
  BY <1>2 DEF UnmounterType
<1>. HIDE DEF r
<1>4. UnmounterTypeOK' /\ unmounter'[u] = r /\ \A v \in Unmounters \ {u} : unmounter'[v] = unmounter[v]
  BY <1>1, <1>3, SetUnmounter, HostAssumption
<1>5. Exclusive'
  <2>1. call' = call
    BY DEF mounterVars
  <2>. QED
    BY <1>1, <1>3, <1>4, <2>1, ExclusiveKept
<1>6. UnmounterInv(u)'
  BY <1>3, <1>4 DEF UnmounterInv, u
<1>. QED
  BY <1>1, <1>4, <1>5, <1>6, UnmounterMoves

(* The scan works without the lock only on a Mountpoint Pod that is gone: it was *)
(* seen when its source was listed, and the informer has it no more.             *)
LEMMA NextEntryKeeps ==
    ASSUME NodeInv, NEW p \in MountpointPods, NextEntry(p), UNCHANGED <<mounterVars, restarts>>
    PROVE  NodeInv'
<1>0. PICK u : u = "cleanup"
  OBVIOUS
<1>. DEFINE rest == unmounter[u].entries \ {p}
<1>1. /\ u \in Unmounters /\ UnmounterTypeOK /\ Exclusive /\ UnmounterInv(u) /\ unmounter[u].pc = "next"
      /\ p \in unmounter[u].entries /\ UNCHANGED hostVars /\ call' = call
  BY <1>0 DEF NodeInv, TypeOK, NextEntry, Unmounters, mounterVars
<1>2. /\ unmounter[u] \in UnmounterType /\ unmounter[u].mp = Nil /\ unmounter[u].locked = FALSE
      /\ rest \subseteq MountpointPods
      /\ Seen(p) /\ \A q \in rest : Seen(q)
  BY <1>1 DEF UnmounterTypeOK, UnmounterType, UnmounterInv
<1>3. \A q \in rest : Seen(q)'
  BY <1>1, <1>2 DEF Seen, hostVars
<1>. HIDE DEF rest
<1>4. ASSUME NEW pc \in {"check", "lock"}, unmounter' = [unmounter EXCEPT ![u] = [@ EXCEPT !.pc = pc, !.mp = p, !.entries = rest]],
             pc = "check" => podSeen[p] = "gone"
      PROVE  NodeInv'
  <2>. DEFINE r == [unmounter[u] EXCEPT !.pc = pc, !.mp = p, !.entries = rest]
  <2>1. r \in UnmounterType /\ r.pc = pc /\ r.entries = rest /\ r.mp = p /\ r.locked = FALSE
    BY <1>2 DEF UnmounterType
  <2>2. unmounter' = [unmounter EXCEPT ![u] = r]
    BY <1>4
  <2>. HIDE DEF r
  <2>3. UnmounterTypeOK' /\ unmounter'[u] = r /\ \A v \in Unmounters \ {u} : unmounter'[v] = unmounter[v]
    BY <1>1, <2>1, <2>2, SetUnmounter, HostAssumption
  <2>4. Exclusive'
    BY <1>1, <2>1, <2>3, ExclusiveKept
  <2>5. pc = "check" => pod'[p] = "gone"
    BY <1>1, <1>2, <1>4 DEF Seen, hostVars
  <2>6. UnmounterInv(u)'
    BY <1>3, <2>1, <2>3, <2>5 DEF UnmounterInv
  <2>. QED
    BY <1>1, <2>3, <2>4, <2>6, UnmounterMoves
<1>5. ASSUME NEW pc \in {"idle", "next"}, pc = "idle" => rest = {},
             unmounter' = [unmounter EXCEPT ![u] = [@ EXCEPT !.pc = pc, !.entries = rest]]
      PROVE  NodeInv'
  <2>. DEFINE r == [unmounter[u] EXCEPT !.pc = pc, !.entries = rest]
  <2>1. r \in [pc : {pc}, mp : {Nil}, locked : {FALSE}, entries : {rest}]
    BY <1>2 DEF UnmounterType
  <2>2. unmounter' = [unmounter EXCEPT ![u] = r]
    BY <1>5
  <2>. HIDE DEF r
  <2>3. r = [pc |-> pc, mp |-> Nil, locked |-> FALSE, entries |-> rest]
    BY <2>1
  <2>4. /\ r \in UnmounterType /\ r.pc = pc /\ r.entries = rest /\ r.mp = Nil /\ r.locked = FALSE
        /\ r.pc = "idle" => r = UnmounterIdle
    BY <1>2, <1>5, <2>3 DEF UnmounterType, UnmounterIdle
  <2>5. UnmounterTypeOK' /\ unmounter'[u] = r /\ \A v \in Unmounters \ {u} : unmounter'[v] = unmounter[v]
    BY <1>1, <1>5, <2>2, <2>4, SetUnmounter
  <2>6. Exclusive'
    BY <1>1, <2>4, <2>5, ExclusiveKept
  <2>7. UnmounterInv(u)'
    BY <1>3, <2>4, <2>5 DEF UnmounterInv
  <2>. QED
    BY <1>1, <2>5, <2>6, <2>7, UnmounterMoves
<1>6. CASE podSeen[p] = "gone" /\ unmounter' = [unmounter EXCEPT ![u].pc = "check", ![u].mp = p, ![u].entries = rest]
  BY <1>4, <1>6
<1>7. CASE unmounter' = [unmounter EXCEPT ![u].pc = "lock", ![u].mp = p, ![u].entries = rest]
  BY <1>4, <1>7
<1>8. CASE unmounter' = [unmounter EXCEPT ![u].pc = IF rest = {} THEN "idle" ELSE "next", ![u].entries = rest]
  <2>1. CASE rest = {}
    BY <1>5, <1>8, <2>1
  <2>2. CASE rest # {}
    BY <1>5, <1>8, <2>2
  <2>. QED
    BY <2>1, <2>2
<1>. QED
  BY <1>0, <1>6, <1>7, <1>8 DEF NextEntry, rest

LEMMA UnmountMountpointPodIfNeededKeeps ==
    ASSUME NodeInv, NEW u \in Unmounters, UnmountMountpointPodIfNeeded(u, Free(unmounter[u].mp)),
           UNCHANGED <<mounterVars, restarts>>
    PROVE  NodeInv'
<1>0. PICK p : p = unmounter[u].mp
  OBVIOUS
<1>. DEFINE r == [unmounter[u] EXCEPT !.pc = "exit", !.locked = TRUE]
<1>1. /\ UnmounterTypeOK /\ Exclusive /\ UnmounterInv(u) /\ unmounter[u].pc = "lock" /\ Free(p)
      /\ unmounter' = [unmounter EXCEPT ![u] = r] /\ UNCHANGED hostVars /\ call' = call
  BY <1>0 DEF NodeInv, TypeOK, UnmountMountpointPodIfNeeded, mounterVars
<1>2. unmounter[u] \in UnmounterType /\ p # Nil
  BY <1>0, <1>1 DEF UnmounterTypeOK, UnmounterType
<1>3. r \in UnmounterType /\ r.pc = "exit" /\ r.entries = unmounter[u].entries /\ r.mp = p /\ r.locked = TRUE
  BY <1>0, <1>2 DEF UnmounterType
<1>. HIDE DEF r
<1>4. UnmounterTypeOK' /\ unmounter'[u] = r /\ \A v \in Unmounters \ {u} : unmounter'[v] = unmounter[v]
  BY <1>1, <1>2, <1>3, SetUnmounter
<1>5. Exclusive'
  <2>1. \A d \in Calls : call[d].mp = p => call[d].pc \notin LockedPcs
    BY <1>1 DEF Free, LockedCalls, LockedPcs
  <2>2. \A v \in Unmounters : ~(unmounter[v].locked /\ unmounter[v].mp = p)
    BY <1>1 DEF Free, LockedUnmounters
  <2>. QED
    BY <1>1, <1>3, <1>4, <2>1, <2>2 DEF Exclusive
<1>6. UnmounterInv(u)'
  <2>1. \A q \in unmounter[u].entries : Seen(q)'
    BY <1>1 DEF UnmounterInv, Seen, hostVars
  <2>. QED
    BY <1>3, <1>4, <2>1 DEF UnmounterInv
<1>. QED
  BY <1>1, <1>4, <1>5, <1>6, UnmounterMoves

-----------------------------------------------------------------------------
(* A goroutine of the unmounter works on its Mountpoint Pod.  With the lock it  *)
(* is alone; without it the Pod is gone, and a call in flight for that Pod may  *)
(* find its source empty.                                                       *)
LEMMA UnmounterActs ==
    ASSUME NodeInv, NEW u \in Unmounters, unmounter[u].pc \in Busy, NEW p, p = unmounter[u].mp,
           HostTypeOK', UnmounterTypeOK', UNCHANGED <<mounterVars, restarts>>,
           \A v \in Unmounters \ {u} : unmounter'[v] = unmounter[v],
           unmounter'[u].locked => unmounter[u].locked /\ unmounter'[u].mp = p,
           \A q \in MountpointPods \ {p} : Still(q),
           UNCHANGED <<pod, podSeen, bound>>,
           ~unmounter[u].locked => files'[p] = files[p],
           source'[p] \in {source[p], "dir", "absent"},
           source'[p] = source[p] => proc'[p] = proc[p],
           PodInv(p)', UnmounterInv(u)'
    PROVE  NodeInv'
<1>1. /\ TypeOK /\ MounterTypeOK /\ UnmounterTypeOK /\ Exclusive /\ NoAbandonedMount
      /\ \A q \in MountpointPods : PodInv(q)
      /\ \A c \in Calls : CallInv(c)
      /\ \A v \in Unmounters : UnmounterInv(v)
  BY DEF NodeInv, TypeOK
<1>2. p \in MountpointPods /\ call' = call
  BY <1>1 DEF UnmounterTypeOK, Busy, mounterVars
<1>3. TypeOK'
  BY <1>1 DEF TypeOK, MounterTypeOK, mounterVars
<1>4. Exclusive'
  BY <1>1, <1>2, ExclusiveKept
<1>5. \A q \in MountpointPods : /\ NodeHoldsFd(q)' = NodeHoldsFd(q) /\ Seen(q)' = Seen(q)
                                /\ Live(q)' = Live(q)
  BY <1>2 DEF NodeHoldsFd, Seen, Live
<1>6. NoAbandoned(p)'
  BY <1>1, <1>2, <1>5 DEF NoAbandonedMount, NoAbandoned
<1>7. ~unmounter[u].locked => /\ pod[p] = "gone" /\ proc[p] = "off" /\ proc'[p] = "off"
  BY <1>1, <1>2 DEF UnmounterInv, Busy, PodInv
<1>8. ASSUME NEW c \in Calls, call[c].pc \in LockedPcs, call[c].mp = p PROVE CallInv(c)'
  <2>1. ~unmounter[u].locked /\ CallInv(c)
    BY <1>1, <1>8 DEF Exclusive
  <2>2. pod[p] = "gone" /\ proc'[p] = "off" /\ files'[p] = files[p] /\ Seen(p)'
    BY <1>2, <1>5, <1>7, <1>8, <2>1 DEF CallInv, LockedPcs
  <2>3. CASE source'[p] = source[p]
    BY <1>2, <1>8, <2>1, <2>2, <2>3 DEF CallInv
  <2>4. CASE source'[p] \in {"dir", "absent"}
    BY <1>2, <1>8, <2>1, <2>2, <2>4 DEF CallInv
  <2>. QED
    BY <2>3, <2>4
<1>9. ASSUME NEW v \in Unmounters, v # u, unmounter[v].pc \in Busy, unmounter[v].mp = p PROVE UnmounterInv(v)'
  <2>1. UnmounterInv(v) /\ unmounter'[v] = unmounter[v]
    BY <1>1, <1>9
  <2>2. \A q \in unmounter[v].entries : Seen(q)'
    <3>1. unmounter[v].entries \subseteq MountpointPods
      BY <1>1 DEF UnmounterTypeOK
    <3>. QED
      BY <1>5, <2>1, <3>1 DEF UnmounterInv
  <2>3. CASE unmounter[v].locked
    <3>1. ~unmounter[u].locked
      BY <1>1, <1>9, <2>3 DEF Exclusive
    <3>2. CASE source'[p] = source[p]
      BY <1>2, <1>5, <1>9, <2>1, <2>2, <2>3, <3>2 DEF UnmounterInv
    <3>3. CASE source'[p] \in {"dir", "absent"}
      BY <1>9, <2>1, <2>2, <2>3, <3>3 DEF UnmounterInv
    <3>. QED
      BY <3>2, <3>3
  <2>4. CASE ~unmounter[v].locked
    BY <1>9, <2>1, <2>2, <2>4 DEF UnmounterInv
  <2>. QED
    BY <2>3, <2>4
<1>10. \A c \in Calls : \/ CallInv(c)'
                        \/ call'[c] = call[c] /\ (call[c].pc \in LockedPcs => call[c].mp # p)
  BY <1>2, <1>8
<1>11. \A v \in Unmounters : \/ UnmounterInv(v)'
                             \/ unmounter'[v] = unmounter[v] /\ (unmounter[v].pc \in Busy => unmounter[v].mp # p)
  BY <1>9
<1>. QED
  BY <1>3, <1>4, <1>5, <1>6, <1>10, <1>11, Concludes

(* A goroutine of the unmounter at work: what is known of it and of its Pod. *)
LEMMA BusyUnmounter ==
    ASSUME NodeInv, NEW u \in Unmounters, unmounter[u].pc \in Busy
    PROVE  /\ HostTypeOK /\ UnmounterTypeOK /\ unmounter[u].mp \in MountpointPods
           /\ PodInv(unmounter[u].mp) /\ UnmounterInv(u) /\ unmounter[u].locked \in BOOLEAN
           /\ unmounter[u].entries \subseteq MountpointPods
           /\ UNCHANGED <<pod, podSeen>> => \A q \in unmounter[u].entries : Seen(q)'
<1>1. HostTypeOK /\ UnmounterTypeOK /\ UnmounterInv(u) /\ \A q \in MountpointPods : PodInv(q)
  BY DEF NodeInv, TypeOK
<1>2. /\ unmounter[u].mp \in MountpointPods /\ unmounter[u].locked \in BOOLEAN
      /\ unmounter[u].entries \subseteq MountpointPods
  BY <1>1 DEF UnmounterTypeOK, Busy
<1>3. UNCHANGED <<pod, podSeen>> => \A q \in unmounter[u].entries : Seen(q)'
  BY <1>1 DEF UnmounterInv, Seen
<1>. QED
  BY <1>1, <1>2, <1>3

(* It is done with its Pod. *)
LEMMA UReturnInv ==
    ASSUME NodeInv, NEW u \in Unmounters, unmounter[u].pc \in Busy, UReturn(u), UNCHANGED <<pod, podSeen>>
    PROVE  /\ UnmounterTypeOK' /\ \A v \in Unmounters \ {u} : unmounter'[v] = unmounter[v]
           /\ ~unmounter'[u].locked /\ UnmounterInv(u)'
<1>1. UnmounterTypeOK /\ \A q \in unmounter[u].entries : Seen(q)'
  BY BusyUnmounter
<1>2. /\ UnmounterTypeOK' /\ \A v \in Unmounters \ {u} : unmounter'[v] = unmounter[v]
      /\ unmounter'[u].pc \in {"idle", "next"} /\ unmounter'[u].mp = Nil
      /\ ~unmounter'[u].locked /\ unmounter'[u].entries = unmounter[u].entries
  BY <1>1, UReturnSets
<1>. QED
  BY <1>1, <1>2 DEF UnmounterInv

(* A step of the unmounter that only reads what it finds *)
LEMMA UnmounterReads ==
    ASSUME NodeInv, NEW u \in Unmounters, unmounter[u].pc \in Busy, UNCHANGED <<hostVars, mounterVars, restarts>>,
           UnmounterTypeOK', \A v \in Unmounters \ {u} : unmounter'[v] = unmounter[v],
           unmounter'[u].locked => unmounter[u].locked /\ unmounter'[u].mp = unmounter[u].mp,
           UnmounterInv(u)'
    PROVE  NodeInv'
<1>1. Exclusive'
  <2>1. Exclusive /\ call' = call
    BY DEF NodeInv, mounterVars
  <2>. QED
    BY <2>1, ExclusiveKept
<1>. QED
  BY <1>1, UnmounterMoves

LEMMA WriteExitFileKeeps ==
    ASSUME NodeInv, NEW u \in Unmounters, WriteExitFile(u), UNCHANGED <<mounterVars, restarts>>
    PROVE  NodeInv'
<1>0. PICK p : p = unmounter[u].mp
  OBVIOUS
<1>1. /\ unmounter[u].pc = "exit" /\ unmounter[u].pc \in Busy
      /\ UNCHANGED <<source, bound, proc, pod, podSeen, crashes, deletions>>
  BY DEF WriteExitFile, Busy
<1>2. /\ HostTypeOK /\ UnmounterTypeOK /\ p \in MountpointPods /\ PodInv(p) /\ UnmounterInv(u)
      /\ \A q \in unmounter[u].entries : Seen(q)'
  BY <1>0, <1>1, BusyUnmounter
<1>3. CASE files' = [files EXCEPT ![p].exit = TRUE] /\ UGoto(u, "check")
  <2>. DEFINE f == [files[p] EXCEPT !.exit = TRUE]
  <2>1. /\ f \in [exit : BOOLEAN, err : BOOLEAN, creds : BOOLEAN] /\ f.creds = files[p].creds
        /\ files' = [files EXCEPT ![p] = f]
    BY <1>2, <1>3 DEF HostTypeOK
  <2>. HIDE DEF f
  <2>2. /\ HostTypeOK' /\ files'[p] = f /\ \A q \in MountpointPods \ {p} : Still(q)
        /\ Live(p)' = Live(p) /\ Bare(p)' = Bare(p) /\ Seen(p)' = Seen(p)
    BY <1>1, <1>2, <2>1, FilesWritten
  <2>3. PodInv(p)'
    BY <1>1, <1>2, <2>1, <2>2 DEF PodInv
  <2>4. /\ UnmounterTypeOK' /\ \A v \in Unmounters \ {u} : unmounter'[v] = unmounter[v]
        /\ unmounter'[u].pc = "check" /\ unmounter'[u].mp = p
        /\ unmounter'[u].locked = unmounter[u].locked /\ unmounter'[u].entries = unmounter[u].entries
    BY <1>0, <1>1, <1>2, <1>3, UGotoSets DEF Busy
  <2>5. unmounter[u].locked
    BY <1>1, <1>2 DEF UnmounterInv
  <2>6. UnmounterInv(u)'
    BY <1>2, <2>4, <2>5 DEF UnmounterInv
  <2>. QED
    BY <1>0, <1>1, <2>2, <2>3, <2>4, <2>5, <2>6, UnmounterActs
<1>4. CASE files' = files /\ UReturn(u)
  <2>1. UNCHANGED hostVars
    BY <1>1, <1>4 DEF hostVars
  <2>2. /\ UnmounterTypeOK' /\ \A v \in Unmounters \ {u} : unmounter'[v] = unmounter[v]
        /\ ~unmounter'[u].locked /\ UnmounterInv(u)'
    BY <1>1, <1>4, UReturnInv
  <2>. QED
    BY <1>1, <2>1, <2>2, UnmounterReads
<1>. QED
  BY <1>0, <1>3, <1>4 DEF WriteExitFile

LEMMA CheckMountpointSourceKeeps ==
    ASSUME NodeInv, NEW u \in Unmounters, CheckMountpointSource(u), UNCHANGED <<mounterVars, restarts>>
    PROVE  NodeInv'
<1>0. PICK p : p = unmounter[u].mp
  OBVIOUS
<1>1. unmounter[u].pc = "check" /\ unmounter[u].pc \in Busy /\ UNCHANGED hostVars /\ source[p] # "pending"
  BY <1>0 DEF CheckMountpointSource, Busy
<1>2. /\ HostTypeOK /\ UnmounterTypeOK /\ p \in MountpointPods /\ PodInv(p) /\ UnmounterInv(u)
      /\ \A q \in unmounter[u].entries : Seen(q)'
  BY <1>0, <1>1, BusyUnmounter DEF hostVars
<1>3. CASE UReturn(u)
  <2>1. /\ UnmounterTypeOK' /\ \A v \in Unmounters \ {u} : unmounter'[v] = unmounter[v]
        /\ ~unmounter'[u].locked /\ UnmounterInv(u)'
    BY <1>1, <1>3, UReturnInv DEF hostVars
  <2>. QED
    BY <1>1, <2>1, UnmounterReads
<1>4. ASSUME NEW pc \in {"credentials", "unused", "umount", "remove"}, UGoto(u, pc),
             pc = "credentials" => source[p] = "absent" /\ unmounter[u].locked,
             pc = "umount" => source[p] = "corrupted"
      PROVE  NodeInv'
  <2>1. /\ UnmounterTypeOK' /\ \A v \in Unmounters \ {u} : unmounter'[v] = unmounter[v]
        /\ unmounter'[u].pc = pc /\ unmounter'[u].mp = p
        /\ unmounter'[u].locked = unmounter[u].locked /\ unmounter'[u].entries = unmounter[u].entries
    BY <1>0, <1>1, <1>2, <1>4, UGotoSets DEF Busy
  <2>2. unmounter[u].locked \/ pod[p] = "gone"
    BY <1>0, <1>1, <1>2 DEF UnmounterInv
  <2>3. source' = source /\ pod' = pod
    BY <1>1 DEF hostVars
  <2>4. UnmounterInv(u)'
    BY <1>1, <1>2, <1>4, <2>1, <2>2, <2>3 DEF UnmounterInv
  <2>. QED
    BY <1>0, <1>1, <2>1, <2>4, UnmounterReads
<1>5. CASE source[p] = "absent" /\ unmounter[u].locked /\ UGoto(u, "credentials")
  BY <1>4, <1>5
<1>6. CASE source[p] = "served" /\ UGoto(u, "unused")
  BY <1>4, <1>6
<1>7. CASE source[p] = "corrupted" /\ UGoto(u, "umount")
  BY <1>4, <1>7
<1>8. CASE source[p] = "dir" /\ UGoto(u, "remove")
  BY <1>4, <1>8
<1>. QED
  BY <1>0, <1>3, <1>5, <1>6, <1>7, <1>8 DEF CheckMountpointSource

LEMMA WaitUntilMountpointIsUnusedKeeps ==
    ASSUME NodeInv, NEW u \in Unmounters, WaitUntilMountpointIsUnused(u), UNCHANGED <<mounterVars, restarts>>
    PROVE  NodeInv'
<1>0. PICK p : p = unmounter[u].mp
  OBVIOUS
<1>1. unmounter[u].pc = "unused" /\ unmounter[u].pc \in Busy /\ UNCHANGED hostVars
  BY DEF WaitUntilMountpointIsUnused, Busy
<1>2. /\ HostTypeOK /\ UnmounterTypeOK /\ p \in MountpointPods /\ PodInv(p) /\ UnmounterInv(u)
      /\ \A q \in unmounter[u].entries : Seen(q)'
  BY <1>0, <1>1, BusyUnmounter DEF hostVars
<1>3. CASE UReturn(u)
  <2>1. /\ UnmounterTypeOK' /\ \A v \in Unmounters \ {u} : unmounter'[v] = unmounter[v]
        /\ ~unmounter'[u].locked /\ UnmounterInv(u)'
    BY <1>1, <1>3, UReturnInv DEF hostVars
  <2>. QED
    BY <1>1, <2>1, UnmounterReads
<1>4. CASE References(p) = {} /\ UGoto(u, "umount")
  <2>1. /\ UnmounterTypeOK' /\ \A v \in Unmounters \ {u} : unmounter'[v] = unmounter[v]
        /\ unmounter'[u].pc = "umount" /\ unmounter'[u].mp = p
        /\ unmounter'[u].locked = unmounter[u].locked /\ unmounter'[u].entries = unmounter[u].entries
    BY <1>0, <1>1, <1>2, <1>4, UGotoSets DEF Busy
  <2>2. ~Live(p)'
    <3>1. ~Live(p)
      BY <1>2, <1>4 DEF Live, HasLive, References, HostTypeOK
    <3>. QED
      BY <1>1, <3>1 DEF Live, hostVars
  <2>3. source' = source /\ pod' = pod
    BY <1>1 DEF hostVars
  <2>4. UnmounterInv(u)'
    BY <1>0, <1>1, <1>2, <2>1, <2>2, <2>3 DEF UnmounterInv
  <2>. QED
    BY <1>0, <1>1, <2>1, <2>4, UnmounterReads
<1>. QED
  BY <1>0, <1>3, <1>4 DEF WaitUntilMountpointIsUnused

(* What the unmounter takes away is no longer served to a target: with the lock  *)
(* it saw no bind mount since, and without it there is no process left.          *)
LEMMA UnmountIsSafe ==
    ASSUME NodeInv, NEW u \in Unmounters, unmounter[u].pc = "umount", NEW p, p = unmounter[u].mp
    PROVE  /\ ~Live(p)
           /\ source[p] # "served" => proc[p] \notin {"starting", "serving"}
<1>1. unmounter[u].pc \in Busy
  BY DEF Busy
<1>2. PodInv(p) /\ UnmounterInv(u)
  BY <1>1, BusyUnmounter
<1>. QED
  BY <1>2 DEF UnmounterInv, PodInv

LEMMA UnmountSourceKeeps ==
    ASSUME NodeInv, NEW u \in Unmounters, UnmountSource(u), UNCHANGED <<mounterVars, restarts>>
    PROVE  NodeInv'
<1>0. PICK p : p = unmounter[u].mp
  OBVIOUS
<1>1. unmounter[u].pc = "umount" /\ unmounter[u].pc \in Busy /\ UNCHANGED <<files, pod, podSeen, crashes, deletions>>
  BY DEF UnmountSource, Busy
<1>2. /\ HostTypeOK /\ UnmounterTypeOK /\ p \in MountpointPods /\ PodInv(p) /\ UnmounterInv(u)
      /\ \A q \in unmounter[u].entries : Seen(q)'
  BY <1>0, <1>1, BusyUnmounter
<1>3. CASE UReturn(u) /\ UNCHANGED <<source, bound, proc>>
  <2>1. /\ UnmounterTypeOK' /\ \A v \in Unmounters \ {u} : unmounter'[v] = unmounter[v]
        /\ ~unmounter'[u].locked /\ UnmounterInv(u)'
    BY <1>1, <1>3, UReturnInv
  <2>2. UNCHANGED hostVars
    BY <1>1, <1>3 DEF hostVars
  <2>. QED
    BY <1>1, <2>1, <2>2, UnmounterReads
<1>4. ASSUME UGoto(u, "remove")
      PROVE  /\ UnmounterTypeOK' /\ \A v \in Unmounters \ {u} : unmounter'[v] = unmounter[v]
             /\ unmounter'[u].pc = "remove" /\ unmounter'[u].mp = p
             /\ unmounter'[u].locked = unmounter[u].locked /\ unmounter'[u].entries = unmounter[u].entries
  BY <1>0, <1>1, <1>2, <1>4, UGotoSets DEF Busy
<1>5. unmounter[u].locked \/ pod[p] = "gone"
  BY <1>0, <1>1, <1>2 DEF UnmounterInv
<1>6. CASE source[p] = "dir" /\ UGoto(u, "remove") /\ UNCHANGED <<source, bound, proc>>
  <2>1. UnmounterInv(u)'
    BY <1>1, <1>2, <1>4, <1>5, <1>6 DEF UnmounterInv
  <2>2. UNCHANGED hostVars
    BY <1>1, <1>6 DEF hostVars
  <2>. QED
    BY <1>0, <1>1, <1>4, <1>6, <2>1, <2>2, UnmounterReads
<1>7. CASE /\ source[p] \in {"pending", "served", "corrupted"}
           /\ Mounts([source EXCEPT ![p] = "dir"], bound) /\ UGoto(u, "remove")
  <2>1. ~Live(p) /\ (source[p] # "served" => proc[p] \notin {"starting", "serving"})
    BY <1>0, <1>1, UnmountIsSafe
  <2>2. /\ HostTypeOK' /\ \A q \in MountpointPods \ {p} : Still(q)
        /\ source'[p] = "dir"
        /\ proc'[p] = IF proc[p] \in {"starting", "serving"} THEN "ended" ELSE proc[p]
        /\ Live(p)' = Live(p) /\ Bare(p)' = Bare(p) /\ Seen(p)' = Seen(p)
    <3>1. "dir" \in SourceStates
      BY DEF SourceStates
    <3>. QED
      BY <1>1, <1>2, <1>7, <2>1, <3>1, SourceMounted
  <2>3. PodInv(p)'
    BY <1>1, <1>2, <1>7, <2>1, <2>2 DEF PodInv
  <2>4. UnmounterInv(u)'
    BY <1>1, <1>2, <1>4, <1>5, <1>7, <2>2 DEF UnmounterInv
  <2>5. bound' = bound
    BY <1>7 DEF Mounts
  <2>. QED
    BY <1>0, <1>1, <1>4, <1>7, <2>2, <2>3, <2>4, <2>5, UnmounterActs
<1>. QED
  BY <1>0, <1>3, <1>6, <1>7 DEF UnmountSource

LEMMA RemoveSourceKeeps ==
    ASSUME NodeInv, NEW u \in Unmounters, RemoveSource(u), UNCHANGED <<mounterVars, restarts>>
    PROVE  NodeInv'
<1>0. PICK p : p = unmounter[u].mp
  OBVIOUS
<1>1. /\ unmounter[u].pc = "remove" /\ unmounter[u].pc \in Busy
      /\ UNCHANGED <<bound, proc, files, pod, podSeen, crashes, deletions>>
  BY DEF RemoveSource, Busy
<1>2. /\ HostTypeOK /\ UnmounterTypeOK /\ p \in MountpointPods /\ PodInv(p) /\ UnmounterInv(u)
      /\ \A q \in unmounter[u].entries : Seen(q)'
  BY <1>0, <1>1, BusyUnmounter
<1>3. CASE UReturn(u) /\ source' = source
  <2>1. /\ UnmounterTypeOK' /\ \A v \in Unmounters \ {u} : unmounter'[v] = unmounter[v]
        /\ ~unmounter'[u].locked /\ UnmounterInv(u)'
    BY <1>1, <1>3, UReturnInv
  <2>2. UNCHANGED hostVars
    BY <1>1, <1>3 DEF hostVars
  <2>. QED
    BY <1>1, <2>1, <2>2, UnmounterReads
<1>4. CASE /\ source[p] = "dir" /\ source' = [source EXCEPT ![p] = "absent"]
           /\ \/ unmounter[u].locked /\ UGoto(u, "credentials")
              \/ UReturn(u)
  <2>1. /\ source' \in [MountpointPods -> SourceStates] /\ source'[p] = "absent"
        /\ \A q \in MountpointPods \ {p} : source'[q] = source[q]
    BY <1>2, <1>4 DEF HostTypeOK, SourceStates
  <2>2. HostTypeOK'
    BY <1>1, <1>2, <2>1 DEF HostTypeOK
  <2>3. \A q \in MountpointPods : Live(q)' = Live(q) /\ Bare(q)' = Bare(q) /\ Seen(q)' = Seen(q)
    BY <1>1 DEF Live, Bare, Seen
  <2>4. \A q \in MountpointPods \ {p} : Still(q)
    BY <1>1, <2>1, <2>3 DEF Still
  <2>5. PodInv(p)'
    BY <1>1, <1>2, <1>4, <2>1, <2>3 DEF PodInv
  <2>6. CASE UReturn(u)
    <3>1. /\ UnmounterTypeOK' /\ \A v \in Unmounters \ {u} : unmounter'[v] = unmounter[v]
          /\ ~unmounter'[u].locked /\ UnmounterInv(u)'
      BY <1>1, <2>6, UReturnInv
    <3>. QED
      BY <1>0, <1>1, <1>4, <2>1, <2>2, <2>4, <2>5, <3>1, UnmounterActs
  <2>7. CASE unmounter[u].locked /\ UGoto(u, "credentials")
    <3>1. /\ UnmounterTypeOK' /\ \A v \in Unmounters \ {u} : unmounter'[v] = unmounter[v]
          /\ unmounter'[u].pc = "credentials" /\ unmounter'[u].mp = p
          /\ unmounter'[u].locked = unmounter[u].locked /\ unmounter'[u].entries = unmounter[u].entries
      BY <1>0, <1>1, <1>2, <2>7, UGotoSets DEF Busy
    <3>2. UnmounterInv(u)'
      BY <1>2, <2>1, <2>7, <3>1 DEF UnmounterInv
    <3>. QED
      BY <1>0, <1>1, <1>4, <2>1, <2>2, <2>4, <2>5, <2>7, <3>1, <3>2, UnmounterActs
  <2>. QED
    BY <1>4, <2>6, <2>7
<1>. QED
  BY <1>0, <1>3, <1>4 DEF RemoveSource

(* The credentials go with the lock still held: nobody mounted the source again. *)
LEMMA CleanupCredentialsKeeps ==
    ASSUME NodeInv, NEW u \in Unmounters, CleanupCredentials(u), UNCHANGED <<mounterVars, restarts>>
    PROVE  NodeInv'
<1>0. PICK p : p = unmounter[u].mp
  OBVIOUS
<1>1. /\ unmounter[u].pc = "credentials" /\ unmounter[u].pc \in Busy /\ UReturn(u)
      /\ UNCHANGED <<source, bound, proc, pod, podSeen, crashes, deletions>>
      /\ files' = [files EXCEPT ![p].creds = FALSE]
  BY <1>0 DEF CleanupCredentials, Busy
<1>2. /\ HostTypeOK /\ UnmounterTypeOK /\ p \in MountpointPods /\ PodInv(p) /\ UnmounterInv(u)
  BY <1>0, <1>1, BusyUnmounter
<1>. DEFINE f == [files[p] EXCEPT !.creds = FALSE]
<1>3. f \in [exit : BOOLEAN, err : BOOLEAN, creds : BOOLEAN] /\ files' = [files EXCEPT ![p] = f]
  BY <1>1, <1>2 DEF HostTypeOK
<1>. HIDE DEF f
<1>4. /\ HostTypeOK' /\ \A q \in MountpointPods \ {p} : Still(q)
      /\ Live(p)' = Live(p) /\ Bare(p)' = Bare(p) /\ Seen(p)' = Seen(p)
  BY <1>1, <1>2, <1>3, FilesWritten
<1>5. unmounter[u].locked /\ ~Live(p)
  BY <1>0, <1>1, <1>2 DEF UnmounterInv, PodInv
<1>6. PodInv(p)'
  BY <1>1, <1>2, <1>4, <1>5 DEF PodInv
<1>7. /\ UnmounterTypeOK' /\ \A v \in Unmounters \ {u} : unmounter'[v] = unmounter[v]
      /\ ~unmounter'[u].locked /\ UnmounterInv(u)'
  BY <1>1, UReturnInv
<1>. QED
  BY <1>0, <1>1, <1>4, <1>5, <1>6, <1>7, UnmounterActs

-----------------------------------------------------------------------------
(* A Mountpoint Pod takes a step of its own, whoever holds its lock. *)
LEMMA PodActs ==
    ASSUME NodeInv, NEW p \in MountpointPods, UNCHANGED <<mounterVars, unmounter, restarts>>,
           HostTypeOK', \A q \in MountpointPods \ {p} : Still(q),
           PodInv(p)', NoAbandoned(p)', Seen(p) => Seen(p)',
           \A c \in Calls : call[c].pc \in LockedPcs /\ call[c].mp = p => CallInv(c)',
           \A u \in Unmounters : unmounter[u].pc \in Busy /\ unmounter[u].mp = p =>
              ((\A q \in unmounter[u].entries : Seen(q)') => UnmounterInv(u)')
    PROVE  NodeInv'
<1>1. /\ TypeOK /\ MounterTypeOK /\ UnmounterTypeOK /\ Exclusive /\ call' = call
      /\ \A u \in Unmounters : UnmounterInv(u)
  BY DEF NodeInv, TypeOK, mounterVars
<1>2. TypeOK'
  BY <1>1 DEF TypeOK, MounterTypeOK, UnmounterTypeOK, mounterVars
<1>3. Exclusive'
  BY <1>1, ExclusiveKept
<1>4. \A q \in MountpointPods : NodeHoldsFd(q) => NodeHoldsFd(q)'
  BY <1>1 DEF NodeHoldsFd
<1>5. \A c \in Calls : \/ CallInv(c)'
                       \/ call'[c] = call[c] /\ (call[c].pc \in LockedPcs => call[c].mp # p)
  BY <1>1
<1>6. ASSUME NEW u \in Unmounters PROVE \A q \in unmounter[u].entries : Seen(q)'
  <2>1. unmounter[u].entries \subseteq MountpointPods
    BY <1>1 DEF UnmounterTypeOK
  <2>. QED
    BY <1>1, <2>1 DEF UnmounterInv, Still
<1>7. \A u \in Unmounters : \/ UnmounterInv(u)'
                            \/ unmounter'[u] = unmounter[u] /\ (unmounter[u].pc \in Busy => unmounter[u].mp # p)
  BY <1>1, <1>6
<1>. QED
  BY <1>2, <1>3, <1>4, <1>5, <1>7, Concludes

(* What is known of a Mountpoint Pod between two steps. *)
LEMMA PodKnown ==
    ASSUME NodeInv, NEW p \in MountpointPods
    PROVE  /\ HostTypeOK /\ PodInv(p) /\ NoAbandoned(p)
           /\ \A c \in Calls : CallInv(c)
           /\ \A u \in Unmounters : UnmounterInv(u)
BY DEF NodeInv, TypeOK, NoAbandonedMount, NoAbandoned

(* The container exits: the file system is not served, and stays as it is. *)
LEMMA ExitKeeps ==
    ASSUME NodeInv, NEW p \in MountpointPods, proc[p] \in {"listening", "ended"}, ExitZero(p) \/ ExitNonZero(p),
           UNCHANGED <<source, bound, files, podSeen, crashes, deletions>>,
           UNCHANGED <<mounterVars, unmounter, restarts>>
    PROVE  NodeInv'
<1>1. /\ HostTypeOK /\ PodInv(p) /\ NoAbandoned(p)
      /\ \A c \in Calls : CallInv(c)
      /\ \A u \in Unmounters : UnmounterInv(u)
  BY PodKnown
<1>2. /\ proc' \in [MountpointPods -> ProcStates] /\ pod' \in [MountpointPods -> PodStates]
      /\ \/ proc'[p] = "done" /\ pod'[p] = "succeeded"
         \/ proc'[p] = "listening" /\ pod'[p] = pod[p]
      /\ \A q \in MountpointPods \ {p} : proc'[q] = proc[q] /\ pod'[q] = pod[q]
  BY <1>1 DEF ExitZero, ExitNonZero, HostTypeOK, ProcStates, PodStates
<1>3. HostTypeOK'
  BY <1>1, <1>2 DEF HostTypeOK
<1>4. pod[p] \notin {"gone", "succeeded"} /\ pod'[p] # "gone" /\ source[p] # "served" /\ ~Live(p)
  BY <1>1, <1>2 DEF PodInv
<1>5. \A q \in MountpointPods : /\ Live(q)' = Live(q) /\ Bare(q)' = Bare(q)
                                /\ NodeHoldsFd(q)' = NodeHoldsFd(q) /\ Seen(q)' = Seen(q)
  BY <1>2, <1>4 DEF Live, Bare, NodeHoldsFd, Seen, mounterVars
<1>6. \A q \in MountpointPods \ {p} : Still(q)
  BY <1>2, <1>5 DEF Still
<1>7. PodInv(p)' /\ NoAbandoned(p)'
  BY <1>1, <1>2, <1>4, <1>5 DEF PodInv, NoAbandoned
<1>8. ASSUME NEW c \in Calls, call[c].mp = p PROVE CallInv(c)'
  <2>1. call' = call
    BY DEF mounterVars
  <2>. QED
    BY <1>1, <1>2, <1>4, <1>5, <1>8, <2>1 DEF CallInv
<1>9. ASSUME NEW u \in Unmounters, unmounter[u].mp = p, \A q \in unmounter[u].entries : Seen(q)'
      PROVE  UnmounterInv(u)'
  BY <1>1, <1>2, <1>4, <1>5, <1>9 DEF UnmounterInv
<1>. QED
  BY <1>3, <1>5, <1>6, <1>7, <1>8, <1>9, PodActs

LEMMA ServeKeeps ==
    ASSUME NodeInv, NEW p \in MountpointPods, Serve(p), UNCHANGED <<mounterVars, unmounter, restarts>>
    PROVE  NodeInv'
<1>1. /\ HostTypeOK /\ PodInv(p) /\ NoAbandoned(p)
      /\ \A c \in Calls : CallInv(c)
      /\ \A u \in Unmounters : UnmounterInv(u)
      /\ proc[p] = "starting" /\ source[p] = "pending" /\ UNCHANGED <<bound, files, pod, podSeen, crashes, deletions>>
  BY PodKnown DEF Serve
<1>2. /\ proc' \in [MountpointPods -> ProcStates] /\ proc'[p] = "serving"
      /\ source' \in [MountpointPods -> SourceStates] /\ source'[p] = "served"
      /\ \A q \in MountpointPods \ {p} : proc'[q] = proc[q] /\ source'[q] = source[q]
  BY <1>1 DEF Serve, HostTypeOK, ProcStates, SourceStates
<1>3. HostTypeOK'
  BY <1>1, <1>2 DEF HostTypeOK
<1>4. \A q \in MountpointPods : Live(q)' = Live(q) /\ Bare(q)' = Bare(q) /\ Seen(q)' = Seen(q)
  BY <1>1 DEF Live, Bare, Seen
<1>5. \A q \in MountpointPods \ {p} : Still(q)
  BY <1>1, <1>2, <1>4 DEF Still
<1>6. pod[p] \notin {"gone", "succeeded"} /\ ~Live(p)
  BY <1>1 DEF PodInv
<1>7. PodInv(p)' /\ NoAbandoned(p)'
  BY <1>1, <1>2, <1>4, <1>6 DEF PodInv, NoAbandoned
<1>8. ASSUME NEW c \in Calls, call[c].mp = p PROVE CallInv(c)'
  <2>1. call' = call
    BY DEF mounterVars
  <2>. QED
    BY <1>1, <1>2, <1>4, <1>6, <1>8, <2>1 DEF CallInv
<1>9. ASSUME NEW u \in Unmounters, unmounter[u].mp = p, \A q \in unmounter[u].entries : Seen(q)'
      PROVE  UnmounterInv(u)'
  BY <1>1, <1>2, <1>4, <1>6, <1>9 DEF UnmounterInv
<1>. QED
  BY <1>3, <1>4, <1>5, <1>7, <1>8, <1>9, PodActs

(* mount-s3 dies, with its Pod or without: its live mounts are dead.  The source *)
(* goes back to waiting for an answer only if a call has its descriptor, and     *)
(* nobody else has the lock then.                                                *)
LEMMA ProcessDiesKeeps ==
    ASSUME NodeInv, NEW p \in MountpointPods, NEW next \in {"listening", "off"},
           ProcessDies(p, next, NodeHoldsFd(p)), UNCHANGED <<mounterVars, unmounter, restarts, podSeen>>,
           files' \in [MountpointPods -> [exit : BOOLEAN, err : BOOLEAN, creds : BOOLEAN]],
           pod' \in [MountpointPods -> PodStates],
           \A q \in MountpointPods \ {p} : files'[q] = files[q] /\ pod'[q] = pod[q],
           crashes' \in 0..MaxCrashes, deletions' \in 0..MaxDeletions,
           pod[p] # "gone",
           \/ next = "off" /\ pod'[p] = "gone" /\ ~files'[p].err
           \/ /\ next = "listening" /\ pod'[p] = pod[p] /\ files'[p].creds = files[p].creds
              /\ proc[p] \in {"starting", "serving"}
    PROVE  NodeInv'
<1>1. /\ HostTypeOK /\ PodInv(p) /\ NoAbandoned(p)
      /\ \A c \in Calls : CallInv(c)
      /\ \A u \in Unmounters : UnmounterInv(u)
  BY PodKnown
<1>2. Exclusive /\ call' = call
  BY DEF NodeInv, mounterVars
<1>3. /\ proc' \in [MountpointPods -> ProcStates] /\ proc'[p] = next
      /\ \A q \in MountpointPods \ {p} : proc'[q] = proc[q]
  BY <1>1 DEF ProcessDies, HostTypeOK, ProcStates
<1>4. /\ source' \in [MountpointPods -> SourceStates]
      /\ source'[p] = IF source[p] \notin {"pending", "served"} THEN source[p]
                      ELSE IF NodeHoldsFd(p) THEN "pending" ELSE "corrupted"
      /\ \A q \in MountpointPods \ {p} : source'[q] = source[q]
  BY <1>1 DEF ProcessDies, HostTypeOK, SourceStates
<1>5. /\ bound' \in [Targets -> Seq(MountType)]
      /\ \A m : In(bound', m) => /\ m # [mp |-> p, fs |-> "live"]
                                 /\ In(bound, m) \/ m = [mp |-> p, fs |-> "dead"]
  <2>1. bound \in [Targets -> Seq(MountType)]
    BY <1>1 DEF HostTypeOK
  <2>2. bound' = Died(bound, p)
    BY DEF ProcessDies, Died
  <2>. QED
    BY <2>1, <2>2, InDies
<1>6. HostTypeOK'
  BY <1>1, <1>3, <1>4, <1>5 DEF HostTypeOK
<1>7. ASSUME NEW q \in MountpointPods PROVE (Live(q)' => q # p /\ Live(q)) /\ (Bare(q)' => Bare(q))
  <2>1. bound \in [Targets -> Seq(MountType)]
    BY <1>1 DEF HostTypeOK
  <2>2. [mp |-> q, fs |-> "live"] # [mp |-> p, fs |-> "dead"] /\ [mp |-> q, fs |-> "bare"] # [mp |-> p, fs |-> "dead"]
    OBVIOUS
  <2>3. (Live(q)' => In(bound', [mp |-> q, fs |-> "live"])) /\ (In(bound, [mp |-> q, fs |-> "live"]) => Live(q))
    BY <1>5, <2>1, LiveIn DEF Live
  <2>4. (Bare(q)' => In(bound', [mp |-> q, fs |-> "bare"])) /\ (In(bound, [mp |-> q, fs |-> "bare"]) => Bare(q))
    BY DEF Bare, In
  <2>. QED
    BY <1>5, <2>2, <2>3, <2>4
<1>8. \A q \in MountpointPods \ {p} : Still(q)
  BY <1>3, <1>4, <1>7 DEF Still, Seen
<1>9. Seen(p) => Seen(p)'
  BY DEF Seen
<1>10. PodInv(p)'
  BY <1>1, <1>3, <1>4, <1>7, <1>9 DEF PodInv
<1>11. NoAbandoned(p)'
  <2>1. NodeHoldsFd(p)' = NodeHoldsFd(p)
    BY <1>2 DEF NodeHoldsFd
  <2>. QED
    BY <1>1, <1>4, <2>1 DEF NoAbandoned
<1>12. ASSUME NEW c \in Calls, call[c].mp = p, call[c].pc \in LockedPcs PROVE CallInv(c)'
  <2>1. NodeHoldsFd(p) => call[c].pc \in {"send", "wait"}
    BY <1>2, <1>12 DEF NodeHoldsFd, Exclusive, LockedPcs
  <2>2. CallInv(c) /\ Seen(p)'
    BY <1>1, <1>9, <1>12 DEF CallInv
  <2>3. CASE next = "off"
    BY <1>2, <1>3, <1>4, <1>12, <2>1, <2>2, <2>3 DEF CallInv
  <2>4. CASE next = "listening"
    BY <1>1, <1>2, <1>3, <1>4, <1>12, <2>1, <2>2, <2>4 DEF CallInv, PodInv
  <2>. QED
    BY <2>3, <2>4
<1>13. ASSUME NEW u \in Unmounters, unmounter[u].pc \in Busy, unmounter[u].mp = p,
              \A q \in unmounter[u].entries : Seen(q)'
       PROVE  UnmounterInv(u)'
  <2>1. unmounter[u].locked /\ UnmounterInv(u)
    BY <1>1, <1>13 DEF UnmounterInv, Busy
  <2>2. ~NodeHoldsFd(p)
    BY <1>2, <1>13, <2>1 DEF NodeHoldsFd, Exclusive, LockedPcs
  <2>3. source'[p] \notin {"pending", "served"}
    BY <1>4, <2>2
  <2>. QED
    BY <1>13, <2>1, <2>3 DEF UnmounterInv, Busy
<1>. QED
  BY <1>6, <1>8, <1>9, <1>10, <1>11, <1>12, <1>13, PodActs

LEMMA RunFailsKeeps ==
    ASSUME NodeInv, NEW p \in MountpointPods, RunFails(p, NodeHoldsFd(p)), UNCHANGED <<mounterVars, unmounter, restarts>>
    PROVE  NodeInv'
<1>1. /\ HostTypeOK /\ PodInv(p) /\ proc[p] \in {"starting", "serving"} /\ crashes < MaxCrashes /\ crashes' = crashes + 1
      /\ UNCHANGED <<pod, podSeen, deletions>> /\ ProcessDies(p, "listening", NodeHoldsFd(p))
  BY PodKnown DEF RunFails
<1>2. PICK written \in {TRUE, ErrorsAreWritten} : files' = [files EXCEPT ![p].err = @ \/ written]
  BY DEF RunFails
<1>3. /\ files' \in [MountpointPods -> [exit : BOOLEAN, err : BOOLEAN, creds : BOOLEAN]]
      /\ files'[p].creds = files[p].creds
      /\ \A q \in MountpointPods \ {p} : files'[q] = files[q]
  BY <1>1, <1>2, HostAssumption DEF HostTypeOK
<1>4. crashes' \in 0..MaxCrashes /\ pod[p] # "gone"
  BY <1>1, HostAssumption DEF HostTypeOK, PodInv
<1>. QED
  BY <1>1, <1>3, <1>4, ProcessDiesKeeps DEF HostTypeOK

LEMMA DeleteRunningKeeps ==
    ASSUME NodeInv, NEW p \in MountpointPods, DeleteRunning(p, NodeHoldsFd(p)),
           UNCHANGED <<mounterVars, unmounter, restarts>>
    PROVE  NodeInv'
<1>1. /\ HostTypeOK /\ deletions < MaxDeletions /\ deletions' = deletions + 1 /\ IsReady(pod[p])
      /\ pod' = [pod EXCEPT ![p] = "gone"] /\ files' = [files EXCEPT ![p] = NoFiles]
      /\ UNCHANGED <<podSeen, crashes>> /\ ProcessDies(p, "off", NodeHoldsFd(p))
  BY PodKnown DEF DeleteRunning
<1>2. /\ files' \in [MountpointPods -> [exit : BOOLEAN, err : BOOLEAN, creds : BOOLEAN]]
      /\ ~files'[p].err
      /\ pod' \in [MountpointPods -> PodStates] /\ pod'[p] = "gone"
      /\ \A q \in MountpointPods \ {p} : files'[q] = files[q] /\ pod'[q] = pod[q]
  BY <1>1 DEF HostTypeOK, NoFiles, PodStates
<1>3. deletions' \in 0..MaxDeletions /\ pod[p] # "gone"
  BY <1>1, HostAssumption DEF HostTypeOK, IsReady
<1>. QED
  BY <1>1, <1>2, <1>3, ProcessDiesKeeps DEF HostTypeOK

LEMMA DeleteSucceededKeeps ==
    ASSUME NodeInv, NEW p \in MountpointPods, DeleteSucceeded(p), UNCHANGED <<mounterVars, unmounter, restarts>>
    PROVE  NodeInv'
<1>1. /\ HostTypeOK /\ PodInv(p) /\ NoAbandoned(p)
      /\ \A c \in Calls : CallInv(c)
      /\ \A u \in Unmounters : UnmounterInv(u)
      /\ pod[p] = "succeeded" /\ UNCHANGED <<source, bound, podSeen, crashes, deletions>>
  BY PodKnown DEF DeleteSucceeded
<1>2. /\ files' \in [MountpointPods -> [exit : BOOLEAN, err : BOOLEAN, creds : BOOLEAN]]
      /\ ~files'[p].err
      /\ pod' \in [MountpointPods -> PodStates] /\ pod'[p] = "gone"
      /\ proc' \in [MountpointPods -> ProcStates] /\ proc'[p] = "off"
      /\ \A q \in MountpointPods \ {p} : files'[q] = files[q] /\ pod'[q] = pod[q] /\ proc'[q] = proc[q]
  BY <1>1 DEF DeleteSucceeded, HostTypeOK, NoFiles, PodStates, ProcStates
<1>3. HostTypeOK'
  BY <1>1, <1>2 DEF HostTypeOK
<1>4. \A q \in MountpointPods : /\ Live(q)' = Live(q) /\ Bare(q)' = Bare(q) /\ NodeHoldsFd(q)' = NodeHoldsFd(q)
                                /\ Seen(q) => Seen(q)'
  BY <1>1, <1>2 DEF Live, Bare, NodeHoldsFd, Seen, mounterVars
<1>5. \A q \in MountpointPods \ {p} : Still(q)
  BY <1>1, <1>2, <1>4 DEF Still
<1>6. PodInv(p)' /\ NoAbandoned(p)'
  BY <1>1, <1>2, <1>4 DEF PodInv, NoAbandoned, Seen
<1>7. ASSUME NEW c \in Calls, call[c].mp = p PROVE CallInv(c)'
  <2>1. call' = call
    BY DEF mounterVars
  <2>. QED
    BY <1>1, <1>2, <1>4, <1>7, <2>1 DEF CallInv
<1>8. ASSUME NEW u \in Unmounters, unmounter[u].mp = p, \A q \in unmounter[u].entries : Seen(q)'
      PROVE  UnmounterInv(u)'
  BY <1>1, <1>2, <1>4, <1>8 DEF UnmounterInv
<1>. QED
  BY <1>3, <1>4, <1>5, <1>6, <1>7, <1>8, PodActs

LEMMA ObserveKeeps ==
    ASSUME NodeInv, NEW p \in MountpointPods, Observe(p), UNCHANGED <<mounterVars, unmounter, restarts>>
    PROVE  NodeInv'
<1>1. /\ HostTypeOK /\ PodInv(p) /\ NoAbandoned(p)
      /\ \A c \in Calls : CallInv(c)
      /\ \A u \in Unmounters : UnmounterInv(u)
      /\ UNCHANGED <<source, bound, proc, files, pod, crashes, deletions>>
  BY PodKnown DEF Observe
<1>2. /\ podSeen' \in [MountpointPods -> PodStates] /\ podSeen'[p] = pod[p]
      /\ \A q \in MountpointPods \ {p} : podSeen'[q] = podSeen[q]
  BY <1>1 DEF Observe, HostTypeOK
<1>3. HostTypeOK'
  BY <1>1, <1>2 DEF HostTypeOK
<1>4. \A q \in MountpointPods : /\ Live(q)' = Live(q) /\ Bare(q)' = Bare(q) /\ NodeHoldsFd(q)' = NodeHoldsFd(q)
                                /\ Seen(q) => Seen(q)'
  BY <1>1, <1>2 DEF Live, Bare, NodeHoldsFd, Seen, mounterVars
<1>5. \A q \in MountpointPods \ {p} : Still(q)
  BY <1>1, <1>2, <1>4 DEF Still
<1>6. PodInv(p)' /\ NoAbandoned(p)'
  BY <1>1, <1>2, <1>4 DEF PodInv, NoAbandoned
<1>7. ASSUME NEW c \in Calls, call[c].mp = p PROVE CallInv(c)'
  <2>1. call' = call
    BY DEF mounterVars
  <2>. QED
    BY <1>1, <1>2, <1>4, <1>7, <2>1 DEF CallInv
<1>8. ASSUME NEW u \in Unmounters, unmounter[u].mp = p, \A q \in unmounter[u].entries : Seen(q)'
      PROVE  UnmounterInv(u)'
  BY <1>1, <1>2, <1>4, <1>8 DEF UnmounterInv
<1>. QED
  BY <1>3, <1>4, <1>5, <1>6, <1>7, <1>8, PodActs

(* The plugin restarts: locks and descriptors are gone with its goroutines, and *)
(* a mount that only it could have answered for is corrupted.                   *)
LEMMA RestartKeeps == ASSUME NodeInv, Restart PROVE NodeInv'
<1>1. /\ TypeOK /\ HostTypeOK /\ MounterTypeOK /\ UnmounterTypeOK
      /\ \A p \in MountpointPods : PodInv(p)
  BY DEF NodeInv, TypeOK
<1>2. /\ \A c \in Calls : call'[c] = NoCall
      /\ \A u \in Unmounters : unmounter'[u] = UnmounterIdle
      /\ podSeen' = pod
      /\ UNCHANGED <<bound, proc, files, pod, crashes, deletions, workload, attachment, expiries>>
  BY DEF Restart
<1>3. /\ source' \in [MountpointPods -> SourceStates]
      /\ \A p \in MountpointPods :
            source'[p] = IF source[p] = "pending" /\ proc[p] # "starting" THEN "corrupted" ELSE source[p]
  BY <1>1 DEF Restart, HostTypeOK, SourceStates
<1>4. HostTypeOK'
  BY <1>1, <1>2, <1>3 DEF HostTypeOK
<1>5. MounterTypeOK'
  <2>1. NoCall \in CallType /\ NoCall.pc = "idle"
    BY DEF NoCall, CallType
  <2>2. call' \in [Calls -> CallType]
    BY <2>1 DEF Restart
  <2>. QED
    BY <1>1, <1>2, <2>1, <2>2 DEF MounterTypeOK
<1>6. UnmounterTypeOK'
  BY <1>2 DEF Restart, UnmounterTypeOK, UnmounterIdle
<1>7. restarts' \in 0..MaxRestarts
  BY <1>1, RestartsAssumption DEF TypeOK, Restart
<1>8. Exclusive'
  BY <1>2 DEF Exclusive, NoCall, UnmounterIdle, LockedPcs
<1>9. NoAbandonedMount'
  BY <1>2, <1>3 DEF NoAbandonedMount
<1>10. ASSUME NEW p \in MountpointPods PROVE PodInv(p)'
  <2>1. Live(p)' = Live(p) /\ Bare(p)' = Bare(p) /\ Seen(p)'
    BY <1>2 DEF Live, Bare, Seen
  <2>. QED
    BY <1>1, <1>2, <1>3, <2>1 DEF PodInv
<1>11. \A c \in Calls : CallInv(c)'
  BY <1>2 DEF CallInv, NoCall, LockedPcs
<1>12. \A u \in Unmounters : UnmounterInv(u)'
  BY <1>2 DEF UnmounterInv, UnmounterIdle
<1>. QED
  BY <1>4, <1>5, <1>6, <1>7, <1>8, <1>9, <1>10, <1>11, <1>12 DEF NodeInv, TypeOK

-----------------------------------------------------------------------------
LEMMA NodeStep == ASSUME NodeInv, [Next]_vars PROVE NodeInv'
<1>1. CASE MounterNext /\ UNCHANGED <<unmounter, restarts>>
  <2>1. ASSUME NEW c \in Calls, CallStep(c) PROVE NodeInv'
    BY <1>1, <2>1, GetS3PodAttachmentKeeps, WaitForMountpointPodKeeps, LockMountpointPodKeeps, CheckSourceKeeps,
       ProvideCredentialsKeeps, MountSyscallKeeps, SendMountOptionsKeeps, WaitForMountKeeps, BindMountKeeps,
       UnmountTargetKeeps DEF CallStep
  <2>2. ASSUME NEW c \in Calls, Expire(c) PROVE NodeInv'
    BY <1>1, <2>2, ExpireKeeps
  <2>3. ASSUME NEW c \in Calls, NEW t \in Targets, PublishVolume(c, t) \/ UnpublishVolume(c, t) PROVE NodeInv'
    BY <1>1, <2>3, PublishVolumeKeeps, UnpublishVolumeKeeps
  <2>4. MounterTypeOK
    BY DEF NodeInv, TypeOK
  <2>5. ASSUME NEW t \in Targets, WorkloadScheduled(t) \/ WorkloadTerminates(t) PROVE NodeInv'
    <3>1. /\ workload' \in [Targets -> {"none", "wanted", "terminated", "unpublished"}]
          /\ UNCHANGED <<hostVars, attachment, call, expiries>>
      BY <2>4, <2>5 DEF MounterTypeOK, WorkloadScheduled, WorkloadTerminates
    <3>. QED
      BY <1>1, <2>4, <3>1, WorkloadKeeps DEF MounterTypeOK
  <2>6. ASSUME NEW t \in Targets, ControllerDetaches(t) \/ \E p \in MountpointPods : ControllerAttaches(t, p)
        PROVE  NodeInv'
    <3>1. /\ attachment' \in [Targets -> MountpointPods \cup {Nil}]
          /\ UNCHANGED <<hostVars, workload, call, expiries>>
      BY <2>4, <2>6 DEF MounterTypeOK, ControllerDetaches, ControllerAttaches
    <3>. QED
      BY <1>1, <2>4, <3>1, WorkloadKeeps DEF MounterTypeOK
  <2>7. ASSUME NEW p \in MountpointPods, ControllerAnnotates(p) PROVE NodeInv'
    BY <1>1, <2>7, ControllerAnnotatesKeeps
  <2>. QED
    BY <1>1, <2>1, <2>2, <2>3, <2>5, <2>6, <2>7 DEF MounterNext
<1>2. CASE UnmounterNext /\ UNCHANGED <<mounterVars, restarts>>
  <2>1. ASSUME NEW u \in Unmounters, UnmounterStep(u) PROVE NodeInv'
    BY <1>2, <2>1, UnmountMountpointPodIfNeededKeeps, WriteExitFileKeeps, CheckMountpointSourceKeeps,
       WaitUntilMountpointIsUnusedKeeps, UnmountSourceKeeps, RemoveSourceKeeps, CleanupCredentialsKeeps
       DEF UnmounterStep
  <2>2. ASSUME NEW p \in MountpointPods, HandleMountpointPodUpdate(p) \/ NextEntry(p) PROVE NodeInv'
    BY <1>2, <2>2, HandleMountpointPodUpdateKeeps, NextEntryKeeps
  <2>3. CASE CleanupDanglingMounts
    BY <1>2, <2>3, CleanupDanglingMountsKeeps
  <2>. QED
    BY <1>2, <2>1, <2>2, <2>3 DEF UnmounterNext
<1>3. CASE PodsNext /\ UNCHANGED <<mounterVars, unmounter, restarts>>
  <2>1. ASSUME NEW p \in MountpointPods, ContainerStep(p) PROVE NodeInv'
    <3>1. CASE RecvFails(p) \/ RunEnds(p)
      BY <1>3, <3>1, ExitKeeps DEF RecvFails, RunEnds
    <3>2. CASE Serve(p)
      BY <1>3, <3>2, ServeKeeps
    <3>. QED
      BY <2>1, <3>1, <3>2 DEF ContainerStep
  <2>2. ASSUME NEW p \in MountpointPods, RunFails(p, NodeHoldsFd(p)) \/ DeleteRunning(p, NodeHoldsFd(p)) PROVE NodeInv'
    BY <1>3, <2>2, RunFailsKeeps, DeleteRunningKeeps
  <2>3. ASSUME NEW p \in MountpointPods, Observe(p) \/ DeleteSucceeded(p) PROVE NodeInv'
    BY <1>3, <2>3, ObserveKeeps, DeleteSucceededKeeps
  <2>. QED
    BY <1>3, <2>1, <2>2, <2>3 DEF PodsNext
<1>4. CASE Restart
  BY <1>4, RestartKeeps
<1>5. CASE UNCHANGED vars
  <2>1. UNCHANGED <<hostVars, call, expiries, unmounter, restarts>> /\ UNCHANGED <<workload, attachment>>
    BY <1>5 DEF vars, mounterVars
  <2>. QED
    BY <2>1, WorkloadKeeps DEF NodeInv, TypeOK, MounterTypeOK
<1>. QED
  BY <1>1, <1>2, <1>3, <1>4, <1>5 DEF Next

(* The node's inductive invariant: what the phase, process, source, files and   *)
(* bind mounts of a Mountpoint Pod say of each other, what every call and every *)
(* goroutine of the unmounter may rely on between two of its steps, and that    *)
(* each lock has one holder.                                                    *)
THEOREM NodeInvariant == Spec => []NodeInv
BY NodeInit, NodeStep, PTL DEF Spec

(* A FUSE mount that waits for an answer always has someone to answer it or to  *)
(* take it away: a Mount call that holds its descriptor, or a mount-s3 that     *)
(* starts on it, through crashes, deletions and restarts of the plugin.         *)
THEOREM NoMountAbandoned == Spec => []NoAbandonedMount
<1>1. NodeInv => NoAbandonedMount
  BY DEF NodeInv
<1>. QED
  BY <1>1, NodeInvariant, PTL

(* A workload whose target shows a live file system has credentials in the Pod  *)
(* that serves it: Mount writes them before its bind mount, and the unmounter   *)
(* removes them only when no bind mount is left.                                *)
THEOREM WorkloadsKeepCredentials == Spec => []WorkloadHasCredentials
<1>1. ASSUME NodeInv PROVE WorkloadHasCredentials
  <2>. SUFFICES ASSUME NEW t \in Targets, NEW p \in MountpointPods,
                       bound[t] # <<>>, Head(bound[t]) = [mp |-> p, fs |-> "live"]
                PROVE  files[p].creds
    BY DEF WorkloadHasCredentials
  <2>1. bound \in [Targets -> Seq(MountType)] /\ PodInv(p)
    BY <1>1 DEF NodeInv, TypeOK, HostTypeOK
  <2>2. 1 \in DOMAIN bound[t] /\ bound[t][1] = [mp |-> p, fs |-> "live"]
    BY <2>1
  <2>3. Live(p)
    BY <2>1, <2>2 DEF Live, HasLive
  <2>. QED
    BY <2>1, <2>3 DEF PodInv
<1>. QED
  BY <1>1, NodeInvariant, PTL

(* A target is bound to the bare directory of a source only for a Mountpoint    *)
(* Pod that no longer exists: the scan that takes no lock removes only what the *)
(* informer saw and has no more.                                                *)
THEOREM BareMountsAreOfDeletedPods == Spec => []BareOnlyOfDeleted
<1>1. ASSUME NodeInv PROVE BareOnlyOfDeleted
  <2>. SUFFICES ASSUME NEW t \in Targets, NEW i \in DOMAIN bound[t], bound[t][i].fs = "bare"
                PROVE  pod[bound[t][i].mp] = "gone"
    BY DEF BareOnlyOfDeleted
  <2>1. bound \in [Targets -> Seq(MountType)] /\ \A q \in MountpointPods : PodInv(q)
    BY <1>1 DEF NodeInv, TypeOK, HostTypeOK
  <2>2. bound[t][i] \in MountType
    BY <2>1
  <2>3. bound[t][i].mp \in MountpointPods /\ bound[t][i] = [mp |-> bound[t][i].mp, fs |-> "bare"]
    BY <2>2 DEF MountType
  <2>4. Bare(bound[t][i].mp)
    BY <2>3 DEF Bare, In
  <2>. QED
    BY <2>1, <2>3, <2>4 DEF PodInv
<1>. QED
  BY <1>1, NodeInvariant, PTL

(* The unmounter, or a Mount that fails, never takes a served file system from  *)
(* under a target: any step that could leaves the bind mounts as they are, and  *)
(* after it a live bind mount would still need a served source.                 *)
THEOREM WorkloadsSpared == Spec => UnmountSparesWorkloads
<1>1. ASSUME NodeInv, NodeInv', [Next]_vars
      PROVE  \A p \in MountpointPods : source[p] = "served" /\ source'[p] = "dir" => ~HasLive(bound, p)
  <2>. SUFFICES ASSUME NEW p \in MountpointPods, source[p] = "served", source'[p] = "dir" PROVE ~HasLive(bound, p)
    OBVIOUS
  <2>1. bound' = bound
    <3>1. CASE MounterNext
      <4>1. ASSUME NEW c \in Calls, CallStep(c) PROVE bound' = bound
        <5>1. CASE BindMount(c) \/ UnmountTarget(c)
          BY <5>1 DEF BindMount, UnmountTarget, Mounts
        <5>2. CASE GetS3PodAttachment(c) \/ WaitForMountpointPod(c) \/ LockMountpointPod(c, Free(call[c].mp))
          BY <5>2 DEF GetS3PodAttachment, WaitForMountpointPod, LockMountpointPod, hostVars
        <5>3. CASE CheckSource(c) \/ ProvideCredentials(c) \/ MountSyscall(c)
          BY <5>3 DEF CheckSource, ProvideCredentials, MountSyscall, FailMount, Mounts, hostVars
        <5>4. CASE SendMountOptions(c) \/ WaitForMount(c)
          BY <5>4 DEF SendMountOptions, WaitForMount, FailMount, Mounts, hostVars
        <5>. QED
          BY <4>1, <5>1, <5>2, <5>3, <5>4 DEF CallStep
      <4>2. ASSUME NEW c \in Calls, Expire(c) \/ \E t \in Targets : PublishVolume(c, t) \/ UnpublishVolume(c, t)
            PROVE  bound' = bound
        BY <4>2 DEF Expire, PublishVolume, UnpublishVolume, Mounts, hostVars
      <4>3. ASSUME NEW t \in Targets,
                   \/ WorkloadScheduled(t) \/ WorkloadTerminates(t) \/ ControllerDetaches(t)
                   \/ \E q \in MountpointPods : ControllerAttaches(t, q)
            PROVE  bound' = bound
        BY <4>3 DEF WorkloadScheduled, WorkloadTerminates, ControllerAttaches, ControllerDetaches, hostVars
      <4>4. ASSUME NEW q \in MountpointPods, ControllerAnnotates(q) PROVE bound' = bound
        BY <4>4 DEF ControllerAnnotates, hostVars
      <4>. QED
        BY <3>1, <4>1, <4>2, <4>3, <4>4 DEF MounterNext
    <3>2. CASE UnmounterNext
      BY <3>2 DEF UnmounterNext, UnmounterStep, CleanupDanglingMounts, HandleMountpointPodUpdate, NextEntry,
         UnmountMountpointPodIfNeeded, WriteExitFile, CheckMountpointSource, WaitUntilMountpointIsUnused,
         UnmountSource, RemoveSource, CleanupCredentials, Mounts, hostVars
    <3>3. CASE PodsNext
      <4>1. source \in [MountpointPods -> SourceStates]
        BY <1>1 DEF NodeInv, TypeOK, HostTypeOK
      <4>2. \A q \in MountpointPods : \A next : ~ProcessDies(q, next, NodeHoldsFd(q))
        BY <4>1 DEF ProcessDies
      <4>. QED
        BY <3>3, <4>2 DEF PodsNext, ContainerStep, RecvFails, Serve, RunFails, RunEnds, Observe, DeleteSucceeded,
           DeleteRunning
    <3>4. CASE Restart
      BY <3>4 DEF Restart
    <3>5. CASE UNCHANGED vars
      BY <3>5 DEF vars, hostVars
    <3>. QED
      BY <1>1, <3>1, <3>2, <3>3, <3>4, <3>5 DEF Next
  <2>2. PodInv(p)'
    BY <1>1 DEF NodeInv
  <2>. QED
    BY <2>1, <2>2 DEF PodInv, Live
<1>. QED
  BY <1>1, NodeInvariant, PTL DEF Spec, UnmountSparesWorkloads

-----------------------------------------------------------------------------
(* How many mounts of a file system a target carries is a matter of who will   *)
(* bind it next: a call that saw it unmounted, and those the kubelet gave up   *)
(* on, which may do so long after the target was mounted by another.           *)

(* A mount more or less on a target *)
LEMMA FsFinite ==
    ASSUME NEW b \in Seq(MountType)
    PROVE  IsFiniteSet(FsMounts(b)) /\ Cardinality(FsMounts(b)) \in Nat
<1>1. IsFiniteSet(1..Len(b)) /\ FsMounts(b) \in SUBSET (1..Len(b))
  BY FS_Interval DEF FsMounts
<1>2. IsFiniteSet(FsMounts(b))
  BY <1>1, FS_Subset
<1>. QED
  BY <1>2, FS_CardinalityType

LEMMA FsPush ==
    ASSUME NEW b \in Seq(MountType), NEW m \in MountType
    PROVE  Cardinality(FsMounts(<<m>> \o b)) =
             IF m.fs # "bare" THEN Cardinality(FsMounts(b)) + 1 ELSE Cardinality(FsMounts(b))
<1>. DEFINE x == <<m>> \o b
            S == {i + 1 : i \in FsMounts(b)}
            f == [i \in FsMounts(b) |-> i + 1]
<1>1. /\ Len(b) \in Nat /\ DOMAIN b = 1..Len(b)
      /\ Len(x) = Len(b) + 1 /\ DOMAIN x = 1..(Len(b) + 1)
      /\ x[1] = m /\ \A i \in 1..Len(b) : x[i + 1] = b[i]
  OBVIOUS
<1>2. FsMounts(b) \subseteq 1..Len(b)
  BY <1>1 DEF FsMounts
<1>. HIDE DEF x
<1>3. FsMounts(x) = IF m.fs # "bare" THEN S \cup {1} ELSE S
  <2>1. ASSUME NEW i \in FsMounts(x), i # 1 PROVE i \in S
    <3>1. i \in 1..(Len(b) + 1) /\ x[i].fs # "bare"
      BY <1>1, <2>1 DEF FsMounts
    <3>2. i - 1 \in 1..Len(b) /\ x[(i - 1) + 1] = b[i - 1] /\ (i - 1) + 1 = i
      BY <1>1, <2>1, <3>1
    <3>3. i - 1 \in FsMounts(b)
      BY <1>1, <3>1, <3>2 DEF FsMounts
    <3>. QED
      BY <3>2, <3>3
  <2>2. ASSUME NEW i \in FsMounts(b) PROVE i + 1 \in FsMounts(x) /\ i + 1 # 1
    <3>1. i \in 1..Len(b) /\ b[i].fs # "bare"
      BY <1>1, <2>2 DEF FsMounts
    <3>2. i + 1 \in 1..(Len(b) + 1) /\ x[i + 1] = b[i] /\ i + 1 # 1
      BY <1>1, <3>1
    <3>. QED
      BY <1>1, <3>1, <3>2 DEF FsMounts
  <2>3. 1 \in FsMounts(x) <=> m.fs # "bare"
    BY <1>1 DEF FsMounts
  <2>. QED
    BY <2>1, <2>2, <2>3
<1>4. f \in Bijection(FsMounts(b), S)
  <2>1. \A i \in FsMounts(b) : i \in Int
    BY <1>1, <1>2
  <2>2. f \in [FsMounts(b) -> S]
    OBVIOUS
  <2>3. \A i, j \in FsMounts(b) : f[i] = f[j] => i = j
    BY <2>1
  <2>4. \A s \in S : \E i \in FsMounts(b) : f[i] = s
    OBVIOUS
  <2>. QED
    BY <2>2, <2>3, <2>4, Fun_IsBij
<1>5. IsFiniteSet(S) /\ Cardinality(S) = Cardinality(FsMounts(b))
  BY <1>4, FsFinite, FS_Bijection DEF ExistsBijection
<1>6. 1 \notin S
  BY <1>1, <1>2
<1>. QED
  BY <1>3, <1>5, <1>6, FS_AddElement DEF x

LEMMA FsTail ==
    ASSUME NEW b \in Seq(MountType), b # <<>>
    PROVE  /\ Tail(b) \in Seq(MountType)
           /\ Cardinality(FsMounts(b)) =
                IF Head(b).fs # "bare" THEN Cardinality(FsMounts(Tail(b))) + 1
                                       ELSE Cardinality(FsMounts(Tail(b)))
<1>1. Head(b) \in MountType /\ Tail(b) \in Seq(MountType) /\ b = <<Head(b)>> \o Tail(b)
  OBVIOUS
<1>2. PICK m, x : m = Head(b) /\ x = Tail(b)
  OBVIOUS
<1>3. m \in MountType /\ x \in Seq(MountType) /\ b = <<m>> \o x
  BY <1>1, <1>2
<1>4. Cardinality(FsMounts(<<m>> \o x)) =
        IF m.fs # "bare" THEN Cardinality(FsMounts(x)) + 1 ELSE Cardinality(FsMounts(x))
  BY <1>3, FsPush
<1>. QED
  BY <1>1, <1>2, <1>3, <1>4

(* A target shows no mount of a file system: TargetState is "dir". *)
ShowsNone(b) == b = <<>> \/ Head(b).fs = "bare"

(* The mounts of a target and the calls B that will bind it, X of all calls     *)
(* having expired, e so far: together they are one and an expired call each,    *)
(* and one less if the target shows no mount and nobody is about to bind it     *)
(* whom the kubelet waits for.                                                  *)
CountOK(b, B, X, e) ==
    /\ IsFiniteSet(B)
    /\ Cardinality(FsMounts(b)) + Cardinality(B) <= 1 + e
    /\ ShowsNone(b) /\ B \subseteq X => Cardinality(FsMounts(b)) + Cardinality(B) <= e

LEMMA CountFewer ==
    ASSUME NEW b \in Seq(MountType), NEW b2 \in Seq(MountType), NEW B, NEW B2, NEW X, NEW X2, NEW e \in Nat,
           CountOK(b, B, X, e), FsMounts(b2) = FsMounts(b), ShowsNone(b2) => ShowsNone(b),
           B2 \subseteq B, B2 \cap X2 \subseteq X
    PROVE  CountOK(b2, B2, X2, e)
<1>1. /\ IsFiniteSet(B) /\ IsFiniteSet(B2) /\ Cardinality(B) \in Nat /\ Cardinality(B2) \in Nat
      /\ Cardinality(B2) <= Cardinality(B) /\ (Cardinality(B2) = Cardinality(B) => B2 = B)
  BY FS_Subset, FS_CardinalityType DEF CountOK
<1>2. Cardinality(FsMounts(b)) \in Nat
  BY FsFinite
<1>3. CASE B2 = B
  BY <1>1, <1>2, <1>3 DEF CountOK
<1>4. CASE B2 # B
  <2>1. Cardinality(B2) + 1 <= Cardinality(B)
    BY <1>1, <1>4
  <2>. QED
    BY <1>1, <1>2, <2>1 DEF CountOK
<1>. QED
  BY <1>3, <1>4

LEMMA CountLeaves ==
    ASSUME NEW b \in Seq(MountType), NEW B, NEW B2, NEW X, NEW X2, NEW e \in Nat,
           CountOK(b, B, X, e), B2 \subseteq B, B2 \cap X2 \subseteq X
    PROVE  CountOK(b, B2, X2, e)
BY CountFewer

LEMMA CountTail ==
    ASSUME NEW b \in Seq(MountType), b # <<>>, NEW B, NEW X, NEW e \in Nat, CountOK(b, B, X, e)
    PROVE  CountOK(Tail(b), B, X, e)
<1>1. IsFiniteSet(B) /\ Cardinality(B) \in Nat
  BY FS_CardinalityType DEF CountOK
<1>2. PICK x : x = Tail(b)
  OBVIOUS
<1>3. x \in Seq(MountType) /\ Cardinality(FsMounts(x)) \in Nat /\ Cardinality(FsMounts(b)) \in Nat
  BY <1>2, FsTail, FsFinite
<1>4. Cardinality(FsMounts(b)) = IF Head(b).fs # "bare" THEN Cardinality(FsMounts(x)) + 1 ELSE Cardinality(FsMounts(x))
  BY <1>2, FsTail
<1>5. CASE Head(b).fs = "bare"
  BY <1>1, <1>2, <1>3, <1>4, <1>5 DEF CountOK, ShowsNone
<1>6. CASE Head(b).fs # "bare"
  BY <1>1, <1>2, <1>3, <1>4, <1>6 DEF CountOK
<1>. QED
  BY <1>5, <1>6

LEMMA CountPush ==
    ASSUME NEW b \in Seq(MountType), NEW m \in MountType, NEW B, NEW c \in B, NEW X, NEW e \in Nat,
           CountOK(b, B, X, e)
    PROVE  CountOK(<<m>> \o b, B \ {c}, X, e)
<1>1. /\ IsFiniteSet(B) /\ IsFiniteSet(B \ {c}) /\ Cardinality(B) \in Nat
      /\ Cardinality(B \ {c}) = Cardinality(B) - 1
  BY FS_CardinalityType, FS_RemoveElement DEF CountOK
<1>2. PICK x : x = <<m>> \o b
  OBVIOUS
<1>3. x \in Seq(MountType) /\ x # <<>> /\ Head(x) = m /\ Cardinality(FsMounts(b)) \in Nat
  BY <1>2, FsFinite
<1>4. Cardinality(FsMounts(x)) = IF m.fs # "bare" THEN Cardinality(FsMounts(b)) + 1 ELSE Cardinality(FsMounts(b))
  BY <1>2, FsPush
<1>5. CountOK(x, B \ {c}, X, e)
  <2>1. CASE m.fs # "bare"
    BY SMTT(60), <1>1, <1>3, <1>4, <2>1 DEF CountOK, ShowsNone
  <2>2. CASE m.fs = "bare"
    BY <1>1, <1>3, <1>4, <2>2 DEF CountOK
  <2>. QED
    BY <2>1, <2>2
<1>. QED
  BY <1>2, <1>5

LEMMA CountJoins ==
    ASSUME NEW b \in Seq(MountType), NEW B, NEW c, c \notin B, NEW X, NEW X2, NEW e \in Nat,
           CountOK(b, B, X, e), B \subseteq X, c \notin X2, ShowsNone(b) \/ (b # <<>> /\ Head(b).fs = "dead")
    PROVE  CountOK(IF ShowsNone(b) THEN b ELSE Tail(b), B \cup {c}, X2, e)
<1>1. /\ IsFiniteSet(B \cup {c}) /\ Cardinality(B) \in Nat
      /\ Cardinality(B \cup {c}) = Cardinality(B) + 1
  BY FS_CardinalityType, FS_AddElement DEF CountOK
<1>2. Cardinality(FsMounts(b)) \in Nat
  BY FsFinite
<1>3. CASE ShowsNone(b)
  BY <1>1, <1>2, <1>3 DEF CountOK
<1>4. CASE ~ShowsNone(b)
  <2>1. PICK x : x = Tail(b)
    OBVIOUS
  <2>2. Cardinality(FsMounts(b)) = Cardinality(FsMounts(x)) + 1 /\ Cardinality(FsMounts(x)) \in Nat
    BY <1>4, <2>1, FsTail, FsFinite DEF ShowsNone
  <2>. QED
    BY <1>1, <1>2, <1>4, <2>1, <2>2 DEF CountOK
<1>. QED
  BY <1>3, <1>4

LEMMA CountExpires ==
    ASSUME NEW b \in Seq(MountType), NEW B, NEW X, NEW X2, NEW e \in Nat, CountOK(b, B, X, e)
    PROVE  CountOK(b, B, X2, e + 1)
<1>1. Cardinality(FsMounts(b)) \in Nat /\ Cardinality(B) \in Nat
  BY FsFinite, FS_CardinalityType DEF CountOK
<1>. QED
  BY <1>1 DEF CountOK

-----------------------------------------------------------------------------
(* The steps of a call: what it works for and saw of the target stays. *)
LEMMA CallMoves ==
    ASSUME MounterTypeOK, NEW c \in Calls, CallStep(c)
    PROVE  /\ \A d \in Calls \ {c} : call'[d] = call[d]
           /\ \/ call'[c] = NoCall
              \/ /\ call[c].pc \notin {"idle", "unmount"}
                 /\ call'[c].target = call[c].target /\ call'[c].isTarget = call[c].isTarget
                 /\ call'[c].expired = call[c].expired
                 /\ call'[c].mp = call[c].mp \/ call'[c].mp = attachment[call[c].target]
<1>. DEFINE Kept == /\ \A d \in Calls \ {c} : call'[d] = call[d]
                    /\ call'[c].target = call[c].target /\ call'[c].isTarget = call[c].isTarget
                    /\ call'[c].expired = call[c].expired
                    /\ call'[c].mp = call[c].mp \/ call'[c].mp = attachment[call[c].target]
<1>1. call \in [Calls -> CallType]
  BY DEF MounterTypeOK
<1>2. Return(c) => call'[c] = NoCall /\ \A d \in Calls \ {c} : call'[d] = call[d]
  BY <1>1 DEF Return
<1>3. ASSUME NEW pc, Goto(c, pc) PROVE Kept
  BY <1>1, <1>3 DEF Goto, CallType
<1>4. CASE GetS3PodAttachment(c)
  <2>1. CASE call' = [call EXCEPT ![c].pc = "pod", ![c].mp = attachment[call[c].target]]
    BY <1>1, <1>4, <2>1 DEF GetS3PodAttachment, CallType
  <2>. QED
    BY <1>2, <1>4, <2>1 DEF GetS3PodAttachment
<1>5. CASE CheckSource(c)
  BY <1>1, <1>5 DEF CheckSource, CallType
<1>6. CASE WaitForMountpointPod(c) \/ LockMountpointPod(c, Free(call[c].mp)) \/ ProvideCredentials(c) \/ MountSyscall(c)
  BY <1>2, <1>3, <1>6 DEF WaitForMountpointPod, LockMountpointPod, ProvideCredentials, MountSyscall
<1>7. CASE SendMountOptions(c) \/ WaitForMount(c) \/ BindMount(c) \/ UnmountTarget(c)
  BY <1>2, <1>3, <1>7 DEF SendMountOptions, WaitForMount, BindMount, UnmountTarget, FailMount
<1>. QED
  BY <1>4, <1>5, <1>6, <1>7 DEF CallStep

(* What else a step of a call changes of the targets *)
LEMMA CallSpares ==
    ASSUME MounterTypeOK, NEW c \in Calls, CallStep(c)
    PROVE  /\ UNCHANGED <<attachment, expiries>>
           /\ \/ UNCHANGED <<bound, workload>>
              \/ BindMount(c) /\ UNCHANGED workload
              \/ UnmountTarget(c)
BY DEF CallStep, GetS3PodAttachment, WaitForMountpointPod, LockMountpointPod, CheckSource, ProvideCredentials,
   MountSyscall, SendMountOptions, WaitForMount, BindMount, UnmountTarget, FailMount, Mounts, hostVars

(* The calls that will bind t unless they fail, and those that expired *)
Binders(t) ==
    {c \in Calls : call[c].target = t /\ ~call[c].isTarget /\ call[c].pc \notin {"idle", "unmount"}}
Expired == {c \in Calls : call[c].expired}

CountInv == \A t \in Targets : CountOK(bound[t], Binders(t), Expired, expiries)

LEMMA CountTypes ==
    ASSUME NodeInv, NodeInv'
    PROVE  /\ bound \in [Targets -> Seq(MountType)] /\ bound' \in [Targets -> Seq(MountType)]
           /\ expiries \in Nat /\ MounterTypeOK /\ call \in [Calls -> CallType]
BY CallsAssumption DEF NodeInv, TypeOK, HostTypeOK, MounterTypeOK

(* What the target shows *)
LEMMA Shows ==
    ASSUME NodeInv, NEW t \in Targets
    PROVE  /\ ShowsNone(bound[t]) <=> TargetState(t) = "dir"
           /\ TargetState(t) = "corrupted" <=> bound[t] # <<>> /\ Head(bound[t]).fs = "dead"
           /\ TargetState(t) \in {"dir", "served", "corrupted"}
<1>1. bound[t] # <<>> => Head(bound[t]) \in MountType
  BY DEF NodeInv, TypeOK, HostTypeOK
<1>. QED
  BY <1>1 DEF ShowsNone, TargetState, MountType

(* No call joins those that will bind a target, and its mounts stay. *)
LEMMA CountKept ==
    ASSUME NodeInv, NodeInv', CountInv, UNCHANGED expiries,
           \A t \in Targets : FsMounts(bound'[t]) = FsMounts(bound[t])
                              /\ (ShowsNone(bound'[t]) => ShowsNone(bound[t])),
           \A d \in Calls : call'[d].pc \in {"idle", "unmount"} \/
              /\ call[d].pc \notin {"idle", "unmount"} /\ call'[d].target = call[d].target
              /\ call'[d].isTarget = call[d].isTarget /\ call'[d].expired = call[d].expired
    PROVE  CountInv'
<1>1. ASSUME NEW t \in Targets PROVE CountOK(bound'[t], Binders(t)', Expired', expiries')
  <2>1. Binders(t)' \subseteq Binders(t) /\ Binders(t)' \cap Expired' \subseteq Expired
    BY DEF Binders, Expired
  <2>2. bound[t] \in Seq(MountType) /\ bound'[t] \in Seq(MountType) /\ expiries \in Nat
    BY CountTypes
  <2>3. CountOK(bound[t], Binders(t), Expired, expiries)
    BY DEF CountInv
  <2>. HIDE DEF Binders, Expired
  <2>. QED
    BY <1>1, <2>1, <2>2, <2>3, CountFewer
<1>. QED
  BY <1>1 DEF CountInv

LEMMA CountExpire ==
    ASSUME NodeInv, NodeInv', CountInv, NEW c \in Calls, Expire(c)
    PROVE  CountInv'
<1>0. /\ UNCHANGED bound /\ expiries' = expiries + 1 /\ call' = [call EXCEPT ![c].expired = TRUE]
  BY DEF Expire, hostVars
<1>1. \A d \in Calls : /\ call'[d].pc = call[d].pc /\ call'[d].target = call[d].target
                        /\ call'[d].isTarget = call[d].isTarget
  BY <1>0, CountTypes DEF CallType
<1>2. ASSUME NEW t \in Targets PROVE CountOK(bound'[t], Binders(t)', Expired', expiries')
  <2>1. Binders(t)' = Binders(t)
    BY <1>1 DEF Binders
  <2>2. bound[t] \in Seq(MountType) /\ expiries \in Nat
    BY CountTypes
  <2>3. CountOK(bound[t], Binders(t), Expired, expiries)
    BY DEF CountInv
  <2>. QED
    BY <1>0, <2>1, <2>2, <2>3, CountExpires
<1>. QED
  BY <1>2 DEF CountInv

(* A call that starts while nobody the kubelet waits for is on the target: the *)
(* mount or the call it adds is the one a target may have.                     *)
LEMMA CountPublish ==
    ASSUME NodeInv, NodeInv', CountInv, NEW c \in Calls, NEW t \in Targets, PublishVolume(c, t)
    PROVE  CountInv'
<1>. DEFINE r == [NoCall EXCEPT !.pc = "attachment", !.target = t, !.isTarget = TargetState(t) = "served"]
<1>1. /\ r.pc = "attachment" /\ r.target = t /\ r.isTarget = (TargetState(t) = "served") /\ ~r.expired
  BY DEF NoCall
<1>2. /\ call' = [call EXCEPT ![c] = r] /\ UNCHANGED expiries
      /\ bound' = [bound EXCEPT ![t] = IF TargetState(t) = "corrupted" THEN Tail(@) ELSE @]
      /\ call[c].pc = "idle" /\ \A d \in Calls : call[d].target = t => call[d].expired
  BY DEF PublishVolume, Mounts, MayCall
<1>. HIDE DEF r
<1>3. /\ call'[c] = r /\ \A d \in Calls \ {c} : call'[d] = call[d]
      /\ \A s \in Targets \ {t} : bound'[s] = bound[s]
      /\ bound'[t] = IF TargetState(t) = "corrupted" THEN Tail(bound[t]) ELSE bound[t]
  BY <1>2, CountTypes
<1>4. ASSUME NEW s \in Targets PROVE CountOK(bound'[s], Binders(s)', Expired', expiries')
  <2>1. /\ bound[s] \in Seq(MountType) /\ bound'[s] \in Seq(MountType) /\ expiries \in Nat
        /\ CountOK(bound[s], Binders(s), Expired, expiries)
    BY CountTypes DEF CountInv
  <2>2. CASE s # t \/ r.isTarget
    <3>1. Binders(s)' \subseteq Binders(s) /\ Binders(s)' \cap Expired' \subseteq Expired
      BY <1>1, <1>3, <2>2 DEF Binders, Expired
    <3>2. bound'[s] = bound[s]
      BY <1>1, <1>3, <2>2
    <3>. QED
      BY <1>2, <2>1, <3>1, <3>2, CountFewer
  <2>3. CASE s = t /\ ~r.isTarget
    <3>1. /\ Binders(t)' = Binders(t) \cup {c} /\ c \notin Binders(t)
          /\ c \notin Expired' /\ Binders(t) \subseteq Expired
      BY <1>1, <1>2, <1>3, <2>3 DEF Binders, Expired
    <3>2. /\ ShowsNone(bound[t]) \/ (bound[t] # <<>> /\ Head(bound[t]).fs = "dead")
          /\ bound'[t] = IF ShowsNone(bound[t]) THEN bound[t] ELSE Tail(bound[t])
      BY <1>1, <1>3, <2>3, Shows
    <3>3. CountOK(bound[t], Binders(t), Expired, expiries)
      BY <2>1, <2>3
    <3>4. CountOK(IF ShowsNone(bound[t]) THEN bound[t] ELSE Tail(bound[t]), Binders(t) \cup {c}, Expired', expiries)
      BY <2>1, <2>3, <3>1, <3>2, <3>3, CountJoins
    <3>. QED
      BY <1>2, <2>3, <3>1, <3>2, <3>4
  <2>. QED
    BY <2>2, <2>3
<1>. QED
  BY <1>4 DEF CountInv

(* Mount binds its target: the mount takes the place of the call. *)
LEMMA CountBind ==
    ASSUME NodeInv, NodeInv', CountInv, NEW c \in Calls, BindMount(c)
    PROVE  CountInv'
<1>. DEFINE n == [mp |-> call[c].mp,
                  fs |-> [served |-> "live", pending |-> "live", corrupted |-> "dead", dir |-> "bare"][source[call[c].mp]]]
<1>0. PICK t : t = call[c].target
  OBVIOUS
<1>1. /\ call[c].pc = "bind" /\ Return(c) /\ UNCHANGED expiries
      /\ bound' = IF call[c].isTarget \/ source[call[c].mp] = "absent" THEN bound
                  ELSE [bound EXCEPT ![t] = <<n>> \o @]
  BY <1>0 DEF BindMount
<1>2. t \in Targets /\ call[c].mp \in MountpointPods /\ HostTypeOK
  BY <1>0, <1>1, LockedCall DEF LockedPcs
<1>3. source[call[c].mp] # "absent" => n \in MountType
  BY <1>2 DEF HostTypeOK, SourceStates, MountType
<1>4. /\ call'[c].pc = "idle" /\ \A d \in Calls \ {c} : call'[d] = call[d]
  BY <1>1, CountTypes DEF Return, NoCall
<1>. HIDE DEF n
<1>5. CASE bound' = bound
  BY <1>1, <1>4, <1>5, CountKept
<1>6. CASE bound' # bound
  <2>1. ~call[c].isTarget /\ n \in MountType /\ bound' = [bound EXCEPT ![t] = <<n>> \o @]
    BY <1>1, <1>3, <1>6
  <2>2. ASSUME NEW s \in Targets PROVE CountOK(bound'[s], Binders(s)', Expired', expiries')
    <3>1. /\ bound[s] \in Seq(MountType) /\ bound'[s] \in Seq(MountType) /\ expiries \in Nat
          /\ CountOK(bound[s], Binders(s), Expired, expiries)
      BY CountTypes DEF CountInv
    <3>2. Binders(s)' \subseteq Binders(s) /\ Binders(s)' \cap Expired' \subseteq Expired
      BY <1>4 DEF Binders, Expired
    <3>3. CASE s # t
      <4>1. bound'[s] = bound[s]
        BY <2>1, <3>3, CountTypes
      <4>. QED
        BY <1>1, <3>1, <3>2, <4>1, CountFewer
    <3>4. CASE s = t
      <4>1. c \in Binders(t) /\ Binders(t)' = Binders(t) \ {c}
        BY <1>0, <1>1, <1>4, <2>1 DEF Binders
      <4>2. bound'[t] = <<n>> \o bound[t]
        BY <1>2, <2>1, CountTypes
      <4>3. CountOK(<<n>> \o bound[t], Binders(t) \ {c}, Expired, expiries)
        BY <2>1, <3>1, <3>4, <4>1, CountPush
      <4>4. <<n>> \o bound[t] \in Seq(MountType)
        BY <3>1, <3>4, <4>2
      <4>5. Binders(t)' \subseteq Binders(t) \ {c} /\ Binders(t)' \cap Expired' \subseteq Expired
        BY <3>2, <3>4, <4>1
      <4>6. CountOK(bound'[t], Binders(t) \ {c}, Expired, expiries) /\ bound'[t] \in Seq(MountType)
        BY <4>2, <4>3, <4>4
      <4>. HIDE DEF Binders, Expired
      <4>7. CountOK(bound'[t], Binders(t)', Expired', expiries)
        BY <3>1, <4>5, <4>6, CountLeaves
      <4>. QED
        BY <1>1, <3>4, <4>7
    <3>. QED
      BY <3>3, <3>4
  <2>. QED
    BY <2>2 DEF CountInv
<1>. QED
  BY <1>5, <1>6

LEMMA CountUnmount ==
    ASSUME NodeInv, NodeInv', CountInv, NEW c \in Calls, UnmountTarget(c)
    PROVE  CountInv'
<1>0. PICK t : t = call[c].target
  OBVIOUS
<1>1. /\ call[c].pc = "unmount" /\ Return(c) /\ UNCHANGED expiries
      /\ bound' = [bound EXCEPT ![t] = IF @ = <<>> THEN @ ELSE Tail(@)]
  BY <1>0 DEF UnmountTarget, Mounts
<1>2. call'[c].pc = "idle" /\ \A d \in Calls \ {c} : call'[d] = call[d]
  BY <1>1, CountTypes DEF Return, NoCall
<1>3. ASSUME NEW s \in Targets PROVE CountOK(bound'[s], Binders(s)', Expired', expiries')
  <2>1. /\ bound[s] \in Seq(MountType) /\ bound'[s] \in Seq(MountType) /\ expiries \in Nat
        /\ CountOK(bound[s], Binders(s), Expired, expiries)
    BY CountTypes DEF CountInv
  <2>2. Binders(s)' \subseteq Binders(s) /\ Binders(s)' \cap Expired' \subseteq Expired
    BY <1>2 DEF Binders, Expired
  <2>3. bound'[s] = bound[s] \/ (bound[s] # <<>> /\ bound'[s] = Tail(bound[s]))
    BY <1>1, CountTypes
  <2>4. CountOK(bound'[s], Binders(s), Expired, expiries)
    BY <2>1, <2>3, CountTail
  <2>5. CountOK(bound'[s], Binders(s)', Expired', expiries)
    BY <2>1, <2>2, <2>4, CountLeaves
  <2>. QED
    BY <1>1, <2>5
<1>. QED
  BY <1>3 DEF CountInv

(* A process that dies turns live mounts into dead ones. *)
LEMMA CountDies ==
    ASSUME NodeInv, NodeInv', CountInv, NEW p \in MountpointPods, UNCHANGED mounterVars,
           RunFails(p, NodeHoldsFd(p)) \/ DeleteRunning(p, NodeHoldsFd(p))
    PROVE  CountInv'
<1>1. bound' = Died(bound, p)
  BY DEF RunFails, DeleteRunning, ProcessDies, Died
<1>2. ASSUME NEW t \in Targets
      PROVE  FsMounts(bound'[t]) = FsMounts(bound[t]) /\ (ShowsNone(bound'[t]) => ShowsNone(bound[t]))
  <2>1. /\ DOMAIN bound'[t] = DOMAIN bound[t]
        /\ \A i \in DOMAIN bound[t] : bound'[t][i].fs = "bare" <=> bound[t][i].fs = "bare"
    BY <1>1 DEF Died
  <2>2. bound'[t] \in Seq(MountType) /\ bound[t] \in Seq(MountType)
    BY CountTypes
  <2>3. Len(bound'[t]) = Len(bound[t])
    BY <2>1, <2>2
  <2>4. bound[t] # <<>> => /\ bound'[t] # <<>> /\ 1 \in DOMAIN bound[t]
                          /\ Head(bound[t]) = bound[t][1] /\ Head(bound'[t]) = bound'[t][1]
    BY <2>2, <2>3
  <2>. QED
    BY <2>1, <2>4 DEF FsMounts, ShowsNone
<1>. QED
  BY <1>2, CountKept DEF mounterVars

LEMMA CountStep == ASSUME NodeInv, NodeInv', CountInv, [Next]_vars PROVE CountInv'
<1>0. MounterTypeOK /\ call \in [Calls -> CallType]
  BY CountTypes
<1>a. ASSUME UNCHANGED <<bound, expiries>>,
             \A d \in Calls : call'[d].pc \in {"idle", "unmount"} \/
                /\ call[d].pc \notin {"idle", "unmount"} /\ call'[d].target = call[d].target
                /\ call'[d].isTarget = call[d].isTarget /\ call'[d].expired = call[d].expired
      PROVE  CountInv'
  BY <1>a, CountKept
<1>b. UNCHANGED <<bound, expiries, call>> => CountInv'
  BY <1>a
<1>1. CASE MounterNext
  <2>1. ASSUME NEW c \in Calls, CallStep(c) PROVE CountInv'
    <3>1. CASE UNCHANGED <<bound, workload>>
      BY <1>0, <1>a, <2>1, <3>1, CallMoves, CallSpares DEF NoCall
    <3>. QED
      BY <1>0, <2>1, <3>1, CallSpares, CountBind, CountUnmount
  <2>2. ASSUME NEW c \in Calls, NEW t \in Targets, UnpublishVolume(c, t) PROVE CountInv'
    <3>1. /\ UNCHANGED <<bound, expiries>>
          /\ \A d \in Calls : call'[d] = call[d] \/ call'[d].pc = "unmount"
      BY <1>0, <2>2 DEF UnpublishVolume, hostVars, NoCall
    <3>. QED
      BY <1>a, <3>1
  <2>3. ASSUME NEW t \in Targets, WorkloadScheduled(t) \/ WorkloadTerminates(t) \/ ControllerDetaches(t)
                  \/ \E p \in MountpointPods : ControllerAttaches(t, p)
        PROVE  CountInv'
    BY <1>b, <2>3 DEF WorkloadScheduled, WorkloadTerminates, ControllerDetaches, ControllerAttaches, hostVars
  <2>4. ASSUME NEW p \in MountpointPods, ControllerAnnotates(p) PROVE CountInv'
    BY <1>b, <2>4 DEF ControllerAnnotates, mounterVars
  <2>. QED
    BY <1>1, <2>1, <2>2, <2>3, <2>4, CountExpire, CountPublish DEF MounterNext
<1>2. CASE UnmounterNext /\ UNCHANGED mounterVars
  <2>1. UNCHANGED bound
    BY <1>2 DEF UnmounterNext, UnmounterStep, CleanupDanglingMounts, HandleMountpointPodUpdate, NextEntry,
       UnmountMountpointPodIfNeeded, WriteExitFile, CheckMountpointSource, WaitUntilMountpointIsUnused,
       UnmountSource, RemoveSource, CleanupCredentials, Mounts, hostVars
  <2>. QED
    BY <1>2, <1>b, <2>1 DEF mounterVars
<1>3. CASE PodsNext /\ UNCHANGED mounterVars
  <2>1. ASSUME NEW p \in MountpointPods, ContainerStep(p) \/ Observe(p) \/ DeleteSucceeded(p) PROVE UNCHANGED bound
    BY <2>1 DEF ContainerStep, RecvFails, Serve, RunEnds, Observe, DeleteSucceeded
  <2>. QED
    BY <1>3, <1>b, <2>1, CountDies DEF PodsNext, mounterVars
<1>4. CASE Restart
  <2>1. UNCHANGED <<bound, expiries>> /\ \A d \in Calls : call'[d].pc = "idle"
    BY <1>4 DEF Restart, NoCall
  <2>. QED
    BY <1>a, <2>1
<1>5. CASE UNCHANGED vars
  BY <1>5, <1>b DEF vars, hostVars, mounterVars
<1>. QED
  BY <1>1, <1>2, <1>3, <1>4, <1>5 DEF Next

-----------------------------------------------------------------------------
(* Every bare mount is of a Mountpoint Pod of its own. *)
SoleBare(b) ==
    \A t, u \in Targets : \A i \in DOMAIN b[t], j \in DOMAIN b[u] :
        b[t][i].fs = "bare" /\ b[u][j] = b[t][i] => t = u /\ i = j

(* No call is past the credentials of a Pod that left a bare mount: it is gone, *)
(* and who bound it held its lock.                                              *)
PastCredentials == {"mount", "send", "wait", "bind"}
NonePast ==
    \A c \in Calls : call[c].pc \in PastCredentials => ~In(bound, [mp |-> call[c].mp, fs |-> "bare"])

LEMMA SoleTail ==
    ASSUME NEW b \in [Targets -> Seq(MountType)], NEW t \in Targets, b[t] # <<>>, SoleBare(b)
    PROVE  SoleBare([b EXCEPT ![t] = Tail(b[t])])
<1>1. PICK e : e = [b EXCEPT ![t] = Tail(b[t])]
  OBVIOUS
<1>2. e[t] = Tail(b[t]) /\ \A u \in Targets \ {t} : e[u] = b[u]
  BY <1>1
<1>3. /\ DOMAIN e[t] = 1..(Len(b[t]) - 1) /\ DOMAIN b[t] = 1..Len(b[t]) /\ Len(b[t]) \in Nat
      /\ \A i \in 1..(Len(b[t]) - 1) : e[t][i] = b[t][i + 1]
  <2>1. b[t] \in Seq(MountType)
    OBVIOUS
  <2>. QED
    BY <1>2, <2>1
<1>a. \A i \in DOMAIN e[t] : i \in Int /\ i + 1 \in DOMAIN b[t] /\ e[t][i] = b[t][i + 1]
  <2>1. \A i \in 1..(Len(b[t]) - 1) : i \in Int /\ i + 1 \in 1..Len(b[t])
    BY <1>3
  <2>. QED
    BY <1>3, <2>1
<1>4. ASSUME NEW u \in Targets, NEW v \in Targets, NEW i \in DOMAIN e[u], NEW j \in DOMAIN e[v],
             e[u][i].fs = "bare", e[v][j] = e[u][i]
      PROVE  u = v /\ i = j
  <2>1. CASE u # t /\ v # t
    BY <1>2, <1>4, <2>1 DEF SoleBare
  <2>2. CASE u = t /\ v = t
    <3>1. /\ i + 1 \in DOMAIN b[t] /\ j + 1 \in DOMAIN b[t] /\ i \in Int /\ j \in Int
          /\ e[t][i] = b[t][i + 1] /\ e[t][j] = b[t][j + 1]
      BY <1>a, <2>2
    <3>2. i + 1 = j + 1
      BY <1>4, <2>2, <3>1 DEF SoleBare
    <3>. QED
      BY <2>2, <3>1, <3>2
  <2>3. CASE u = t /\ v # t
    <3>1. i + 1 \in DOMAIN b[t] /\ e[t][i] = b[t][i + 1] /\ e[v] = b[v]
      BY <1>2, <1>a, <2>3
    <3>. QED
      BY <1>4, <2>3, <3>1 DEF SoleBare
  <2>4. CASE u # t /\ v = t
    <3>1. j + 1 \in DOMAIN b[t] /\ e[t][j] = b[t][j + 1] /\ e[u] = b[u]
      BY <1>2, <1>a, <2>4
    <3>. QED
      BY <1>4, <2>4, <3>1 DEF SoleBare
  <2>. QED
    BY <2>1, <2>2, <2>3, <2>4
<1>. QED
  BY <1>1, <1>4 DEF SoleBare

LEMMA SoleBind ==
    ASSUME NEW b \in [Targets -> Seq(MountType)], NEW t \in Targets, NEW n \in MountType, SoleBare(b),
           n.fs = "bare" => ~In(b, n)
    PROVE  SoleBare([b EXCEPT ![t] = <<n>> \o b[t]])
<1>1. PICK e : e = [b EXCEPT ![t] = <<n>> \o b[t]]
  OBVIOUS
<1>2. e[t] = <<n>> \o b[t] /\ \A u \in Targets \ {t} : e[u] = b[u]
  BY <1>1
<1>3. /\ DOMAIN e[t] = 1..(Len(b[t]) + 1) /\ DOMAIN b[t] = 1..Len(b[t]) /\ Len(b[t]) \in Nat
      /\ e[t][1] = n /\ \A i \in 1..Len(b[t]) : e[t][i + 1] = b[t][i]
  <2>1. b[t] \in Seq(MountType)
    OBVIOUS
  <2>. QED
    BY <1>2, <2>1
<1>4. \A i \in DOMAIN e[t] : i = 1 \/ (i - 1 \in DOMAIN b[t] /\ e[t][i] = b[t][i - 1])
  <2>1. \A i \in DOMAIN e[t] : i = 1 \/ (i - 1 \in 1..Len(b[t]) /\ e[t][(i - 1) + 1] = b[t][i - 1] /\ (i - 1) + 1 = i)
    BY <1>3
  <2>. QED
    BY <1>3, <2>1
<1>5. ASSUME NEW u \in Targets, NEW i \in DOMAIN e[u], ~(u = t /\ i = 1)
      PROVE  \E k \in DOMAIN b[u] : e[u][i] = b[u][k] /\ k = IF u = t THEN i - 1 ELSE i
  BY <1>2, <1>4, <1>5
<1>6. ASSUME NEW u \in Targets, NEW v \in Targets, NEW i \in DOMAIN e[u], NEW j \in DOMAIN e[v],
             e[u][i].fs = "bare", e[v][j] = e[u][i]
      PROVE  u = v /\ i = j
  <2>1. CASE ~(u = t /\ i = 1) /\ ~(v = t /\ j = 1)
    <3>1. PICK k \in DOMAIN b[u] : e[u][i] = b[u][k] /\ k = IF u = t THEN i - 1 ELSE i
      BY <1>5, <2>1
    <3>2. PICK l \in DOMAIN b[v] : e[v][j] = b[v][l] /\ l = IF v = t THEN j - 1 ELSE j
      BY <1>5, <2>1
    <3>3. u = v /\ k = l
      BY <1>6, <3>1, <3>2 DEF SoleBare
    <3>4. u = t => i \in Int /\ j \in Int
      BY <1>3, <3>3
    <3>. QED
      BY <3>1, <3>2, <3>3, <3>4
  <2>2. CASE u = t /\ i = 1 /\ ~(v = t /\ j = 1)
    <3>1. PICK l \in DOMAIN b[v] : e[v][j] = b[v][l]
      BY <1>5, <2>2
    <3>. QED
      BY <1>3, <1>6, <2>2, <3>1 DEF In
  <2>3. CASE ~(u = t /\ i = 1) /\ v = t /\ j = 1
    <3>1. PICK k \in DOMAIN b[u] : e[u][i] = b[u][k]
      BY <1>5, <2>3
    <3>. QED
      BY <1>3, <1>6, <2>3, <3>1 DEF In
  <2>. QED
    BY <2>1, <2>2, <2>3
<1>. QED
  BY <1>1, <1>6 DEF SoleBare

LEMMA SoleDies ==
    ASSUME NEW b \in [Targets -> Seq(MountType)], NEW p, SoleBare(b)
    PROVE  SoleBare(Died(b, p))
<1>1. PICK e : e = Died(b, p)
  OBVIOUS
<1>2. \A t \in Targets : /\ DOMAIN e[t] = DOMAIN b[t]
                         /\ \A i \in DOMAIN b[t] : e[t][i].fs = "bare" => e[t][i] = b[t][i]
  BY <1>1 DEF Died
<1>3. SoleBare(e)
  <2>1. ASSUME NEW t \in Targets, NEW u \in Targets, NEW i \in DOMAIN e[t], NEW j \in DOMAIN e[u],
               e[t][i].fs = "bare", e[u][j] = e[t][i]
        PROVE  t = u /\ i = j
    <3>1. e[t][i] = b[t][i] /\ e[u][j] = b[u][j] /\ i \in DOMAIN b[t] /\ j \in DOMAIN b[u]
      BY <1>2, <2>1
    <3>. QED
      BY <2>1, <3>1 DEF SoleBare
  <2>. QED
    BY <2>1 DEF SoleBare
<1>. QED
  BY <1>1, <1>3

(* What a step does to the bind mounts: take one away, bind one, or break those *)
(* of a Mountpoint Pod whose process dies.                                      *)
BoundMoves ==
    \/ UNCHANGED bound
    \/ \E t \in Targets : bound[t] # <<>> /\ bound' = [bound EXCEPT ![t] = Tail(bound[t])]
    \/ \E c \in Calls : BindMount(c)
    \/ \E p \in MountpointPods : bound' = Died(bound, p)

LEMMA BoundStep == ASSUME NodeInv, [Next]_vars PROVE BoundMoves
<1>0. bound \in [Targets -> Seq(MountType)] /\ MounterTypeOK
  BY DEF NodeInv, TypeOK, HostTypeOK
<1>a. ASSUME NEW t \in Targets, bound' = [bound EXCEPT ![t] = bound[t]] PROVE UNCHANGED bound
  BY <1>0, <1>a
<1>1. CASE MounterNext
  <2>1. ASSUME NEW c \in Calls, UnmountTarget(c) PROVE BoundMoves
    <3>1. call[c].target \in Targets
      BY <2>1, <1>0 DEF UnmountTarget, MounterTypeOK, CallType
    <3>2. PICK t \in Targets : t = call[c].target
      BY <3>1
    <3>3. bound' = [bound EXCEPT ![t] = IF bound[t] = <<>> THEN bound[t] ELSE Tail(bound[t])]
      BY <2>1, <3>2 DEF UnmountTarget, Mounts
    <3>. QED
      BY <1>a, <3>3 DEF BoundMoves
  <2>2. ASSUME NEW c \in Calls, NEW t \in Targets, PublishVolume(c, t) PROVE BoundMoves
    <3>1. bound' = [bound EXCEPT ![t] = IF TargetState(t) = "corrupted" THEN Tail(bound[t]) ELSE bound[t]]
      BY <2>2 DEF PublishVolume, Mounts
    <3>2. TargetState(t) = "corrupted" => bound[t] # <<>>
      BY DEF TargetState
    <3>. QED
      BY <1>a, <3>1, <3>2 DEF BoundMoves
  <2>3. ASSUME NEW c \in Calls, CallStep(c) PROVE BoundMoves
    BY <1>0, <2>1, <2>3, CallSpares DEF BoundMoves
  <2>4. ASSUME NEW t \in Targets, WorkloadScheduled(t) \/ WorkloadTerminates(t) \/ ControllerDetaches(t)
                  \/ \E p \in MountpointPods : ControllerAttaches(t, p)
        PROVE  UNCHANGED bound
    BY <2>4 DEF WorkloadScheduled, WorkloadTerminates, ControllerDetaches, ControllerAttaches, hostVars
  <2>5. ASSUME NEW p \in MountpointPods, ControllerAnnotates(p) PROVE UNCHANGED bound
    BY <2>5 DEF ControllerAnnotates
  <2>6. ASSUME NEW c \in Calls, NEW t \in Targets, UnpublishVolume(c, t) PROVE UNCHANGED bound
    BY <2>6 DEF UnpublishVolume, hostVars
  <2>7. ASSUME NEW c \in Calls, Expire(c) PROVE UNCHANGED bound
    BY <2>7 DEF Expire, hostVars
  <2>. QED
    BY <1>1, <2>2, <2>3, <2>4, <2>5, <2>6, <2>7 DEF MounterNext, BoundMoves
<1>2. CASE UnmounterNext
  BY <1>2 DEF UnmounterNext, UnmounterStep, CleanupDanglingMounts, HandleMountpointPodUpdate, NextEntry,
     UnmountMountpointPodIfNeeded, WriteExitFile, CheckMountpointSource, WaitUntilMountpointIsUnused,
     UnmountSource, RemoveSource, CleanupCredentials, Mounts, hostVars, BoundMoves
<1>3. CASE PodsNext
  <2>1. ASSUME NEW p \in MountpointPods, ContainerStep(p) \/ Observe(p) \/ DeleteSucceeded(p) PROVE UNCHANGED bound
    BY <2>1 DEF ContainerStep, RecvFails, Serve, RunEnds, Observe, DeleteSucceeded
  <2>2. ASSUME NEW p \in MountpointPods, RunFails(p, NodeHoldsFd(p)) \/ DeleteRunning(p, NodeHoldsFd(p))
        PROVE  bound' = Died(bound, p)
    BY <2>2 DEF RunFails, DeleteRunning, ProcessDies, Died
  <2>. QED
    BY <1>3, <2>1, <2>2 DEF PodsNext, BoundMoves
<1>4. CASE Restart \/ UNCHANGED vars
  BY <1>4 DEF Restart, vars, hostVars, BoundMoves
<1>. QED
  BY <1>1, <1>2, <1>3, <1>4 DEF Next

(* What is bound by BindMount *)
LEMMA Binds ==
    ASSUME NodeInv, NEW c \in Calls, BindMount(c)
    PROVE  /\ call[c].pc = "bind" /\ Return(c)
           /\ \/ UNCHANGED bound
              \/ \E t \in Targets, n \in MountType :
                    n.mp = call[c].mp /\ bound' = [bound EXCEPT ![t] = <<n>> \o bound[t]]
<1>. DEFINE n == [mp |-> call[c].mp,
                  fs |-> [served |-> "live", pending |-> "live", corrupted |-> "dead", dir |-> "bare"][source[call[c].mp]]]
<1>1. /\ call[c].pc = "bind" /\ Return(c)
      /\ bound' = IF call[c].isTarget \/ source[call[c].mp] = "absent" THEN bound
                  ELSE [bound EXCEPT ![call[c].target] = <<n>> \o @]
  BY DEF BindMount
<1>2. call[c].target \in Targets /\ call[c].mp \in MountpointPods /\ HostTypeOK
  BY <1>1, LockedCall DEF LockedPcs
<1>3. source[call[c].mp] # "absent" => n \in MountType
  BY <1>2 DEF HostTypeOK, SourceStates, MountType
<1>4. n.mp = call[c].mp
  OBVIOUS
<1>. HIDE DEF n
<1>. QED
  BY <1>1, <1>2, <1>3, <1>4

LEMMA SoleStep ==
    ASSUME NodeInv, NodeInv', SoleBare(bound), NonePast, [Next]_vars
    PROVE  /\ SoleBare(bound)'
           /\ \A q \in MountpointPods : Bare(q)' => Bare(q) \/ \E c \in Calls : BindMount(c) /\ call[c].mp = q
<1>0. bound \in [Targets -> Seq(MountType)]
  BY DEF NodeInv, TypeOK, HostTypeOK
<1>1. ASSUME UNCHANGED bound PROVE SoleBare(bound') /\ \A q \in MountpointPods : Bare(q)' => Bare(q)
  BY <1>1 DEF SoleBare, Bare, In
<1>2. ASSUME NEW t \in Targets, bound[t] # <<>>, bound' = [bound EXCEPT ![t] = Tail(bound[t])]
      PROVE  SoleBare(bound') /\ \A q \in MountpointPods : Bare(q)' => Bare(q)
  <2>1. \A m : In(bound', m) => In(bound, m)
    BY <1>0, <1>2, InTail
  <2>. QED
    BY <1>0, <1>2, <2>1, SoleTail DEF Bare
<1>3. ASSUME NEW c \in Calls, BindMount(c)
      PROVE  SoleBare(bound') /\ \A q \in MountpointPods : Bare(q)' => Bare(q) \/ call[c].mp = q
  <2>1. CASE UNCHANGED bound
    BY <1>1, <2>1
  <2>2. ASSUME NEW t \in Targets, NEW n \in MountType, n.mp = call[c].mp,
               bound' = [bound EXCEPT ![t] = <<n>> \o bound[t]]
        PROVE  SoleBare(bound') /\ \A q \in MountpointPods : Bare(q)' => Bare(q) \/ call[c].mp = q
    <3>1. \A m : In(bound', m) => In(bound, m) \/ m = n
      BY <1>0, <2>2, InBind
    <3>2. ~Bare(call[c].mp)
      BY <1>3, Binds DEF NonePast, PastCredentials, Bare
    <3>3. n.fs = "bare" => n = [mp |-> call[c].mp, fs |-> "bare"]
      BY <2>2 DEF MountType
    <3>4. SoleBare(bound')
      BY <1>0, <2>2, <3>2, <3>3, SoleBind DEF Bare
    <3>5. ASSUME NEW q \in MountpointPods, Bare(q)', ~Bare(q) PROVE call[c].mp = q
      <4>1. [mp |-> q, fs |-> "bare"] = n
        BY <3>1, <3>5 DEF Bare
      <4>. QED
        BY <2>2, <4>1
    <3>. QED
      BY <3>4, <3>5
  <2>. QED
    BY <1>3, <2>1, <2>2, Binds
<1>4. ASSUME NEW p \in MountpointPods, bound' = Died(bound, p)
      PROVE  SoleBare(bound') /\ \A q \in MountpointPods : Bare(q)' => Bare(q)
  <2>1. \A m : In(bound', m) => In(bound, m) \/ m = [mp |-> p, fs |-> "dead"]
    BY <1>0, <1>4, InDies
  <2>2. \A q : [mp |-> q, fs |-> "bare"] # [mp |-> p, fs |-> "dead"]
    <3>1. ASSUME NEW q, [mp |-> q, fs |-> "bare"] = [mp |-> p, fs |-> "dead"] PROVE FALSE
      <4>1. [mp |-> q, fs |-> "bare"].fs = [mp |-> p, fs |-> "dead"].fs
        BY <3>1
      <4>. QED
        BY <4>1
    <3>. QED
      BY <3>1
  <2>. QED
    BY <1>0, <1>4, <2>1, <2>2, SoleDies DEF Bare
<1>. QED
  BY <1>1, <1>2, <1>3, <1>4, BoundStep DEF BoundMoves

(* A call gets past the credentials of a Pod that exists. *)
LEMMA CallPast ==
    ASSUME NodeInv, NEW c \in Calls, CallStep(c), call'[c].pc \in PastCredentials
    PROVE  /\ call'[c].mp = call[c].mp
           /\ call[c].pc \in PastCredentials \/ (call[c].pc = "credentials" /\ pod[call[c].mp] # "gone")
           /\ ~BindMount(c)
<1>0. call \in [Calls -> CallType]
  BY DEF NodeInv, TypeOK, MounterTypeOK
<1>1. ~Return(c)
  BY <1>0 DEF Return, NoCall, PastCredentials
<1>2. \A pc : Goto(c, pc) => call'[c].pc = pc /\ call'[c].mp = call[c].mp
  BY <1>0 DEF Goto, CallType
<1>3. CASE GetS3PodAttachment(c) \/ CheckSource(c)
  BY <1>0, <1>1, <1>3 DEF GetS3PodAttachment, CheckSource, CallType, PastCredentials
<1>4. CASE WaitForMountpointPod(c) \/ LockMountpointPod(c, Free(call[c].mp))
  BY <1>1, <1>2, <1>4 DEF WaitForMountpointPod, LockMountpointPod, PastCredentials
<1>5. CASE ProvideCredentials(c)
  BY <1>1, <1>2, <1>5 DEF ProvideCredentials, BindMount
<1>6. CASE MountSyscall(c) \/ SendMountOptions(c) \/ WaitForMount(c)
  BY <1>1, <1>2, <1>6 DEF MountSyscall, SendMountOptions, WaitForMount, FailMount, BindMount, PastCredentials
<1>7. CASE BindMount(c) \/ UnmountTarget(c)
  BY <1>1, <1>7 DEF BindMount, UnmountTarget
<1>. QED
  BY <1>3, <1>4, <1>5, <1>6, <1>7 DEF CallStep, BindMount, GetS3PodAttachment, CheckSource, WaitForMountpointPod,
     LockMountpointPod

(* Which calls are past the credentials after a step *)
LEMMA PastStep ==
    ASSUME NodeInv, [Next]_vars, NEW d \in Calls, call'[d].pc \in PastCredentials
    PROVE  /\ call'[d].mp = call[d].mp
           /\ call[d].pc \in PastCredentials \/ (call[d].pc = "credentials" /\ pod[call[d].mp] # "gone")
           /\ ~BindMount(d)
<1>0. call \in [Calls -> CallType] /\ MounterTypeOK
  BY DEF NodeInv, TypeOK, MounterTypeOK
<1>a. ASSUME call'[d].pc = call[d].pc, call'[d].mp = call[d].mp
      PROVE  call[d].pc \in PastCredentials /\ ~BindMount(d)
  BY <1>0, <1>a DEF BindMount, Return, NoCall, PastCredentials
<1>1. CASE MounterNext
  <2>1. ASSUME NEW c \in Calls, CallStep(c)
        PROVE  \/ c = d
               \/ call'[d] = call[d]
    BY <1>0, <2>1, CallMoves
  <2>2. ASSUME NEW c \in Calls, NEW t \in Targets, PublishVolume(c, t) \/ UnpublishVolume(c, t)
        PROVE  call'[d] = call[d]
    <3>1. CASE PublishVolume(c, t)
      <4>1. call' = [call EXCEPT ![c] = [NoCall EXCEPT !.pc = "attachment", !.target = t,
                                                       !.isTarget = TargetState(t) = "served"]]
        BY <3>1 DEF PublishVolume
      <4>2. c = d => call'[d].pc = "attachment"
        BY <1>0, <4>1 DEF NoCall
      <4>. QED
        BY <1>0, <4>1, <4>2 DEF PastCredentials
    <3>2. CASE UnpublishVolume(c, t)
      <4>1. \/ call' = call
            \/ call' = [call EXCEPT ![c] = [NoCall EXCEPT !.pc = "unmount", !.target = t]]
        BY <3>2 DEF UnpublishVolume
      <4>2. c = d => call' = call \/ call'[d].pc = "unmount"
        BY <1>0, <4>1 DEF NoCall
      <4>. QED
        BY <1>0, <4>1, <4>2 DEF PastCredentials
    <3>. QED
      BY <2>2, <3>1, <3>2
  <2>3. ASSUME NEW c \in Calls, Expire(c) PROVE call'[d].pc = call[d].pc /\ call'[d].mp = call[d].mp
    BY <1>0, <2>3 DEF Expire, CallType
  <2>4. ASSUME NEW t \in Targets, WorkloadScheduled(t) \/ WorkloadTerminates(t) \/ ControllerDetaches(t)
                  \/ \E p \in MountpointPods : ControllerAttaches(t, p)
        PROVE  UNCHANGED call
    BY <2>4 DEF WorkloadScheduled, WorkloadTerminates, ControllerDetaches, ControllerAttaches
  <2>5. ASSUME NEW p \in MountpointPods, ControllerAnnotates(p) PROVE UNCHANGED call
    BY <2>5 DEF ControllerAnnotates, mounterVars
  <2>. QED
    BY <1>1, <1>a, <2>1, <2>2, <2>3, <2>4, <2>5, CallPast DEF MounterNext
<1>2. CASE UNCHANGED call
  BY <1>2, <1>a
<1>3. CASE Restart
  BY <1>3 DEF Restart, NoCall, PastCredentials
<1>. QED
  BY <1>1, <1>2, <1>3 DEF Next, vars, mounterVars

LEMMA NonePastStep ==
    ASSUME NodeInv, NodeInv', SoleBare(bound), NonePast, [Next]_vars
    PROVE  NonePast'
<1>1. ASSUME NEW d \in Calls, call'[d].pc \in PastCredentials 
      PROVE  ~In(bound', [mp |-> call'[d].mp, fs |-> "bare"])
  <2>1. /\ call'[d].mp = call[d].mp /\ ~BindMount(d)
        /\ call[d].pc \in PastCredentials \/ (call[d].pc = "credentials" /\ pod[call[d].mp] # "gone")
    BY <1>1, PastStep
  <2>2. call[d].pc \in LockedPcs
    BY <2>1 DEF LockedPcs, PastCredentials
  <2>3. call[d].mp \in MountpointPods
    BY <2>2, LockedCall
  <2>4. ~Bare(call[d].mp)
    BY <2>1, <2>3 DEF NonePast, NodeInv, PodInv, Bare
  <2>5. ASSUME NEW c \in Calls, BindMount(c), call[c].mp = call[d].mp PROVE FALSE
    <3>1. call[c].pc \in LockedPcs
      BY <2>5 DEF BindMount, LockedPcs
    <3>. QED
      BY <2>1, <2>2, <2>5, <3>1 DEF NodeInv, Exclusive
  <2>6. PICK q \in MountpointPods : q = call[d].mp
    BY <2>3
  <2>7. ~Bare(q)'
    BY <2>4, <2>5, <2>6, SoleStep
  <2>. QED
    BY <2>1, <2>6, <2>7 DEF Bare
<1>. QED
  BY <1>1 DEF NonePast

TargetInv == CountInv /\ SoleBare(bound) /\ NonePast

LEMMA TargetInit == Init => TargetInv
<1>. SUFFICES ASSUME Init PROVE TargetInv
  OBVIOUS
<1>1. bound = [t \in Targets |-> <<>>] /\ call = [c \in Calls |-> NoCall] /\ expiries = 0
  BY DEF Init, HostInit, MounterInit
<1>2. CountInv
  <2>1. ASSUME NEW t \in Targets PROVE Binders(t) = {} /\ FsMounts(bound[t]) = {}
    BY <1>1 DEF Binders, FsMounts, NoCall
  <2>2. IsFiniteSet({}) /\ Cardinality({}) = 0
    BY FS_EmptySet
  <2>3. ASSUME NEW t \in Targets PROVE CountOK(bound[t], Binders(t), Expired, expiries)
    <3>1. /\ IsFiniteSet(Binders(t)) /\ Cardinality(Binders(t)) = 0
          /\ Cardinality(FsMounts(bound[t])) = 0 /\ expiries = 0
      BY <1>1, <2>1, <2>2
    <3>. HIDE DEF Binders, Expired
    <3>. QED
      BY <3>1 DEF CountOK
  <2>. QED
    BY <2>3 DEF CountInv
<1>3. SoleBare(bound) /\ NonePast
  BY <1>1 DEF SoleBare, NonePast, NoCall, PastCredentials
<1>. QED
  BY <1>2, <1>3 DEF TargetInv

(* A target carries one mount of a file system, one more at most for each call  *)
(* the kubelet gave up on, and a bare one at most for each Mountpoint Pod, for  *)
(* any number of calls, targets, Mountpoint Pods, failures, deletions, restarts *)
(* of the plugin and expired calls.                                             *)
THEOREM TargetsAccountedFor == Spec => []MountsAccountedFor
<1>1. ASSUME NodeInv, NodeInv', TargetInv, [Next]_vars PROVE TargetInv'
  BY <1>1, CountStep, SoleStep, NonePastStep DEF TargetInv
<1>2. NodeInv /\ TargetInv => MountsAccountedFor
  <2>1. ASSUME NodeInv, TargetInv, NEW t \in Targets PROVE Cardinality(FsMounts(bound[t])) <= 1 + expiries
    <3>1. /\ bound[t] \in Seq(MountType) /\ expiries \in Nat
          /\ CountOK(bound[t], Binders(t), Expired, expiries)
      BY <2>1, CallsAssumption DEF TargetInv, CountInv, NodeInv, TypeOK, HostTypeOK, MounterTypeOK
    <3>2. Cardinality(FsMounts(bound[t])) \in Nat /\ Cardinality(Binders(t)) \in Nat
      BY <3>1, FsFinite, FS_CardinalityType DEF CountOK
    <3>. QED
      BY <3>1, <3>2 DEF CountOK
  <2>. QED
    BY <2>1 DEF TargetInv, SoleBare, MountsAccountedFor
<1>. QED
  BY <1>1, <1>2, TargetInit, NodeInvariant, PTL DEF Spec
=============================================================================
