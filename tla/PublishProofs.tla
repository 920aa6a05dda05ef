--------------------------- MODULE PublishProofs ----------------------------
(***************************************************************************)
(* What Publish promises, for every number of calls and targets and every  *)
(* configuration: no call misses the Pod it waits for, no cache is larger  *)
(* than its volume, no mount-s3 loses a credential file, Provide renews    *)
(* what the running process reads, and Cleanup leaves nothing.             *)
(***************************************************************************)
EXTENDS Publish, TLAPS

(* A call will still be told of a ready Pod. *)
Hears(w) ==
    \/ w.podChan # <<>>
    \/ \E i \in DOMAIN w.queue : IsPodReady(w.queue[i])

(* NoLostWakeup is inductive once it covers the time before the lookup: what    *)
(* the handler hears between AddEventHandler and Get is what the select finds.  *)
WakeupInv ==
    /\ WatcherTypeOK
    /\ phase = "unscheduled" => seen = "absent"
    /\ \A c \in Calls : wait[c].pc \in {"get", "select"} /\ IsPodReady(seen) => Hears(wait[c])

(* What a step of Publish does to the watcher, one disjunct per operation on it *)
WatcherOp ==
    \/ UNCHANGED watcherVars
    \/ \E ph \in Phases : PodBecomes(ph)
    \/ Distribute
    \/ \E c \in Calls : Register(c) \/ WatcherStep(c)
    \/ \E c \in Calls : wait' = [wait EXCEPT ![c] = NoWait] /\ UNCHANGED <<phase, seen>>
    \/ wait' = [c \in Calls |-> NoWait] /\ seen' = Visible(phase) /\ phase' = phase

LEMMA StepIsWatcherOp ==
    ASSUME Next PROVE WatcherOp
<1>1. ASSUME NEW c \in Calls, CallStep(c) \/ GiveUpWaiting(c) \/ Expire(c) PROVE WatcherOp
  BY <1>1 DEF CallStep, GiveUpWaiting, WaitTimesOut, Expire, LockMountpointPod, CopyToken, WriteFile,
              FinishMount, WatcherOp, watcherVars
<1>2. ASSUME NEW c \in Calls, NEW t \in Targets, PublishVolume(c, t) \/ UnpublishVolume(c, t)
      PROVE WatcherOp
  BY <1>2 DEF PublishVolume, UnpublishVolume, WatcherOp
<1>3. CASE CleanUnmount \/ EditOptions \/ ProcessFails \/ \E t \in Targets : WorkloadTerminates(t)
  BY <1>3 DEF CleanUnmount, EditOptions, ProcessFails, WorkloadTerminates, WatcherOp
<1>4. ASSUME NEW c \in Calls \cup {Unmounter}, CleanupStep(c) PROVE WatcherOp
  BY <1>4 DEF CleanupStep, RemoveFile, CleanupDone, WatcherOp
<1>5. CASE Restart
  BY <1>5 DEF Restart, WatcherOp
<1>6. CASE PodChanges \/ Distribute \/ (Rotate /\ UNCHANGED <<watcherVars, publishVars>>)
  BY <1>6 DEF PodChanges, Phases, WatcherOp
<1>7. QED
  BY <1>1, <1>2, <1>3, <1>4, <1>5, <1>6 DEF Next

LEMMA DistributeKeepsWakeup ==
    ASSUME WakeupInv, Distribute PROVE WakeupInv'
<1> USE DEF WakeupInv, WatcherTypeOK, Distribute
<1> DEFINE registered == {c \in Calls : wait[c].pc \in {"get", "select"}}
<1>1. phase # "unscheduled" /\ Visible(phase) = phase
  BY DEF Visible, Phases
<1>2. \A c \in Calls : wait'[c] = IF c \in registered
                                  THEN [wait[c] EXCEPT !.queue = Append(@, phase)] ELSE wait[c]
  BY <1>1
<1>3. WatcherTypeOK'
  <2>1. ASSUME NEW c \in Calls PROVE wait'[c] \in Waits
    <3>1. Append(wait[c].queue, phase) \in Seq(Phases)
      BY DEF Waits
    <3>2. [wait[c] EXCEPT !.queue = Append(@, phase)] \in Waits
      BY <3>1 DEF Waits
    <3>3. QED
      BY <1>2, <3>2
  <2>2. QED
    BY <1>1, <2>1
<1>4. ASSUME NEW c \in Calls, wait'[c].pc \in {"get", "select"}, IsPodReady(seen') PROVE Hears(wait'[c])
  <2>1. c \in registered /\ wait'[c].queue = Append(wait[c].queue, phase)
    BY <1>2, <1>4 DEF Waits
  <2>2. wait[c].queue \in Seq(Phases)
    BY DEF Waits
  <2>3. Len(wait[c].queue) + 1 \in DOMAIN wait'[c].queue
        /\ wait'[c].queue[Len(wait[c].queue) + 1] = phase
    BY <2>1, <2>2
  <2>4. QED
    BY <1>1, <1>4, <2>3 DEF Hears
<1>5. QED
  BY <1>1, <1>3, <1>4

LEMMA HandleEventKeepsWakeup ==
    ASSUME WakeupInv, NEW c \in Calls, HandleEvent(c) PROVE WakeupInv'
<1> USE DEF WakeupInv, WatcherTypeOK, HandleEvent
<1> DEFINE q == wait[c].queue
<1>1. q \in Seq(Phases) /\ q # <<>> /\ Head(q) \in Phases /\ Tail(q) \in Seq(Phases)
  BY DEF Waits
<1>2. \A d \in Calls \ {c} : wait'[d] = wait[d]
  OBVIOUS
<1>3. /\ wait'[c].pc = wait[c].pc
      /\ wait'[c].queue = Tail(q)
      /\ wait'[c].podChan = IF IsPodReady(Head(q)) THEN <<Head(q)>> ELSE wait[c].podChan
  BY DEF Waits
<1>4. WatcherTypeOK'
  <2>1. wait'[c] \in Waits
    BY <1>1 DEF Waits
  <2>2. QED
    BY <1>2, <2>1
<1>5. ASSUME IsPodReady(seen), ~IsPodReady(Head(q)), wait[c].podChan = <<>>
      PROVE \E i \in DOMAIN Tail(q) : IsPodReady(Tail(q)[i])
  <2>1. PICK i \in DOMAIN q : IsPodReady(q[i])
    BY <1>5 DEF Hears
  <2>2. i # 1 /\ i \in 1..Len(q)
    BY <1>1, <1>5, <2>1
  <2>3. i - 1 \in DOMAIN Tail(q) /\ Tail(q)[i - 1] = q[i]
    BY <1>1, <2>2
  <2>4. QED
    BY <2>1, <2>3
<1>6. IsPodReady(seen) => Hears(wait'[c])
  BY <1>1, <1>3, <1>5 DEF Hears
<1>7. QED
  BY <1>2, <1>4, <1>6

LEMMA WatcherOpKeepsWakeup ==
    ASSUME WakeupInv, WatcherOp PROVE WakeupInv'
<1> USE DEF WakeupInv, WatcherTypeOK
<1>1. CASE UNCHANGED watcherVars
  BY <1>1 DEF watcherVars, Hears
<1>2. ASSUME NEW ph \in Phases, PodBecomes(ph) PROVE WakeupInv'
  BY <1>2 DEF PodBecomes, Hears
<1>3. ASSUME NEW c \in Calls, Register(c) PROVE WakeupInv'
  <2>1. seen # "absent" => seen \in Phases
    BY DEF Visible
  <2>2. IsPodReady(seen) => seen # "absent"
    BY DEF IsPodReady
  <2>3. /\ \A d \in Calls \ {c} : wait'[d] = wait[d]
        /\ wait'[c] = [wait[c] EXCEPT !.pc = "get", !.queue = IF seen = "absent" THEN <<>> ELSE <<seen>>]
    BY <1>3 DEF Register
  <2>4. WatcherTypeOK'
    <3>1. (IF seen = "absent" THEN <<>> ELSE <<seen>>) \in Seq(Phases)
      BY <2>1
    <3>2. wait'[c] \in Waits
      BY <2>3, <3>1 DEF Waits
    <3>3. QED
      BY <1>3, <3>2 DEF Register
  <2>5. IsPodReady(seen) => Hears(wait'[c])
    <3>1. IsPodReady(seen) => wait'[c].queue = <<seen>>
      BY <2>2, <2>3 DEF Waits
    <3>2. QED
      BY <3>1 DEF Hears
  <2>6. QED
    BY <1>3, <2>3, <2>4, <2>5 DEF Register
<1>4. ASSUME NEW c \in Calls, Get(c) \/ ReceivePod(c) PROVE WakeupInv'
  <2>1. \A d \in Calls \ {c} : wait'[d] = wait[d]
    BY <1>4 DEF Get, ReceivePod
  <2>2. WatcherTypeOK'
    <3>1. [NoWait EXCEPT !.pc = "ready"] \in Waits
      <4>1. NoWait \in Waits
        BY DEF NoWait, Waits
      <4>2. QED
        BY <4>1 DEF Waits
    <3>2. [wait[c] EXCEPT !.pc = "select"] \in Waits
      BY DEF Waits
    <3>3. QED
      BY <1>4, <3>1, <3>2 DEF Get, ReceivePod
  <2>3. wait'[c].pc \in {"get", "select"} =>
            ~IsPodReady(seen)
    BY <1>4 DEF Get, ReceivePod, NoWait, Waits
  <2>4. QED
    BY <1>4, <2>1, <2>2, <2>3 DEF Get, ReceivePod
<1>5. ASSUME NEW c \in Calls, wait' = [wait EXCEPT ![c] = NoWait], UNCHANGED <<phase, seen>>
      PROVE WakeupInv'
  <2>1. NoWait \in Waits /\ NoWait.pc = "off"
    BY DEF NoWait, Waits
  <2>2. QED
    BY <1>5, <2>1
<1>6. CASE wait' = [c \in Calls |-> NoWait] /\ seen' = Visible(phase) /\ phase' = phase
  <2>1. NoWait \in Waits /\ NoWait.pc = "off"
    BY DEF NoWait, Waits
  <2>2. QED
    BY <1>6, <2>1 DEF Visible
<1>7. QED
  BY <1>1, <1>2, <1>3, <1>4, <1>5, <1>6, DistributeKeepsWakeup, HandleEventKeepsWakeup
     DEF WatcherOp, WatcherStep

LEMMA WakeupInitially == Init => WakeupInv
<1>1. NoWait \in Waits /\ NoWait.pc = "off"
  BY DEF NoWait, Waits
<1>2. QED
  BY <1>1, ConfigurationsAssumption DEF Init, WatcherInit, WakeupInv, WatcherTypeOK, Visible

LEMMA WakeupStep == WakeupInv /\ [Next]_vars => WakeupInv'
<1>1. CASE UNCHANGED vars
  BY <1>1, WatcherOpKeepsWakeup DEF vars, WatcherOp
<1>2. QED
  BY <1>1, StepIsWatcherOp, WatcherOpKeepsWakeup

(* Spec => []NoLostWakeup: Watcher.Wait never sleeps on a Pod that its informer *)
(* has shown Running.                                                           *)
THEOREM WakeupCorrect == Spec => []NoLostWakeup
<1>1. WakeupInv => NoLostWakeup
  BY DEF WakeupInv, NoLostWakeup, Hears
<1>2. QED
  BY <1>1, WakeupInitially, WakeupStep, PTL DEF Spec

-----------------------------------------------------------------------------
(* Cache sizes.  The name of the option, and what its values have to satisfy. *)
Size == "max-cache-size"

OneSize(args) == \A x, y \in Found(args, Size) : x = y /\ x.value \in Int

Fits(args, attrs) ==
    attrs.cache = "emptyDir" /\ attrs.limit # NoLimit =>
        /\ \A x \in Found(args, Size) : x.value <= LimitMiB(attrs.limit)
        /\ attrs.medium = "" =>
            /\ Found(args, Size) # {}
            /\ \A x \in Found(args, Size) : 100 * MiB * x.value <= 95 * attrs.limit

LEMMA FitsBySizes ==
    ASSUME NEW args, NEW other, NEW attrs, Found(other, Size) = Found(args, Size), Fits(args, attrs)
    PROVE  Fits(other, attrs)
  BY DEF Fits

(* 95% in whole MiB is at most 95%, and at most the limit. *)
LEMMA SafeSizeIsSafe ==
    ASSUME NEW limit \in Nat
    PROVE  /\ SafeMaxCacheSize(limit) \in Int
           /\ 100 * MiB * SafeMaxCacheSize(limit) <= 95 * limit
           /\ SafeMaxCacheSize(limit) <= LimitMiB(limit)
  BY SMT DEF SafeMaxCacheSize, LimitMiB, MiB

(* Operations on one option do not touch another. *)
LEMMA SetIfAbsentKeepsOthers ==
    ASSUME NEW args, NEW key, NEW other, key # other, NEW value
    PROVE  Found(SetIfAbsent(args, key, value), other) = Found(args, other)
  BY DEF SetIfAbsent, Found, Arg

LEMMA RemoveKeepsOthers ==
    ASSUME NEW args, NEW key, NEW other, key # other, NEW r \in Remove(args, key)
    PROVE  Found(r, other) = Found(args, other)
  BY DEF Remove, Found

LEMMA SetKeepsOthers ==
    ASSUME NEW args, NEW key, NEW other, key # other, NEW value, NEW r \in Set(args, key, value)
    PROVE  Found(r, other) = Found(args, other)
<1>1. PICK rest \in Remove(args, key) : r = rest \cup {Arg(key, value)}
  BY DEF Set
<1>2. Arg(key, value).key = key
  BY DEF Arg
<1>3. Found(r, other) = Found(rest, other)
  BY <1>1, <1>2 DEF Found
<1>4. QED
  BY <1>1, <1>3, RemoveKeepsOthers

LEMMA SetHas ==
    ASSUME NEW args, NEW key, NEW value, NEW r \in Set(args, key, value)
    PROVE  Has(r, key)
<1>1. Arg(key, value) \in r
  BY DEF Set
<1>2. Arg(key, value).key = key
  BY DEF Arg
<1>3. QED
  BY <1>1, <1>2 DEF Found, Has

(* SizeCache: whatever it returns fits, for options with at most one size. *)
LEMMA SizedFits ==
    ASSUME NEW attrs, attrs.limit \in Nat \cup {NoLimit}, NEW args, OneSize(args),
           NEW r \in SizeCache(args, attrs)
    PROVE  Fits(r, attrs)
<1> DEFINE limit == attrs.limit
           disk == attrs.medium = ""
           checked == IF Has(args, Size) THEN CheckMaxCacheSize(args, limit, attrs.medium) ELSE {args}
<1> SUFFICES ASSUME attrs.cache = "emptyDir", limit # NoLimit PROVE Fits(r, attrs)
  BY DEF Fits
<1>1. limit \in Nat
  OBVIOUS
<1>2. ASSUME NEW c \in checked
      PROVE  \A x \in Found(c, Size) :
                /\ x \in Found(args, Size) /\ x.value <= LimitMiB(limit)
                /\ disk => x.value <= SafeMaxCacheSize(limit)
  <2>1. CASE ~Has(args, Size)
    BY <1>2, <2>1 DEF Has
  <2>2. CASE Has(args, Size)
    <3>1. PICK a \in Found(args, Size) :
            c \in IF a.value > LimitMiB(limit) THEN {}
                  ELSE IF disk /\ a.value > SafeMaxCacheSize(limit) THEN Remove(args, Size) ELSE {args}
      BY <1>2, <2>2 DEF CheckMaxCacheSize, Size
    <3>2. Found(args, Size) = {a} /\ a.value \in Int
      BY <3>1 DEF OneSize
    <3>3. ~(a.value > LimitMiB(limit)) /\ a.value <= LimitMiB(limit)
      <4>1. ~(a.value > LimitMiB(limit))
        BY <3>1
      <4>2. LimitMiB(limit) \in Int
        BY <1>1, SMT DEF LimitMiB, MiB
      <4>3. QED
        BY <3>2, <4>1, <4>2
    <3>4. CASE disk /\ a.value > SafeMaxCacheSize(limit)
      <4>1. c \in Remove(args, Size)
        BY <3>1, <3>3, <3>4
      <4>2. Found(c, Size) = {}
        BY <3>2, <4>1, <2>2 DEF Remove, Found
      <4>3. QED
        BY <4>2
    <3>5. CASE ~(disk /\ a.value > SafeMaxCacheSize(limit))
      <4>1. c = args
        BY <3>1, <3>3, <3>5
      <4>2. disk => a.value <= SafeMaxCacheSize(limit)
        <5>1. SafeMaxCacheSize(limit) \in Int
          BY <1>1, SafeSizeIsSafe
        <5>2. SUFFICES ASSUME disk PROVE a.value <= SafeMaxCacheSize(limit)
          OBVIOUS
        <5>3. ~(a.value > SafeMaxCacheSize(limit))
          BY <3>5, <5>2
        <5>4. QED
          BY <3>2, <5>1, <5>3
      <4>3. QED
        BY <3>2, <3>3, <4>1, <4>2
    <3>6. QED
      BY <3>4, <3>5
  <2>3. QED
    BY <2>1, <2>2
<1>3. CASE disk
  <2>1. PICK c \in checked : r = SetIfAbsent(c, Size, SafeMaxCacheSize(limit))
    BY <1>3 DEF SizeCache, Size
  <2>2. ASSUME NEW x \in Found(r, Size)
        PROVE  x.value \in Int /\ x.value <= SafeMaxCacheSize(limit)
    <3>1. CASE Has(c, Size)
      BY <1>2, <1>3, <2>1, <2>2, <3>1 DEF SetIfAbsent, OneSize
    <3>2. CASE ~Has(c, Size)
      <4>1. x = Arg(Size, SafeMaxCacheSize(limit))
        BY <2>1, <2>2, <3>2 DEF SetIfAbsent, Found, Has
      <4>2. QED
        BY <1>1, <4>1, SafeSizeIsSafe DEF Arg
    <3>3. QED
      BY <3>1, <3>2
  <2>3. Found(r, Size) # {}
    <3>1. Arg(Size, SafeMaxCacheSize(limit)).key = Size
      BY DEF Arg
    <3>2. QED
      BY <2>1, <3>1 DEF SetIfAbsent, Has, Found
  <2>4. ASSUME NEW x \in Found(r, Size)
        PROVE  x.value <= LimitMiB(limit) /\ 100 * MiB * x.value <= 95 * limit
    BY <1>1, <2>2, <2>4, SafeSizeIsSafe, SMT DEF LimitMiB, MiB
  <2>5. QED
    BY <2>3, <2>4 DEF Fits
<1>4. CASE ~disk
  <2>1. r \in checked
    BY <1>4 DEF SizeCache, Size
  <2>2. QED
    BY <1>2, <1>4, <2>1 DEF Fits
<1>5. QED
  BY <1>3, <1>4

LEMMA PublishedFits ==
    ASSUME NEW attrs, attrs.limit \in Nat \cup {NoLimit}, NEW opts, OneSize(opts), NEW group,
           NEW readOnly, NEW r \in PublishArgs(opts, attrs, readOnly, group)
    PROVE  Fits(r, attrs)
<1> DEFINE flags == IF readOnly THEN {Arg("read-only", NoValue)} ELSE {}
           args == ParseArgs(flags \cup opts)
           completed == AllowRoot(IF group = 0 THEN args ELSE FsGroup(args, group))
<1>1. Found(args, Size) = Found(opts, Size)
  <2>1. Found(flags, Size) = {}
    BY DEF Arg, Found, Size
  <2> HIDE DEF flags
  <2>2. QED
    BY <2>1 DEF ParseArgs, Found, Size
<1>2. Found(FsGroup(args, group), Size) = Found(args, Size)
  <2> HIDE DEF args
  <2>1. \A a, v : Found(SetIfAbsent(a, "gid", v), Size) = Found(a, Size)
    BY SetIfAbsentKeepsOthers DEF Size
  <2>2. \A a, v : Found(SetIfAbsent(a, "allow-other", v), Size) = Found(a, Size)
    BY SetIfAbsentKeepsOthers DEF Size
  <2>3. \A a, v : Found(SetIfAbsent(a, "dir-mode", v), Size) = Found(a, Size)
    BY SetIfAbsentKeepsOthers DEF Size
  <2>4. \A a, v : Found(SetIfAbsent(a, "file-mode", v), Size) = Found(a, Size)
    BY SetIfAbsentKeepsOthers DEF Size
  <2>5. QED
    BY <2>1, <2>2, <2>3, <2>4 DEF FsGroup
<1>3. \A a : Found(AllowRoot(a), Size) = Found(a, Size)
  BY SetIfAbsentKeepsOthers DEF AllowRoot, Size
<1>4. OneSize(completed)
  BY <1>1, <1>2, <1>3 DEF OneSize
<1>5. r \in SizeCache(completed, attrs)
  BY DEF PublishArgs
<1>6. QED
  BY <1>4, <1>5, SizedFits

(* On the way to mount-s3 the sizes stay as they are, and the cache option is   *)
(* there exactly when the Pod has a volume for it.                              *)
LEMMA StartedWithVolume ==
    ASSUME NEW args, NEW vol, NEW r \in StartArgs(args, vol)
    PROVE  /\ Found(r, Size) = Found(args, Size)
           /\ Has(r, "cache") <=> vol # NoVolume
<1>1. PICK sent \in SentArgs(args) : r \in RunArgs(sent, vol)
  BY DEF StartArgs
<1>2. Found(sent, Size) = Found(args, Size)
  <2>1. PICK a \in Remove(args, "aws-max-attempts") :
          sent \in UNION {Remove(b, "read-only") : b \in Set(a, "user-agent-prefix", NoValue)}
    BY <1>1 DEF SentArgs
  <2>2. PICK b \in Set(a, "user-agent-prefix", NoValue) : sent \in Remove(b, "read-only")
    BY <2>1
  <2>3. Found(a, Size) = Found(args, Size)
    BY <2>1, RemoveKeepsOthers DEF Size
  <2>4. Found(b, Size) = Found(a, Size)
    BY <2>2, SetKeepsOthers DEF Size
  <2>5. Found(sent, Size) = Found(b, Size)
    BY <2>2, RemoveKeepsOthers DEF Size
  <2>6. QED
    BY <2>3, <2>4, <2>5
<1>3. CASE vol = NoVolume
  BY <1>1, <1>2, <1>3 DEF RunArgs
<1>4. CASE vol # NoVolume
  <2>1. PICK rest \in Remove(sent, "cache") : r \in Set(rest, "cache", NoValue)
    BY <1>1, <1>4 DEF RunArgs
  <2>2. Found(rest, Size) = Found(sent, Size)
    BY <2>1, RemoveKeepsOthers DEF Size
  <2>3. Found(r, Size) = Found(rest, Size)
    BY <2>1, SetKeepsOthers DEF Size
  <2>4. Has(r, "cache")
    BY <2>1, SetHas
  <2>5. QED
    BY <1>2, <1>4, <2>2, <2>3, <2>4
<1>5. QED
  BY <1>3, <1>4

(* The cache volume has the limit of the attributes it was made from. *)
LEMMA VolumeHasLimit ==
    ASSUME NEW opts, NEW attrs, NEW vol \in CacheVolume(opts, attrs), attrs.cache = "emptyDir"
    PROVE  vol.limit = attrs.limit /\ vol.medium = attrs.medium
<1>1. vol \in EmptyDir(attrs)
  BY DEF CacheVolume
<1>2. vol = [type |-> "emptyDir", limit |-> attrs.limit, medium |-> attrs.medium]
  BY <1>1 DEF EmptyDir
<1>3. QED
  BY <1>2

-----------------------------------------------------------------------------
IsCall(r) ==
    /\ r = [field \in DOMAIN r |-> r[field]]
    /\ DOMAIN r = {"pc", "target", "gen", "args", "todo", "copy", "isSource", "failed", "expired"}

(* A call that waits or provides credentials has arguments that fit; a call     *)
(* whose Wait is under way is one of them.                                      *)
CallInv(c) ==
    /\ IsCall(call[c])
    /\ wait[c].pc # "off" => call[c].pc = "watch"
    /\ call[c].pc \in {"watch", "provide"} => Fits(call[c].args, setup.attrs)

CacheInv ==
    /\ setup \in Configurations
    /\ options \in setup.options
    /\ \E o \in setup.options : volume \in CacheVolume(o, setup.attrs)
    /\ DOMAIN call = Calls \cup {Unmounter} /\ call = [c \in DOMAIN call |-> call[c]]
    /\ \A c \in Calls : CallInv(c)
    /\ Pod \in DOMAIN process =>
        /\ Fits(process[Pod].args, setup.attrs)
        /\ Has(process[Pod].args, "cache") <=> volume # NoVolume

(* A step that changes one call at most, and only as far as CallInv allows *)
LEMMA OneCallStep ==
    ASSUME CacheInv, UNCHANGED <<setup, volume, options, process>>,
           NEW c \in Calls, NEW r, call' = [call EXCEPT ![c] = r],
           \A d \in Calls \ {c} : wait'[d].pc = wait[d].pc,
           IsCall(r), wait'[c].pc # "off" => r.pc = "watch",
           r.pc \in {"watch", "provide"} => Fits(r.args, setup.attrs)
    PROVE  CacheInv'
<1>1. call'[c] = r /\ \A d \in Calls \ {c} : call'[d] = call[d]
  BY DEF CacheInv
<1>2. \A d \in Calls : CallInv(d)'
  BY <1>1 DEF CacheInv, CallInv
<1>3. QED
  BY <1>2 DEF CacheInv

(* The same, without a change of calls *)
LEMMA NoCallStep ==
    ASSUME CacheInv, UNCHANGED <<setup, volume, call>>, options' \in setup.options,
           \A d \in Calls : wait'[d].pc # "off" => wait[d].pc # "off",
           UNCHANGED process \/ Pod \notin DOMAIN process'
    PROVE  CacheInv'
<1>1. \A d \in Calls : CallInv(d)'
  BY DEF CacheInv, CallInv
<1>2. QED
  BY <1>1 DEF CacheInv

LEMMA NoCallIsCall == IsCall(NoCall) /\ NoCall.pc = "idle"
  BY DEF IsCall, NoCall

LEMMA CallStepKeepsCache ==
    ASSUME WatcherTypeOK, CacheInv, NEW c \in Calls, CallStep(c) \/ GiveUpWaiting(c) \/ Expire(c)
    PROVE  CacheInv'
<1> DEFINE attrs == setup.attrs
<1>0. CallInv(c) /\ IsCall(call[c])
  BY DEF CacheInv, CallInv
<1>1. CASE WatcherStep(c) /\ UNCHANGED <<credentialVars, publishVars>>
  <2>1. \A d \in Calls : wait'[d].pc # "off" => wait[d].pc # "off"
    BY <1>1 DEF WatcherStep, Get, HandleEvent, ReceivePod, WatcherTypeOK, Waits
  <2>2. UNCHANGED <<setup, volume, options, process, call>> /\ options \in setup.options
    BY <1>1 DEF credentialVars, publishVars, CacheInv
  <2>3. QED
    BY <2>1, <2>2, NoCallStep
<1>2. CASE GiveUpWaiting(c)
  BY <1>2, OneCallStep, NoCallIsCall
     DEF GiveUpWaiting, WaitTimesOut, Return, credentialVars, WatcherTypeOK, NoWait
<1>3. CASE LockMountpointPod(c)
  <2> DEFINE held(types) == [call[c] EXCEPT !.pc = "provide", !.todo = types, !.isSource = Pod \in DOMAIN process]
  <2>1. wait[c].pc = "ready" /\ call[c].pc = "watch" /\ Fits(call[c].args, attrs)
    BY <1>0, <1>3 DEF LockMountpointPod, CallInv
  <2>2. /\ UNCHANGED <<setup, volume, options, process>>
        /\ \A d \in Calls \ {c} : wait'[d].pc = wait[d].pc
        /\ wait'[c].pc = "off"
    BY <1>3 DEF LockMountpointPod, credentialVars, WatcherTypeOK, NoWait
  <2>3. \A types : IsCall(held(types)) /\ held(types).pc = "provide" /\ held(types).args = call[c].args
    BY <1>0 DEF IsCall
  <2>4. CASE call' = [call EXCEPT ![c] = NoCall]
    BY <2>2, <2>4, OneCallStep, NoCallIsCall
  <2>5. ASSUME NEW types, call' = [call EXCEPT ![c] = held(types)] PROVE CacheInv'
    <3> HIDE DEF held
    <3>1. QED
      BY <2>1, <2>2, <2>3, <2>5, OneCallStep
  <2>6. QED
    BY <1>3, <2>4, <2>5 DEF LockMountpointPod, Return
<1>4. CASE CopyToken(c)
  <2> DEFINE r == [call[c] EXCEPT !.copy = gen]
  <2>1. UNCHANGED <<setup, volume, options, process, wait>> /\ call' = [call EXCEPT ![c] = r]
    BY <1>4 DEF CopyToken, credentialVars, watcherVars
  <2>2. IsCall(r) /\ r.pc = call[c].pc /\ r.args = call[c].args
    BY <1>0 DEF IsCall
  <2> HIDE DEF r
  <2>3. QED
    BY <1>0, <2>1, <2>2, OneCallStep DEF CallInv
<1>5. CASE Expire(c)
  <2> DEFINE r == [call[c] EXCEPT !.expired = TRUE]
  <2>1. UNCHANGED <<setup, volume, options, process, wait>> /\ call' = [call EXCEPT ![c] = r]
    BY <1>5 DEF Expire, credentialVars, watcherVars
  <2>2. IsCall(r) /\ r.pc = call[c].pc /\ r.args = call[c].args
    BY <1>0 DEF IsCall
  <2> HIDE DEF r
  <2>3. QED
    BY <1>0, <2>1, <2>2, OneCallStep DEF CallInv
<1>6. CASE WriteFile(c)
  <2> DEFINE r == [call[c] EXCEPT !.todo = Tail(call[c].todo), !.copy = 0]
  <2>1. UNCHANGED <<setup, volume, options, process, wait>> /\ call[c].pc = "provide"
    BY <1>6 DEF WriteFile, watcherVars
  <2>2. IsCall(r) /\ r.pc = call[c].pc /\ r.args = call[c].args
    BY <1>0 DEF IsCall
  <2>3. CASE call' = [call EXCEPT ![c] = r]
    <3> HIDE DEF r
    <3>1. QED
      BY <1>0, <2>1, <2>2, <2>3, OneCallStep DEF CallInv
  <2>4. CASE call' = [call EXCEPT ![c] = NoCall]
    BY <1>0, <2>1, <2>4, OneCallStep, NoCallIsCall DEF CallInv
  <2>5. CASE call' = [call EXCEPT ![c].todo = Tail(@), ![c].copy = 0]
    <3>1. call' = [call EXCEPT ![c] = r]
      BY <1>0, <2>5 DEF CacheInv
    <3>2. QED
      BY <2>3, <3>1
  <2>6. QED
    BY <1>6, <2>4, <2>5 DEF WriteFile, Return
<1>7. CASE FinishMount(c)
  <2>1. UNCHANGED <<setup, volume, options, wait>> /\ call' = [call EXCEPT ![c] = NoCall]
    BY <1>7 DEF FinishMount, Return, credentialVars, watcherVars
  <2>2. call[c].pc = "provide" /\ Fits(call[c].args, attrs) /\ wait[c].pc = "off"
    BY <1>0, <1>7 DEF FinishMount, CallInv
  <2>3. \A d \in Calls : CallInv(d)'
    BY <2>1, <2>2, NoCallIsCall DEF CacheInv, CallInv
  <2>4. UNCHANGED process \/ \E r \in StartArgs(call[c].args, volume) : Pod \in DOMAIN process' /\ process'[Pod].args = r
    BY <1>7 DEF FinishMount
  <2>5. Pod \in DOMAIN process' =>
            Fits(process'[Pod].args, attrs) /\ (Has(process'[Pod].args, "cache") <=> volume # NoVolume)
    <3>1. CASE UNCHANGED process
      BY <3>1 DEF CacheInv
    <3>2. ASSUME NEW r \in StartArgs(call[c].args, volume), process'[Pod].args = r
          PROVE  Fits(process'[Pod].args, attrs) /\ (Has(process'[Pod].args, "cache") <=> volume # NoVolume)
      BY <2>2, <3>2, StartedWithVolume, FitsBySizes
    <3>3. QED
      BY <2>4, <3>1, <3>2
  <2>6. QED
    BY <2>1, <2>3, <2>5 DEF CacheInv
<1>8. QED
  BY <1>1, <1>2, <1>3, <1>4, <1>5, <1>6, <1>7 DEF CallStep

LEMMA RequestKeepsCache ==
    ASSUME WatcherTypeOK, CacheInv, NEW c \in Calls, NEW t \in Targets,
           PublishVolume(c, t) \/ UnpublishVolume(c, t)
    PROVE  CacheInv'
<1> DEFINE attrs == setup.attrs
<1>0. call[c].pc = "idle" /\ wait[c].pc = "off"
  BY DEF PublishVolume, UnpublishVolume, MayCall, CacheInv, CallInv
<1>1. CASE PublishVolume(c, t)
  <2>1. PICK args \in PublishArgs(options, attrs, setup.readOnly, setup.fsGroup) :
          LET request == [NoCall EXCEPT !.target = t, !.gen = gen, !.args = args] IN
          \/ /\ call' = [call EXCEPT ![c] = [request EXCEPT !.pc = "watch"]]
             /\ Register(c)
          \/ /\ \E types \in Provide("systemd") :
                  call' = [call EXCEPT ![c] = [request EXCEPT !.pc = "provide", !.todo = types]]
             /\ UNCHANGED watcherVars
    BY <1>1 DEF PublishVolume
  <2>2. Fits(args, attrs)
    <3>1. OneSize(options) /\ attrs.limit \in Nat \cup {NoLimit}
      BY ConfigurationsAssumption DEF CacheInv, OneSize, Size
    <3>2. QED
      BY <2>1, <3>1, PublishedFits
  <2>3. UNCHANGED <<setup, volume, options, process>>
    BY <1>1 DEF PublishVolume, credentialVars
  <2> DEFINE request == [NoCall EXCEPT !.target = t, !.gen = gen, !.args = args]
             watching == [request EXCEPT !.pc = "watch"]
             providing(types) == [request EXCEPT !.pc = "provide", !.todo = types]
  <2>4. IsCall(watching) /\ watching.pc = "watch" /\ watching.args = args
    BY DEF NoCall, IsCall
  <2>5. \A types : IsCall(providing(types)) /\ providing(types).pc = "provide"
                   /\ providing(types).args = args
    <3>1. IsCall(request)
      BY DEF NoCall, IsCall
    <3>2. request.args = args
      BY DEF NoCall
    <3> HIDE DEF request
    <3>3. QED
      BY <3>1, <3>2 DEF IsCall
  <2>6. CASE call' = [call EXCEPT ![c] = watching] /\ Register(c)
    <3>1. \A d \in Calls \ {c} : wait'[d].pc = wait[d].pc
      BY <2>6 DEF Register, WatcherTypeOK
    <3> HIDE DEF watching
    <3>2. QED
      BY <2>2, <2>3, <2>4, <2>6, <3>1, OneCallStep
  <2>7. ASSUME NEW types, call' = [call EXCEPT ![c] = providing(types)], UNCHANGED watcherVars
        PROVE  CacheInv'
    <3>1. UNCHANGED wait
      BY <2>7 DEF watcherVars
    <3> HIDE DEF providing
    <3>2. QED
      BY <1>0, <2>2, <2>3, <2>5, <2>7, <3>1, OneCallStep
  <2>8. QED
    BY <2>1, <2>6, <2>7
<1>2. CASE UnpublishVolume(c, t)
  <2>1. UNCHANGED <<setup, volume, options, wait>>
    BY <1>2 DEF UnpublishVolume, credentialVars, watcherVars
  <2>2. UNCHANGED process \/ process' = WithoutProcess(t)
    BY <1>2 DEF UnpublishVolume
  <2>3. t # Pod
    BY ConfigurationsAssumption DEF CacheInv, Targets
  <2>4. Pod \in DOMAIN process' => Pod \in DOMAIN process /\ process'[Pod] = process[Pod]
    BY <2>2, <2>3 DEF WithoutProcess
  <2> DEFINE cleaning == [NoCall EXCEPT !.pc = "cleanup", !.target = t, !.todo = CleanupTypes("systemd")]
  <2>5. IsCall(cleaning) /\ cleaning.pc = "cleanup"
    BY DEF NoCall, IsCall
  <2>6. UNCHANGED call \/ call' = [call EXCEPT ![c] = cleaning]
    BY <1>2 DEF UnpublishVolume
  <2> HIDE DEF cleaning
  <2>7. \A d \in Calls : CallInv(d)'
    BY <1>0, <2>1, <2>5, <2>6 DEF CacheInv, CallInv
  <2>8. QED
    BY <2>1, <2>4, <2>6, <2>7 DEF CacheInv
<1>3. QED
  BY <1>1, <1>2

LEMMA CleanupKeepsCache ==
    ASSUME CacheInv, NEW c \in Calls \cup {Unmounter}, CleanupStep(c) PROVE CacheInv'
<1>1. UNCHANGED <<setup, volume, options, process, wait>> /\ call[c].pc = "cleanup"
  BY DEF CleanupStep, RemoveFile, CleanupDone, credentialVars, watcherVars
<1>2. DOMAIN call' = DOMAIN call /\ call' = [d \in DOMAIN call |-> call'[d]]
      /\ \A d \in DOMAIN call \ {c} : call'[d] = call[d]
  BY DEF CleanupStep, RemoveFile, CleanupDone, Return, CacheInv
<1>3. ASSUME c \in Calls PROVE IsCall(call'[c]) /\ call'[c].pc \in {"cleanup", "idle"}
  <2>1. IsCall(call[c]) /\ c \in DOMAIN call
    BY <1>3 DEF CacheInv, CallInv
  <2>2. CASE CleanupDone(c)
    BY <2>1, <2>2, NoCallIsCall DEF CleanupDone, Return
  <2>3. ASSUME NEW rest, call' = [call EXCEPT ![c].todo = rest] PROVE IsCall(call'[c]) /\ call'[c].pc = "cleanup"
    BY <1>1, <2>1, <2>3 DEF IsCall
  <2>4. ASSUME NEW rest, call' = [call EXCEPT ![c].todo = rest, ![c].failed = TRUE]
        PROVE IsCall(call'[c]) /\ call'[c].pc = "cleanup"
    BY <1>1, <2>1, <2>4 DEF IsCall
  <2>5. QED
    BY <2>2, <2>3, <2>4 DEF CleanupStep, RemoveFile
<1>4. \A d \in Calls : CallInv(d)'
  BY <1>1, <1>2, <1>3 DEF CacheInv, CallInv
<1>5. QED
  BY <1>1, <1>2, <1>4 DEF CacheInv

LEMMA StepKeepsCache ==
    ASSUME WatcherTypeOK, CacheInv, [Next]_vars PROVE CacheInv'
<1>1. CASE CleanUnmount
  <2>1. UNCHANGED <<setup, volume, options, wait>> /\ Pod \notin DOMAIN process'
    BY <1>1 DEF CleanUnmount, credentialVars, watcherVars, WithoutProcess
  <2>2. DOMAIN call' = DOMAIN call /\ call' = [d \in DOMAIN call |-> call'[d]]
        /\ \A d \in Calls : call'[d] = call[d]
    BY <1>1, CallsAssumption DEF CleanUnmount, CacheInv
  <2>3. \A d \in Calls : CallInv(d)'
    BY <2>1, <2>2 DEF CacheInv, CallInv
  <2>4. QED
    BY <2>1, <2>2, <2>3 DEF CacheInv
<1>2. CASE EditOptions \/ ProcessFails \/ \E t \in Targets : WorkloadTerminates(t)
  <2>1. UNCHANGED <<setup, volume, call, wait>>
    BY <1>2 DEF EditOptions, ProcessFails, WorkloadTerminates, credentialVars, watcherVars
  <2>2. options' \in setup.options
    BY <1>2 DEF EditOptions, ProcessFails, WorkloadTerminates, CacheInv
  <2>3. UNCHANGED process \/ Pod \notin DOMAIN process'
    BY <1>2 DEF EditOptions, ProcessFails, WorkloadTerminates, WithoutProcess
  <2>4. QED
    BY <2>1, <2>2, <2>3, NoCallStep
<1>3. CASE (PodChanges \/ Distribute) /\ UNCHANGED <<credentialVars, publishVars>>
  <2>1. UNCHANGED <<setup, volume, options, process, call>>
    BY <1>3 DEF credentialVars, publishVars
  <2>2. \A d \in Calls : wait'[d].pc = wait[d].pc
    BY <1>3 DEF PodChanges, PodBecomes, Distribute, WatcherTypeOK, Waits
  <2>3. QED
    BY <2>1, <2>2, NoCallStep DEF CacheInv
<1>4. CASE (Rotate /\ UNCHANGED <<watcherVars, publishVars>>) \/ UNCHANGED vars
  <2>1. UNCHANGED <<setup, volume, options, process, call, wait>>
    BY <1>4 DEF Rotate, watcherVars, publishVars, credentialVars, vars
  <2>2. QED
    BY <2>1, NoCallStep DEF CacheInv
<1>5. CASE Restart
  <2>1. UNCHANGED <<setup, volume, options, process>>
    BY <1>5 DEF Restart
  <2>2. wait' = [c \in Calls |-> NoWait] /\ call' = [c \in DOMAIN call |-> NoCall]
    BY <1>5 DEF Restart
  <2>3. \A d \in Calls : CallInv(d)'
    BY <2>2, NoCallIsCall DEF CallInv, CacheInv, NoWait
  <2>4. QED
    BY <2>1, <2>2, <2>3 DEF CacheInv
<1>6. QED
  BY <1>1, <1>2, <1>3, <1>4, <1>5, CallStepKeepsCache, RequestKeepsCache, CleanupKeepsCache DEF Next

LEMMA CacheInitially ==
    ASSUME Init PROVE CacheInv
<1>1. setup \in Configurations /\ options \in setup.options /\ volume \in CacheVolume(options, setup.attrs)
  BY DEF Init, CredentialsInit
<1>2. Pod \notin DOMAIN process
  BY <1>1, ConfigurationsAssumption DEF Init, Targets
<1>3. call = [c \in Calls \cup {Unmounter} |-> NoCall] /\ wait = [c \in Calls |-> NoWait]
  BY DEF Init, WatcherInit
<1>4. \A c \in Calls : CallInv(c)
  BY <1>3, NoCallIsCall DEF CallInv, NoWait
<1>5. QED
  BY <1>1, <1>2, <1>3, <1>4 DEF CacheInv

(* Spec => []CacheFitsVolume: for every limit, every size in the options and    *)
(* every edit of them, mount-s3 is started with a cache that fits the volume    *)
(* the controller made when it created the Pod.                                 *)
THEOREM CacheCorrect == Spec => []CacheFitsVolume
<1>1. Init => WakeupInv /\ CacheInv
  BY WakeupInitially, CacheInitially
<1>2. WakeupInv /\ CacheInv /\ [Next]_vars => WakeupInv' /\ CacheInv'
  BY WakeupStep, StepKeepsCache DEF WakeupInv
<1>3. CacheInv => CacheFitsVolume
  <2> SUFFICES ASSUME CacheInv, Pod \in DOMAIN process PROVE CacheFitsVolume
    BY DEF CacheFitsVolume
  <2> DEFINE attrs == setup.attrs
             args == process[Pod].args
  <2>1. Fits(args, attrs) /\ (Has(args, "cache") <=> volume # NoVolume)
    BY DEF CacheInv
  <2>2. attrs.cache = "emptyDir" => volume.limit = attrs.limit /\ volume.medium = attrs.medium
    BY VolumeHasLimit DEF CacheInv
  <2>3. QED
    BY <2>1, <2>2 DEF CacheFitsVolume, Fits, Size
<1>4. QED
  BY <1>1, <1>2, <1>3, PTL DEF Spec

-----------------------------------------------------------------------------
(* Credentials: a mount has its files as long as it is there.               *)

Types == KeyedTypes \cup DirTypes

(* The files of a mount: of the Mountpoint Pod, or of the target m *)
FileOf(m, type) ==
    IF m = Pod THEN FileName("pod", Pod, type) ELSE FileName("systemd", m, type)

(* The types of the files that Provide writes *)
Wanted(kind) ==
    {type \in Types : \E types \in Provide(kind) : \E i \in DOMAIN types : types[i] = type}

(* UpToDate, with the generation of the driver's secret as a parameter *)
Fresh(fs, f, g, secret) ==
    f \in DOMAIN fs /\ fs[f] >= IF f.type \in ProfileTypes THEN secret ELSE g

(* The files of a profile follow each other. *)
InOrder(types) == \A i \in DOMAIN types : types[i] = "config" => i < Len(types)

Elements(types) == {types[i] : i \in DOMAIN types}

(* The types of the files that the call r will still write or remove *)
Todo(r) == Elements(r.todo)

(* What a call is about and has in hand, for targets of the kinds k at         *)
(* generation g.                                                               *)
CallOK(r, k, g) ==
    /\ r.todo \in Seq(Types)
    /\ r.gen \in Nat /\ r.gen <= g /\ r.copy \in Nat /\ (r.copy # 0 => r.copy >= r.gen)
    /\ r.pc = "watch" => k[r.target] = "pod"
    /\ r.pc = "provide" => k[r.target] \in {"pod", "systemd"}
    /\ r.pc \in {"watch", "provide", "cleanup"} => r.target \in DOMAIN k
    /\ r.pc = "cleanup" => InOrder(r.todo)

(* A call that provides for the Mountpoint Pod has its lock: what it wrote is  *)
(* as it wrote it.                                                             *)
Holds(r, k) == r.pc = "provide" /\ k[r.target] = "pod"
PodProvided(r, k, fs, want, secret) ==
    Holds(r, k) =>
        \A type \in want \ Todo(r) : Fresh(fs, FileOf(Pod, type), r.gen, secret)

(* One for a mount of systemd's has no lock.  But a profile is the same        *)
(* whoever writes it, and a token is written last.                             *)
SystemdProvided(r, k, fs, mounts, want, secret) ==
    r.pc = "provide" /\ k[r.target] = "systemd" =>
        /\ \A i \in 1..(Len(r.todo) - 1) : r.todo[i] \in ProfileTypes
        /\ \A type \in want \ Todo(r) :
            IF type \in ProfileTypes
            THEN r.target \in mounts => Fresh(fs, FileOf(r.target, type), r.gen, secret)
            ELSE r.todo = <<>>

(* A cleanup is of a mount that is gone; the tokens of the host stay. *)
CleansUp(r, mounts) ==
    r.pc = "cleanup" => r.target \notin mounts /\ Todo(r) \subseteq KeyedTypes

CallerOK(r, k, g, fs, mounts, pods, hosts, secret) ==
    /\ CallOK(r, k, g)
    /\ PodProvided(r, k, fs, pods, secret)
    /\ SystemdProvided(r, k, fs, mounts, hosts, secret)
    /\ CleansUp(r, mounts)

(* The Pod unmounter removes the files of a Pod without a mount; those it does *)
(* not list any more are removed, unless there was an error.                   *)
UnmounterOK(r, fs, mounts) ==
    /\ IsCall(r) /\ r.todo \in Seq(Types)
    /\ r.pc \in {"idle", "cleanup"}
    /\ r.pc = "cleanup" =>
        /\ Pod \notin mounts /\ InOrder(r.todo)
        /\ ~r.failed => \A f \in DOMAIN fs : f.dir = Pod => f.type \in Todo(r)

FilesOK(fs) == \A f \in DOMAIN fs : f.dir = Pod => f.type \in Types /\ f = FileOf(Pod, f.type)

EnvOK(ps, fs) ==
    \A m \in DOMAIN ps : \A f \in ps[m].env :
        f \in DOMAIN fs /\ f.type \in Types /\ f = FileOf(m, f.type)

(* lockMountpointPod: one call, or the unmounter *)
LockOK(cs, k) ==
    \A c \in Calls : Holds(cs[c], k) =>
        cs[Unmounter].pc = "idle" /\ \A d \in Calls : Holds(cs[d], k) => c = d

CredentialsInv ==
    /\ gen \in Nat /\ driver.secret \in Nat
    /\ FilesOK(files) /\ EnvOK(process, files) /\ LockOK(call, setup.kind)
    /\ UnmounterOK(call[Unmounter], files, DOMAIN process)
    /\ \A c \in Calls :
        CallerOK(call[c], setup.kind, gen, files, DOMAIN process, Wanted("pod"), Wanted("systemd"),
                 driver.secret)

-----------------------------------------------------------------------------
(* Names and types of files.                                                *)

(* A file has its mount and its type in its name; tokens of the host only      *)
(* their type.                                                                 *)
LEMMA FileNamesDiffer ==
    ASSUME NEW m, NEW n, NEW x, NEW y
    PROVE  /\ FileOf(m, x).type = x
           /\ FileOf(m, x).dir = Pod <=> m = Pod
           /\ FileOf(m, x) = FileOf(n, y) => x = y /\ (x \in KeyedTypes => m = n)
<1>1. KeyedTypes \cap DirTypes = {}
  BY DEF KeyedTypes, DirTypes
<1>2. HostDir # Pod
  BY CredentialsAssumption
<1>3. /\ FileOf(m, x).type = x /\ FileOf(m, x).dir = (IF m = Pod THEN Pod ELSE HostDir)
      /\ FileOf(m, x).id = IF x \in DirTypes THEN Shared ELSE m
  BY DEF FileOf, FileName, Dir
<1>4. /\ FileOf(n, y).type = y /\ FileOf(n, y).dir = (IF n = Pod THEN Pod ELSE HostDir)
      /\ FileOf(n, y).id = IF y \in DirTypes THEN Shared ELSE n
  BY DEF FileOf, FileName, Dir
<1>. QED
  BY <1>1, <1>2, <1>3, <1>4

(* The name that the calls compute *)
LEMMA FileNameOf ==
    ASSUME NEW t, t # Pod, NEW type
    PROVE  /\ FileName("pod", GetCredentialPodID("pod", t), type) = FileOf(Pod, type)
           /\ FileName("systemd", GetCredentialPodID("systemd", t), type) = FileOf(t, type)
BY DEF GetCredentialPodID, FileOf

(* Lists of types, one after the other *)
LEMMA ListConcat ==
    ASSUME NEW p \in Seq(Types), NEW q \in Seq(Types)
    PROVE  /\ p \o q \in Seq(Types) /\ Elements(p \o q) = Elements(p) \cup Elements(q)
           /\ InOrder(p) /\ InOrder(q) => InOrder(p \o q)
<1>. DEFINE s == p \o q
<1>1. Len(p) \in Nat /\ Len(q) \in Nat /\ s \in Seq(Types) /\ Len(s) = Len(p) + Len(q)
  OBVIOUS
<1>2. \A i \in 1..Len(p) : s[i] = p[i]
  OBVIOUS
<1>3. \A i \in 1..Len(q) : s[Len(p) + i] = q[i]
  OBVIOUS
<1>. HIDE DEF s
<1>4. /\ DOMAIN s = 1..(Len(p) + Len(q)) /\ DOMAIN p = 1..Len(p) /\ DOMAIN q = 1..Len(q)
  BY <1>1
<1>5. ASSUME NEW i \in DOMAIN s
      PROVE  \/ i \in DOMAIN p /\ s[i] = p[i]
             \/ i - Len(p) \in DOMAIN q /\ s[i] = q[i - Len(p)]
  <2>1. CASE i <= Len(p)
    BY <1>1, <1>2, <1>4, <2>1
  <2>2. CASE i > Len(p)
    <3>1. i - Len(p) \in 1..Len(q) /\ Len(p) + (i - Len(p)) = i
      BY <1>1, <1>4, <2>2
    <3>. QED
      BY <1>3, <1>4, <3>1
  <2>. QED
    BY <1>1, <1>4, <2>1, <2>2
<1>6. Elements(s) \subseteq Elements(p) \cup Elements(q)
  BY <1>5 DEF Elements
<1>7. \A i \in DOMAIN p : i \in DOMAIN s /\ s[i] = p[i]
  BY <1>1, <1>2, <1>4
<1>8. \A i \in DOMAIN q : Len(p) + i \in DOMAIN s /\ s[Len(p) + i] = q[i]
  BY <1>1, <1>3, <1>4
<1>9. Elements(p) \cup Elements(q) \subseteq Elements(s)
  BY <1>7, <1>8 DEF Elements
<1>10. ASSUME InOrder(p), InOrder(q) PROVE InOrder(s)
  <2>1. ASSUME NEW i \in DOMAIN s, s[i] = "config" PROVE i < Len(s)
    <3>1. CASE i \in DOMAIN p /\ s[i] = p[i]
      BY <1>1, <1>4, <1>10, <2>1, <3>1 DEF InOrder
    <3>2. CASE i - Len(p) \in DOMAIN q /\ s[i] = q[i - Len(p)]
      <4>1. i - Len(p) < Len(q)
        BY <1>10, <2>1, <3>2 DEF InOrder
      <4>. QED
        BY <1>1, <1>4, <2>1, <4>1
    <3>. QED
      BY <1>5, <2>1, <3>1, <3>2
  <2>. QED
    BY <2>1 DEF InOrder
<1>. QED
  BY <1>1, <1>6, <1>9, <1>10 DEF s

(* The first of a list is dealt with. *)
LEMMA ListTail ==
    ASSUME NEW p \in Seq(Types), p # <<>>
    PROVE  /\ Head(p) \in Types /\ Tail(p) \in Seq(Types)
           /\ Elements(p) = {Head(p)} \cup Elements(Tail(p))
           /\ InOrder(p) => InOrder(Tail(p)) /\ (Head(p) = "config" => Tail(p) # <<>>)
           /\ Len(Tail(p)) = Len(p) - 1 /\ Len(p) \in Nat \ {0}
           /\ \A i \in 1..Len(Tail(p)) : Tail(p)[i] = p[i + 1]
<1>. DEFINE s == Tail(p)
<1>1. /\ Len(p) \in Nat \ {0} /\ s \in Seq(Types) /\ Len(s) = Len(p) - 1 /\ Head(p) = p[1]
  OBVIOUS
<1>2. \A i \in 1..Len(s) : s[i] = p[i + 1]
  OBVIOUS
<1>. HIDE DEF s
<1>3. DOMAIN s = 1..(Len(p) - 1) /\ DOMAIN p = 1..Len(p)
  BY <1>1
<1>4. \A i \in DOMAIN p : i = 1 \/ (i - 1 \in DOMAIN s /\ s[i - 1] = p[i])
  <2>1. ASSUME NEW i \in DOMAIN p, i # 1 PROVE i - 1 \in DOMAIN s /\ s[i - 1] = p[i]
    <3>1. i - 1 \in 1..Len(s) /\ (i - 1) + 1 = i
      BY <1>1, <1>3, <2>1
    <3>. QED
      BY <1>1, <1>2, <1>3, <3>1
  <2>. QED
    BY <2>1
<1>5. \A i \in DOMAIN s : i + 1 \in DOMAIN p /\ s[i] = p[i + 1]
  BY <1>1, <1>2, <1>3
<1>6. Elements(p) = {Head(p)} \cup Elements(s)
  <2>1. Elements(p) \subseteq {Head(p)} \cup Elements(s)
    BY <1>1, <1>4 DEF Elements
  <2>2. Elements(s) \subseteq Elements(p)
    BY <1>5 DEF Elements
  <2>3. Head(p) \in Elements(p)
    BY <1>1, <1>3 DEF Elements
  <2>. QED
    BY <2>1, <2>2, <2>3
<1>7. ASSUME InOrder(p) PROVE InOrder(s) /\ (Head(p) = "config" => s # <<>>)
  <2>1. InOrder(s)
    BY <1>1, <1>3, <1>5, <1>7 DEF InOrder
  <2>2. Head(p) = "config" => 1 < Len(p)
    BY <1>1, <1>3, <1>7 DEF InOrder
  <2>. QED
    BY <1>1, <2>1, <2>2
<1>8. Head(p) \in Types
  BY <1>1
<1>. QED
  BY <1>1, <1>2, <1>6, <1>7, <1>8 DEF s

(* What Provide writes: one list of types.  For a mount of systemd's only the  *)
(* last may be something else than a profile.                                  *)
LEMMA ProvideShape ==
    ASSUME NEW kind \in {"pod", "systemd"}, NEW types \in Provide(kind)
    PROVE  /\ types \in Seq(Types) /\ Provide(kind) = {types}
           /\ kind = "systemd" => \A i \in 1..(Len(types) - 1) : types[i] \in ProfileTypes
<1>1. CASE setup.auth = "pod"
  <2>1. types = <<"sts">> \/ types = <<"eks">>
    BY <1>1 DEF Provide, ProvideFromPod
  <2>2. Provide(kind) = {types}
    BY <1>1 DEF Provide, ProvideFromPod
  <2>3. <<"sts">> \in Seq(Types) /\ <<"eks">> \in Seq(Types)
    BY DEF Types, KeyedTypes
  <2>4. Len(types) = 1
    BY <2>1
  <2>5. 1..(Len(types) - 1) = {}
    BY <2>4
  <2>. QED
    BY <2>1, <2>2, <2>3, <2>5
<1>2. CASE setup.auth # "pod"
  <2>. DEFINE l == ProvideLongTermCredentials
              s == ProvideStsWebIdentityCredentials
              k == ProvideContainerCredentials(kind)
  <2>1. types = l \o s \o k /\ Provide(kind) = {types}
    BY <1>2 DEF Provide, ProvideFromDriver
  <2>2. /\ l \in {<<>>, <<"config", "credentials">>} /\ s \in {<<>>, <<"token">>}
        /\ k \in {<<>>, <<"eksToken">>} /\ (kind = "systemd" => k = <<>>)
    BY DEF ProvideLongTermCredentials, ProvideStsWebIdentityCredentials, ProvideContainerCredentials
  <2>. HIDE DEF l, s, k
  <2>3. l \in Seq(Types) /\ s \in Seq(Types) /\ k \in Seq(Types)
    <3>1. <<>> \in Seq(Types) /\ <<"token">> \in Seq(Types) /\ <<"eksToken">> \in Seq(Types)
      BY DEF Types, DirTypes
    <3>2. <<"config", "credentials">> \in Seq(Types)
      BY DEF Types, KeyedTypes
    <3>. QED
      BY <2>2, <3>1, <3>2
  <2>4. types \in Seq(Types)
    BY <2>1, <2>3
  <2>5. ASSUME kind = "systemd", NEW i \in 1..(Len(types) - 1) PROVE types[i] \in ProfileTypes
    <3>1. Len(types) = Len(l) + Len(s) /\ i \in 1..(Len(l) + Len(s)) /\ Len(l) \in Nat /\ Len(s) <= 1
      BY <2>1, <2>2, <2>3, <2>5
    <3>2. i \in 1..Len(l)
      BY <2>5, <3>1
    <3>3. types[i] = l[i]
      BY <2>1, <2>2, <2>3, <2>5, <3>2
    <3>4. \A j \in 1..Len(l) : l[j] \in ProfileTypes
      BY <2>2 DEF ProfileTypes
    <3>. QED
      BY <3>2, <3>3, <3>4
  <2>. QED
    BY <2>1, <2>4, <2>5
<1>. QED
  BY <1>1, <1>2

(* What Cleanup removes *)
LEMMA CleanupShape ==
    /\ CleanupTypes("pod") \in Seq(Types) /\ CleanupTypes("systemd") \in Seq(Types)
    /\ Elements(CleanupTypes("pod")) = Types /\ Elements(CleanupTypes("systemd")) = KeyedTypes
    /\ InOrder(CleanupTypes("pod")) /\ InOrder(CleanupTypes("systemd"))
<1>. DEFINE a == <<"sts", "eks">>
            b == <<"config", "credentials">>
            c == <<"token", "eksToken">>
            e == <<>>
<1>1. a \in Seq(Types) /\ b \in Seq(Types) /\ c \in Seq(Types) /\ e \in Seq(Types)
  BY DEF Types, KeyedTypes, DirTypes
<1>2. /\ Elements(a) = {"sts", "eks"} /\ Elements(b) = {"config", "credentials"}
      /\ Elements(c) = {"token", "eksToken"} /\ Elements(e) = {}
  BY DEF Elements
<1>3. InOrder(a) /\ InOrder(b) /\ InOrder(c) /\ InOrder(e)
  BY DEF InOrder
<1>4. CleanupTypes("pod") = a \o (b \o c) /\ CleanupTypes("systemd") = a \o (b \o e)
  BY DEF CleanupTypes, CleanupFromPod, CleanupFromDriver
<1>. HIDE DEF a, b, c, e
<1>5. /\ b \o c \in Seq(Types) /\ Elements(b \o c) = DirTypes \cup {"config", "credentials"} /\ InOrder(b \o c)
      /\ b \o e \in Seq(Types) /\ Elements(b \o e) = {"config", "credentials"} /\ InOrder(b \o e)
  BY <1>1, <1>2, <1>3, ListConcat DEF DirTypes
<1>6. /\ a \o (b \o c) \in Seq(Types) /\ InOrder(a \o (b \o c))
      /\ Elements(a \o (b \o c)) = Elements(a) \cup Elements(b \o c)
  BY <1>1, <1>3, <1>5, ListConcat
<1>7. /\ a \o (b \o e) \in Seq(Types) /\ InOrder(a \o (b \o e))
      /\ Elements(a \o (b \o e)) = Elements(a) \cup Elements(b \o e)
  BY <1>1, <1>3, <1>5, ListConcat
<1>. QED
  BY <1>2, <1>4, <1>5, <1>6, <1>7 DEF Types, KeyedTypes

(* The files that the environment of a new process names *)
LEMMA EnvShape ==
    ASSUME NEW t, t # Pod
    PROVE  /\ CredentialEnv("pod", t) = {FileOf(Pod, type) : type \in Wanted("pod")}
           /\ CredentialEnv("systemd", t) = {FileOf(t, type) : type \in Wanted("systemd")}
<1>. SUFFICES ASSUME NEW kind \in {"pod", "systemd"}, NEW m, m = IF kind = "pod" THEN Pod ELSE t
              PROVE  CredentialEnv(kind, t) = {FileOf(m, type) : type \in Wanted(kind)}
  OBVIOUS
<1>1. \A type : FileName(kind, GetCredentialPodID(kind, t), type) = FileOf(m, type)
  BY FileNameOf
<1>2. \A types \in Provide(kind) : \A i \in DOMAIN types : types[i] \in Types
  BY ProvideShape
<1>3. CredentialEnv(kind, t) = UNION {{FileOf(m, types[i]) : i \in DOMAIN types} : types \in Provide(kind)}
  BY <1>1 DEF CredentialEnv, FileNames
<1>. QED
  BY <1>2, <1>3 DEF Wanted

(* What is wanted is on the list of a call that begins. *)
LEMMA WantedListed ==
    ASSUME NEW kind \in {"pod", "systemd"}, NEW types \in Provide(kind)
    PROVE  Wanted(kind) = Elements(types)
<1>1. Provide(kind) = {types} /\ types \in Seq(Types)
  BY ProvideShape
<1>. QED
  BY <1>1 DEF Wanted, Elements

(* Only a restart changes what is wanted. *)
LEMMA WantedSame ==
    ASSUME UNCHANGED <<setup, driver>>
    PROVE  /\ Wanted("pod")' = Wanted("pod") /\ Wanted("systemd")' = Wanted("systemd")
           /\ setup'.kind = setup.kind /\ driver'.secret = driver.secret
BY DEF Wanted, Provide, ProvideFromPod, ProvideFromDriver, ProvideLongTermCredentials,
       ProvideStsWebIdentityCredentials, ProvideContainerCredentials, RegionKnown

-----------------------------------------------------------------------------
(* Steps.                                                                   *)

(* What a call relies on, as the other calls leave it. *)
LEMMA CallerKept ==
    ASSUME NEW r, NEW k, NEW g, NEW fs, NEW ms, NEW pw, NEW hw, NEW s \in Nat,
           CallerOK(r, k, g, fs, ms, pw, hw, s), Pod \notin DOMAIN k,
           NEW g2 \in Nat, g \in Nat, g2 >= g,
           NEW fs2, NEW ms2, ms2 \ {Pod} \subseteq ms,
           Holds(r, k) => \A f \in DOMAIN fs : f.dir = Pod => f \in DOMAIN fs2 /\ fs2[f] = fs[f],
           \A type \in ProfileTypes :
                r.target \in ms2 /\ FileOf(r.target, type) \in DOMAIN fs =>
                    /\ FileOf(r.target, type) \in DOMAIN fs2
                    /\ \/ fs2[FileOf(r.target, type)] = fs[FileOf(r.target, type)]
                       \/ fs2[FileOf(r.target, type)] = s
    PROVE  CallerOK(r, k, g2, fs2, ms2, pw, hw, s)
<1>1. CallOK(r, k, g2)
  BY DEF CallerOK, CallOK
<1>2. PodProvided(r, k, fs2, pw, s)
  <2>1. ASSUME Holds(r, k), NEW type \in pw \ Todo(r) PROVE Fresh(fs2, FileOf(Pod, type), r.gen, s)
    <3>1. Fresh(fs, FileOf(Pod, type), r.gen, s) /\ FileOf(Pod, type).dir = Pod
      BY <2>1, FileNamesDiffer DEF CallerOK, PodProvided
    <3>. QED
      BY <2>1, <3>1 DEF Fresh
  <2>. QED
    BY <2>1 DEF PodProvided
<1>3. SystemdProvided(r, k, fs2, ms2, hw, s)
  <2>1. ASSUME r.pc = "provide", k[r.target] = "systemd", NEW type \in hw \ Todo(r),
               type \in ProfileTypes, r.target \in ms2
        PROVE  Fresh(fs2, FileOf(r.target, type), r.gen, s)
    <3>1. r.target \in ms
      BY <2>1 DEF CallerOK, CallOK
    <3>2. Fresh(fs, FileOf(r.target, type), r.gen, s) /\ FileOf(r.target, type).type = type
      BY <2>1, <3>1, FileNamesDiffer DEF CallerOK, SystemdProvided
    <3>3. FileOf(r.target, type) \in DOMAIN fs2 /\ fs2[FileOf(r.target, type)] >= s
      BY <2>1, <3>2 DEF Fresh
    <3>. QED
      BY <2>1, <3>2, <3>3 DEF Fresh
  <2>. QED
    BY <2>1 DEF CallerOK, SystemdProvided
<1>4. CleansUp(r, ms2)
  BY DEF CallerOK, CallOK, CleansUp
<1>. QED
  BY <1>1, <1>2, <1>3, <1>4 DEF CallerOK

(* Everything together. *)
LEMMA CredentialsKept ==
    ASSUME CredentialsInv, UNCHANGED <<setup, driver>>, gen' \in Nat,
           FilesOK(files'), EnvOK(process', files'), LockOK(call', setup.kind),
           UnmounterOK(call'[Unmounter], files', DOMAIN process'),
           \A c \in Calls : CallerOK(call'[c], setup.kind, gen', files', DOMAIN process', Wanted("pod"),
                                     Wanted("systemd"), driver.secret)
    PROVE  CredentialsInv'
BY WantedSame DEF CredentialsInv

(* A step that changes one call at most, and neither files nor processes. *)
LEMMA CallChanges ==
    ASSUME CacheInv, CredentialsInv, UNCHANGED <<setup, driver, gen, files, process>>,
           NEW c \in Calls, NEW r, call' = [call EXCEPT ![c] = r],
           CallerOK(r, setup.kind, gen, files, DOMAIN process, Wanted("pod"), Wanted("systemd"), driver.secret),
           Holds(r, setup.kind) => Holds(call[c], setup.kind) \/ Free
    PROVE  CredentialsInv'
<1>1. /\ call'[c] = r /\ \A d \in Calls \ {c} : call'[d] = call[d]
      /\ call'[Unmounter] = call[Unmounter]
  BY CallsAssumption DEF CacheInv
<1>2. ASSUME Holds(r, setup.kind), ~Holds(call[c], setup.kind)
      PROVE  call[Unmounter].pc = "idle" /\ \A d \in Calls : ~Holds(call[d], setup.kind)
  BY <1>2 DEF Free, Holds, Kind
<1>3. LockOK(call', setup.kind)
  BY <1>1, <1>2 DEF CredentialsInv, LockOK
<1>4. \A d \in Calls : CallerOK(call'[d], setup.kind, gen, files, DOMAIN process, Wanted("pod"),
                                Wanted("systemd"), driver.secret)
  BY <1>1 DEF CredentialsInv
<1>. QED
  BY <1>1, <1>3, <1>4, CredentialsKept DEF CredentialsInv

(* A call that returned, or waits, relies on nothing. *)
LEMMA CallerIdle ==
    ASSUME NEW k, NEW g \in Nat, NEW fs, NEW ms, NEW pw, NEW hw, NEW s
    PROVE  CallerOK(NoCall, k, g, fs, ms, pw, hw, s) /\ ~Holds(NoCall, k) /\ NoCall.pc = "idle"
<1>1. /\ NoCall.pc = "idle" /\ NoCall.todo = <<>> /\ NoCall.gen = 0 /\ NoCall.copy = 0
  BY DEF NoCall
<1>2. NoCall.todo \in Seq(Types)
  BY <1>1
<1>. QED
  BY <1>1, <1>2 DEF CallerOK, CallOK, Holds, PodProvided, SystemdProvided, CleansUp

(* A call that begins to provide, for a mount of one kind or the other. *)
LEMMA CallerBegins ==
    ASSUME CredentialsInv, NEW r, r.pc = "provide", r.target \in DOMAIN setup.kind,
           r.gen \in Nat, r.gen <= gen, r.copy \in Nat, r.copy # 0 => r.copy >= r.gen,
           NEW kind \in {"pod", "systemd"}, setup.kind[r.target] = kind, r.todo \in Provide(kind),
           NEW fs, NEW ms
    PROVE  CallerOK(r, setup.kind, gen, fs, ms, Wanted("pod"), Wanted("systemd"), driver.secret)
<1>1. r.todo \in Seq(Types) /\ (kind = "systemd" => \A i \in 1..(Len(r.todo) - 1) : r.todo[i] \in ProfileTypes)
  BY ProvideShape
<1>2. Wanted(kind) \ Todo(r) = {}
  BY WantedListed DEF Todo
<1>3. CallOK(r, setup.kind, gen) /\ CleansUp(r, ms)
  BY <1>1 DEF CallOK, CleansUp
<1>4. PodProvided(r, setup.kind, fs, Wanted("pod"), driver.secret)
  BY <1>2 DEF PodProvided, Holds
<1>5. SystemdProvided(r, setup.kind, fs, ms, Wanted("systemd"), driver.secret)
  BY <1>1, <1>2 DEF SystemdProvided
<1>. QED
  BY <1>3, <1>4, <1>5 DEF CallerOK

(* Steps of a call that write no file and start no process. *)
LEMMA CallKeepsCredentials ==
    ASSUME WatcherTypeOK, CacheInv, CredentialsInv, NEW c \in Calls,
           GiveUpWaiting(c) \/ LockMountpointPod(c) \/ CopyToken(c) \/ Expire(c)
    PROVE  CredentialsInv'
<1>. DEFINE ok(r) == CallerOK(r, setup.kind, gen, files, DOMAIN process, Wanted("pod"), Wanted("systemd"),
                              driver.secret)
<1>0. IsCall(call[c]) /\ ok(call[c]) /\ gen \in Nat
  BY DEF CacheInv, CallInv, CredentialsInv
<1>1. UNCHANGED <<setup, driver, gen, files, process>>
  BY DEF GiveUpWaiting, LockMountpointPod, CopyToken, Expire, credentialVars
<1>2. CASE Return(c)
  <2>1. ok(NoCall) /\ ~Holds(NoCall, setup.kind)
    BY <1>0, CallerIdle
  <2>. QED
    BY <1>1, <1>2, <2>1, CallChanges DEF Return
<1>3. ASSUME LockMountpointPod(c), NEW types \in Provide("pod"),
             call' = [call EXCEPT ![c].pc = "provide", ![c].todo = types,
                                  ![c].isSource = Pod \in DOMAIN process]
      PROVE  CredentialsInv'
  <2>. DEFINE r == [call[c] EXCEPT !.pc = "provide", !.todo = types, !.isSource = Pod \in DOMAIN process]
  <2>1. call' = [call EXCEPT ![c] = r]
    BY <1>0, <1>3 DEF CacheInv
  <2>2. /\ r.pc = "provide" /\ r.todo = types /\ r.target = call[c].target /\ r.gen = call[c].gen
        /\ r.copy = call[c].copy
    BY <1>0 DEF IsCall
  <2>. HIDE DEF r
  <2>3. call[c].pc = "watch" /\ Free
    BY <1>3 DEF LockMountpointPod, CacheInv, CallInv
  <2>4. /\ setup.kind[r.target] = "pod" /\ r.target \in DOMAIN setup.kind /\ r.gen \in Nat /\ r.gen <= gen
        /\ r.copy \in Nat /\ (r.copy # 0 => r.copy >= r.gen)
    BY <1>0, <2>2, <2>3 DEF CallerOK, CallOK
  <2>5. ok(r)
    BY <1>3, <2>2, <2>4, CallerBegins
  <2>. QED
    BY <1>1, <2>1, <2>3, <2>5, CallChanges
<1>4. ASSUME NEW x \in Nat, x # 0 => x >= call[c].gen, NEW e, NEW r, call' = [call EXCEPT ![c] = r],
             r = [call[c] EXCEPT !.copy = x, !.expired = e]
      PROVE  CredentialsInv'
  <2>1. /\ r.pc = call[c].pc /\ r.todo = call[c].todo /\ r.target = call[c].target /\ r.gen = call[c].gen
        /\ r.copy = x
    BY <1>0, <1>4 DEF IsCall
  <2>2. ok(r)
    BY <1>0, <1>4, <2>1 DEF CallerOK, CallOK, PodProvided, SystemdProvided, CleansUp, Holds, Todo
  <2>3. Holds(r, setup.kind) => Holds(call[c], setup.kind)
    BY <2>1 DEF Holds
  <2>. QED
    BY <1>1, <1>4, <2>2, <2>3, CallChanges
<1>5. CASE CopyToken(c)
  <2>. DEFINE r == [call[c] EXCEPT !.copy = gen]
  <2>1. call' = [call EXCEPT ![c] = r]
    BY <1>0, <1>5 DEF CopyToken, CacheInv
  <2>2. r = [call[c] EXCEPT !.copy = gen, !.expired = call[c].expired]
    BY <1>0 DEF IsCall
  <2>. HIDE DEF r
  <2>3. gen >= call[c].gen
    BY <1>0 DEF CallerOK, CallOK
  <2>. QED
    BY <1>0, <1>4, <2>1, <2>2, <2>3
<1>6. CASE Expire(c)
  <2>. DEFINE r == [call[c] EXCEPT !.expired = TRUE]
  <2>1. call' = [call EXCEPT ![c] = r]
    BY <1>0, <1>6 DEF Expire, CacheInv
  <2>2. r = [call[c] EXCEPT !.copy = call[c].copy, !.expired = TRUE]
    BY <1>0 DEF IsCall
  <2>. HIDE DEF r
  <2>3. call[c].copy \in Nat /\ (call[c].copy # 0 => call[c].copy >= call[c].gen)
    BY <1>0 DEF CallerOK, CallOK
  <2>. QED
    BY <1>4, <2>1, <2>2, <2>3
<1>. QED
  BY <1>2, <1>3, <1>5, <1>6 DEF GiveUpWaiting, LockMountpointPod

(* A credential file is written. *)
LEMMA WriteKeepsCredentials ==
    ASSUME CacheInv, CredentialsInv, NEW c \in Calls, WriteFile(c)
    PROVE  CredentialsInv'
<1>. DEFINE ok(r) == CallerOK(r, setup.kind, gen, files, DOMAIN process, Wanted("pod"), Wanted("systemd"),
                              driver.secret)
            t == call[c].target
            type == Head(call[c].todo)
            m == IF setup.kind[t] = "pod" THEN Pod ELSE t
            content == CASE type \in DirTypes     -> call[c].copy
                         [] type \in ProfileTypes -> driver.secret
                         [] OTHER                 -> call[c].gen
<1>0. IsCall(call[c]) /\ ok(call[c]) /\ gen \in Nat /\ driver.secret \in Nat
  BY DEF CacheInv, CallInv, CredentialsInv
<1>1. UNCHANGED <<setup, driver, gen, process>> /\ call[c].pc = "provide" /\ call[c].todo # <<>>
  BY DEF WriteFile
<1>2. CASE Return(c) /\ files' = files
  <2>1. ok(NoCall) /\ ~Holds(NoCall, setup.kind)
    BY <1>0, CallerIdle
  <2>. QED
    BY <1>1, <1>2, <2>1, CallChanges DEF Return
<1>3. /\ call[c].todo \in Seq(Types) /\ t \in DOMAIN setup.kind /\ setup.kind[t] \in {"pod", "systemd"}
      /\ call[c].gen \in Nat /\ call[c].gen <= gen /\ call[c].copy \in Nat
      /\ call[c].copy # 0 => call[c].copy >= call[c].gen
  BY <1>0, <1>1 DEF CallerOK, CallOK
<1>4. Pod \notin DOMAIN setup.kind /\ t # Pod
  BY <1>3, ConfigurationsAssumption DEF CacheInv
<1>5. FileName(Kind(t), GetCredentialPodID(Kind(t), t), type) = FileOf(m, type)
  BY <1>3, <1>4, FileNameOf DEF Kind
<1>6. /\ type \in Types /\ Todo(call[c]) = {type} \cup Elements(Tail(call[c].todo))
      /\ Tail(call[c].todo) \in Seq(Types) /\ Len(Tail(call[c].todo)) = Len(call[c].todo) - 1
      /\ Len(call[c].todo) \in Nat \ {0}
      /\ \A i \in 1..Len(Tail(call[c].todo)) : Tail(call[c].todo)[i] = call[c].todo[i + 1]
      /\ type = call[c].todo[1]
  BY <1>1, <1>3, ListTail DEF Todo
<1>7. /\ content \in Nat /\ content >= IF type \in ProfileTypes THEN driver.secret ELSE call[c].gen
      /\ type \in ProfileTypes => content = driver.secret
  <2>1. type \in DirTypes => call[c].copy # 0
    BY DEF WriteFile
  <2>2. DirTypes \cap ProfileTypes = {}
    BY DEF DirTypes, ProfileTypes
  <2>. QED
    BY <1>0, <1>3, <2>1, <2>2
<1>8. ASSUME PutFile(FileOf(m, type), content), NEW r, r = [call[c] EXCEPT !.todo = Tail(call[c].todo), !.copy = 0],
             call' = [call EXCEPT ![c] = r]
      PROVE  CredentialsInv'
  <2>. HIDE DEF content
  <2>. DEFINE name == FileOf(m, type)
  <2>1. /\ DOMAIN files' = DOMAIN files \cup {name} /\ files'[name] = content
        /\ \A f \in DOMAIN files \ {name} : files'[f] = files[f]
    BY <1>8 DEF PutFile
  <2>2. /\ name.type = type /\ (name.dir = Pod <=> m = Pod)
    BY FileNamesDiffer
  <2>3. /\ call'[c] = r /\ (\A d \in Calls \ {c} : call'[d] = call[d]) /\ call'[Unmounter] = call[Unmounter]
    BY <1>8, CallsAssumption DEF CacheInv
  <2>4. /\ r.pc = "provide" /\ r.todo = Tail(call[c].todo) /\ r.target = t /\ r.gen = call[c].gen /\ r.copy = 0
    BY <1>0, <1>1, <1>8 DEF IsCall
  <2>5. Fresh(files', name, r.gen, driver.secret)
    BY <1>7, <2>1, <2>2, <2>4 DEF Fresh
  <2>6. \A f, g, s : Fresh(files, f, g, s) /\ f # name => Fresh(files', f, g, s)
    BY <2>1 DEF Fresh
  <2>7. FilesOK(files')
    <3>1. m = Pod => name = FileOf(Pod, name.type) /\ name.type \in Types
      BY <1>6, <2>2
    <3>. QED
      BY <2>1, <2>2, <3>1 DEF FilesOK, CredentialsInv
  <2>8. EnvOK(process', files')
    BY <1>1, <2>1 DEF EnvOK, CredentialsInv
  <2>9. LockOK(call', setup.kind)
    BY <1>1, <2>3, <2>4 DEF LockOK, Holds, CredentialsInv
  <2>10. UnmounterOK(call'[Unmounter], files', DOMAIN process')
    <3>1. m = Pod => call[Unmounter].pc = "idle"
      BY <1>1, <1>4 DEF CredentialsInv, LockOK, Holds
    <3>. QED
      BY <1>1, <2>1, <2>2, <2>3, <3>1 DEF UnmounterOK, CredentialsInv
  <2>11. ASSUME NEW d \in Calls \ {c}
         PROVE  CallerOK(call[d], setup.kind, gen, files', DOMAIN process, Wanted("pod"), Wanted("systemd"),
                         driver.secret)
    <3>1. ok(call[d])
      BY DEF CredentialsInv
    <3>2. Holds(call[d], setup.kind) => \A f \in DOMAIN files : f.dir = Pod => f \in DOMAIN files' /\ files'[f] = files[f]
      <4>1. Holds(call[d], setup.kind) => m # Pod
        BY <1>1, <1>4 DEF CredentialsInv, LockOK, Holds
      <4>. QED
        BY <2>1, <2>2, <4>1
    <3>3. ASSUME NEW ty \in ProfileTypes, FileOf(call[d].target, ty) \in DOMAIN files
          PROVE  /\ FileOf(call[d].target, ty) \in DOMAIN files'
                 /\ \/ files'[FileOf(call[d].target, ty)] = files[FileOf(call[d].target, ty)]
                    \/ files'[FileOf(call[d].target, ty)] = driver.secret
      <4>1. CASE FileOf(call[d].target, ty) = name
        <5>1. ty = type
          BY <4>1, FileNamesDiffer
        <5>. QED
          BY <1>7, <2>1, <3>3, <4>1, <5>1
      <4>2. CASE FileOf(call[d].target, ty) # name
        BY <2>1, <3>3, <4>2
      <4>. QED
        BY <4>1, <4>2
    <3>. QED
      BY <1>0, <1>4, <3>1, <3>2, <3>3, CallerKept
  <2>12. CallerOK(r, setup.kind, gen, files', DOMAIN process, Wanted("pod"), Wanted("systemd"), driver.secret)
    <3>1. CallOK(r, setup.kind, gen) /\ CleansUp(r, DOMAIN process)
      BY <1>3, <1>6, <2>4 DEF CallOK, CleansUp
    <3>2. Todo(call[c]) = {type} \cup Todo(r)
      BY <1>6, <2>4 DEF Todo
    <3>3. PodProvided(r, setup.kind, files', Wanted("pod"), driver.secret)
      <4>1. ASSUME Holds(r, setup.kind), NEW ty \in Wanted("pod") \ Todo(r)
            PROVE  Fresh(files', FileOf(Pod, ty), r.gen, driver.secret)
        <5>1. m = Pod /\ Holds(call[c], setup.kind)
          BY <1>1, <2>4, <4>1 DEF Holds
        <5>2. CASE ty = type
          BY <2>5, <5>1, <5>2
        <5>3. CASE ty # type
          <6>1. Fresh(files, FileOf(Pod, ty), r.gen, driver.secret)
            BY <1>0, <2>4, <3>2, <4>1, <5>1, <5>3 DEF CallerOK, PodProvided
          <6>2. FileOf(Pod, ty) # name
            BY <5>3, FileNamesDiffer
          <6>. QED
            BY <2>6, <6>1, <6>2
        <5>. QED
          BY <5>2, <5>3
      <4>. QED
        BY <4>1 DEF PodProvided
    <3>4. SystemdProvided(r, setup.kind, files', DOMAIN process, Wanted("systemd"), driver.secret)
      <4>. SUFFICES ASSUME setup.kind[t] = "systemd"
                    PROVE  /\ \A i \in 1..(Len(r.todo) - 1) : r.todo[i] \in ProfileTypes
                           /\ \A ty \in Wanted("systemd") \ Todo(r) :
                                IF ty \in ProfileTypes
                                THEN t \in DOMAIN process => Fresh(files', FileOf(t, ty), r.gen, driver.secret)
                                ELSE r.todo = <<>>
        BY <2>4 DEF SystemdProvided
      <4>1. /\ \A i \in 1..(Len(call[c].todo) - 1) : call[c].todo[i] \in ProfileTypes
            /\ \A ty \in Wanted("systemd") \ Todo(call[c]) :
                 IF ty \in ProfileTypes
                 THEN t \in DOMAIN process => Fresh(files, FileOf(t, ty), r.gen, driver.secret)
                 ELSE FALSE
        BY <1>0, <1>1, <2>4 DEF CallerOK, SystemdProvided
      <4>2. ASSUME NEW i \in 1..(Len(r.todo) - 1) PROVE r.todo[i] \in ProfileTypes
        <5>1. i + 1 \in 1..(Len(call[c].todo) - 1) /\ i \in 1..Len(Tail(call[c].todo))
          BY <1>6, <2>4, <4>2
        <5>. QED
          BY <1>6, <2>4, <4>1, <5>1
      <4>3. ASSUME NEW ty \in Wanted("systemd") \ Todo(r), ty \in ProfileTypes, t \in DOMAIN process
            PROVE  Fresh(files', FileOf(t, ty), r.gen, driver.secret)
        <5>1. CASE ty = type
          BY <2>5, <5>1
        <5>2. CASE ty # type
          <6>1. FileOf(t, ty) # name
            BY <5>2, FileNamesDiffer
          <6>. QED
            BY <2>6, <3>2, <4>1, <4>3, <5>2, <6>1
        <5>. QED
          BY <5>1, <5>2
      <4>4. ASSUME NEW ty \in Wanted("systemd") \ Todo(r), ty \notin ProfileTypes PROVE r.todo = <<>>
        <5>1. ty = type
          BY <3>2, <4>1, <4>4
        <5>2. Len(call[c].todo) = 1
          <6>1. \A n \in Nat \ {0} : n # 1 => 1 \in 1..(n - 1)
            OBVIOUS
          <6>. QED
            BY <1>6, <4>1, <4>4, <5>1, <6>1
        <5>3. Len(r.todo) = 0 /\ r.todo \in Seq(Types)
          BY <1>6, <2>4, <5>2
        <5>. QED
          BY <5>3
      <4>. QED
        BY <4>2, <4>3, <4>4
    <3>. QED
      BY <3>1, <3>3, <3>4 DEF CallerOK
  <2>. QED
    BY <1>0, <1>1, <2>3, <2>7, <2>8, <2>9, <2>10, <2>11, <2>12, CredentialsKept
<1>9. CASE /\ PutFile(FileName(Kind(t), GetCredentialPodID(Kind(t), t), type), content)
           /\ call' = [call EXCEPT ![c].todo = Tail(@), ![c].copy = 0]
  <2>1. call' = [call EXCEPT ![c] = [call[c] EXCEPT !.todo = Tail(call[c].todo), !.copy = 0]]
    BY <1>0, <1>9 DEF CacheInv
  <2>. QED
    BY <1>5, <1>8, <1>9, <2>1
<1>. QED
  BY <1>2, <1>9 DEF WriteFile

(* Processes that end take nothing with them. *)
LEMMA ProcessesEnd ==
    ASSUME CacheInv, CredentialsInv, UNCHANGED <<setup, driver, gen, files>>,
           DOMAIN process' \subseteq DOMAIN process, \A m \in DOMAIN process' : process'[m] = process[m],
           LockOK(call', setup.kind), UnmounterOK(call'[Unmounter], files, DOMAIN process'),
           NEW c \in Calls \cup {Unmounter}, \A d \in Calls \ {c} : call'[d] = call[d],
           c \in Calls => CallerOK(call'[c], setup.kind, gen, files, DOMAIN process', Wanted("pod"),
                                   Wanted("systemd"), driver.secret)
    PROVE  CredentialsInv'
<1>1. EnvOK(process', files)
  BY DEF CredentialsInv, EnvOK
<1>2. Pod \notin DOMAIN setup.kind /\ gen \in Nat /\ driver.secret \in Nat
  BY ConfigurationsAssumption DEF CacheInv, CredentialsInv
<1>3. ASSUME NEW d \in Calls \ {c}
      PROVE  CallerOK(call'[d], setup.kind, gen, files, DOMAIN process', Wanted("pod"), Wanted("systemd"),
                      driver.secret)
  <2>1. CallerOK(call[d], setup.kind, gen, files, DOMAIN process, Wanted("pod"), Wanted("systemd"), driver.secret)
    BY DEF CredentialsInv
  <2>. QED
    BY <1>2, <1>3, <2>1, CallerKept
<1>. QED
  BY <1>1, <1>2, <1>3, CredentialsKept DEF CredentialsInv

(* mount-s3 is started, or there is nothing to start. *)
LEMMA FinishKeepsCredentials ==
    ASSUME CacheInv, CredentialsInv, NEW c \in Calls, FinishMount(c)
    PROVE  CredentialsInv'
<1>. DEFINE ok(r) == CallerOK(r, setup.kind, gen, files, DOMAIN process, Wanted("pod"), Wanted("systemd"),
                              driver.secret)
            t == call[c].target
<1>0. ok(call[c]) /\ gen \in Nat /\ driver.secret \in Nat
  BY DEF CredentialsInv
<1>1. /\ UNCHANGED <<setup, driver, gen, files>> /\ call[c].pc = "provide" /\ call[c].todo = <<>>
      /\ call' = [call EXCEPT ![c] = NoCall]
  BY DEF FinishMount, Return, credentialVars
<1>2. CASE process' = process
  <2>1. ok(NoCall) /\ ~Holds(NoCall, setup.kind)
    BY <1>0, CallerIdle
  <2>. QED
    BY <1>1, <1>2, <2>1, CallChanges
<1>3. ASSUME Kind(t) = "pod", NEW args,
             process' = [m \in DOMAIN process \cup {Pod} |->
                           IF m = Pod THEN [env |-> CredentialEnv("pod", t), args |-> args] ELSE process[m]]
      PROVE  CredentialsInv'
  <2>1. Pod \notin DOMAIN setup.kind /\ t \in DOMAIN setup.kind /\ t # Pod
    BY <1>0, <1>1, ConfigurationsAssumption DEF CacheInv, CallerOK, CallOK
  <2>2. Holds(call[c], setup.kind)
    BY <1>1, <1>3 DEF Holds, Kind
  <2>3. Todo(call[c]) = {}
    BY <1>1 DEF Todo, Elements
  <2>4. \A type \in Wanted("pod") : Fresh(files, FileOf(Pod, type), call[c].gen, driver.secret)
    BY <1>0, <2>2, <2>3 DEF CallerOK, PodProvided
  <2>5. DOMAIN process' = DOMAIN process \cup {Pod} /\ process'[Pod].env = CredentialEnv("pod", t)
        /\ \A m \in DOMAIN process \ {Pod} : process'[m] = process[m]
    BY <1>3
  <2>6. EnvOK(process', files)
    <3>1. ASSUME NEW f \in CredentialEnv("pod", t)
          PROVE  f \in DOMAIN files /\ f.type \in Types /\ f = FileOf(Pod, f.type)
      <4>1. PICK type \in Wanted("pod") : f = FileOf(Pod, type)
        BY <2>1, <3>1, EnvShape
      <4>2. type \in Types /\ f.type = type
        BY <4>1, FileNamesDiffer DEF Wanted
      <4>. QED
        BY <2>4, <4>1, <4>2 DEF Fresh
    <3>2. EnvOK(process, files)
      BY DEF CredentialsInv
    <3>. QED
      BY <2>5, <3>1, <3>2 DEF EnvOK
  <2>7. /\ call'[c] = NoCall /\ (\A d \in Calls \ {c} : call'[d] = call[d])
        /\ call'[Unmounter] = call[Unmounter]
    BY <1>1, CallsAssumption DEF CacheInv
  <2>8. LockOK(call', setup.kind)
    BY <1>0, <2>7, CallerIdle DEF CredentialsInv, LockOK
  <2>9. UnmounterOK(call'[Unmounter], files, DOMAIN process')
    BY <2>2, <2>7 DEF CredentialsInv, LockOK, UnmounterOK
  <2>10. ASSUME NEW d \in Calls
         PROVE  CallerOK(call'[d], setup.kind, gen, files, DOMAIN process', Wanted("pod"), Wanted("systemd"),
                         driver.secret)
    <3>1. CASE d = c
      BY <1>0, <2>7, <3>1, CallerIdle
    <3>2. CASE d # c
      <4>1. ok(call[d]) /\ call'[d] = call[d]
        BY <2>7, <3>2 DEF CredentialsInv
      <4>2. DOMAIN process' \ {Pod} \subseteq DOMAIN process
        BY <2>5
      <4>. QED
        BY <1>0, <2>1, <4>1, <4>2, CallerKept
    <3>. QED
      BY <3>1, <3>2
  <2>. QED
    BY <1>0, <1>1, <2>6, <2>8, <2>9, <2>10, CredentialsKept DEF CredentialsInv
<1>. QED
  BY <1>2, <1>3 DEF FinishMount

(* Requests: a volume is published or unpublished. *)
LEMMA RequestKeepsCredentials ==
    ASSUME CacheInv, CredentialsInv, NEW c \in Calls, NEW t \in Targets,
           PublishVolume(c, t) \/ UnpublishVolume(c, t)
    PROVE  CredentialsInv'
<1>. DEFINE ok(r) == CallerOK(r, setup.kind, gen, files, DOMAIN process, Wanted("pod"), Wanted("systemd"),
                              driver.secret)
<1>0. gen \in Nat /\ driver.secret \in Nat /\ call[c].pc = "idle" /\ t \in DOMAIN setup.kind
  BY DEF CredentialsInv, PublishVolume, UnpublishVolume, MayCall, Targets
<1>1. UNCHANGED <<setup, driver, gen, files>>
  BY DEF PublishVolume, UnpublishVolume, credentialVars
<1>2. CASE PublishVolume(c, t)
  <2>1. PICK args :
          LET request == [NoCall EXCEPT !.target = t, !.gen = gen, !.args = args] IN
          \/ /\ Kind(t) = "pod"
             /\ call' = [call EXCEPT ![c] = [request EXCEPT !.pc = "watch"]]
          \/ /\ Kind(t) = "systemd"
             /\ \E types \in Provide("systemd") :
                  call' = [call EXCEPT ![c] = [request EXCEPT !.pc = "provide", !.todo = types]]
    BY <1>2 DEF PublishVolume
  <2>. DEFINE request == [NoCall EXCEPT !.target = t, !.gen = gen, !.args = args]
              watching == [request EXCEPT !.pc = "watch"]
              providing(types) == [request EXCEPT !.pc = "provide", !.todo = types]
  <2>2. IsCall(request) /\ request.target = t /\ request.gen = gen /\ request.todo = <<>> /\ request.copy = 0
    BY DEF NoCall, IsCall
  <2>. HIDE DEF request
  <2>3. CASE Kind(t) = "pod" /\ call' = [call EXCEPT ![c] = watching]
    <3>1. /\ watching.pc = "watch" /\ watching.target = t /\ watching.gen = gen /\ watching.todo = <<>>
          /\ watching.copy = 0
      BY <2>2 DEF IsCall
    <3>. HIDE DEF watching
    <3>2. watching.todo \in Seq(Types)
      BY <3>1
    <3>3. ok(watching) /\ ~Holds(watching, setup.kind)
      BY <1>0, <2>3, <3>1, <3>2 DEF CallerOK, CallOK, PodProvided, SystemdProvided, CleansUp, Holds, Kind
    <3>. QED
      BY <1>1, <1>2, <2>3, <3>3, CallChanges DEF PublishVolume
  <2>4. ASSUME Kind(t) = "systemd", NEW types \in Provide("systemd"), call' = [call EXCEPT ![c] = providing(types)]
        PROVE  CredentialsInv'
    <3>. DEFINE r == providing(types)
    <3>1. r.pc = "provide" /\ r.target = t /\ r.gen = gen /\ r.todo = types /\ r.copy = 0
      BY <2>2 DEF IsCall
    <3>. HIDE DEF r
    <3>2. ok(r) /\ ~Holds(r, setup.kind)
      BY <1>0, <2>4, <3>1, CallerBegins DEF Kind, Holds
    <3>3. call' = [call EXCEPT ![c] = r]
      BY <2>4 DEF r
    <3>. QED
      BY <1>1, <1>2, <3>2, <3>3, CallChanges DEF PublishVolume
  <2>. QED
    BY <2>1, <2>3, <2>4 DEF request
<1>3. CASE UnpublishVolume(c, t)
  <2>1. CASE UNCHANGED <<process, call>>
    BY <1>1, <2>1, CredentialsKept DEF CredentialsInv
  <2>2. CASE /\ Kind(t) = "systemd" /\ process' = WithoutProcess(t)
             /\ call' = [call EXCEPT ![c] = [NoCall EXCEPT !.pc = "cleanup", !.target = t,
                                                           !.todo = CleanupTypes("systemd")]]
    <3>. DEFINE r == [NoCall EXCEPT !.pc = "cleanup", !.target = t, !.todo = CleanupTypes("systemd")]
    <3>1. /\ r.pc = "cleanup" /\ r.target = t /\ r.todo = CleanupTypes("systemd") /\ r.gen = 0 /\ r.copy = 0
      BY DEF NoCall
    <3>2. call'[c] = r /\ (\A d \in Calls \ {c} : call'[d] = call[d]) /\ call'[Unmounter] = call[Unmounter]
      BY <2>2, CallsAssumption DEF CacheInv
    <3>. HIDE DEF r
    <3>3. /\ DOMAIN process' = DOMAIN process \ {t} /\ \A m \in DOMAIN process' : process'[m] = process[m]
      BY <2>2 DEF WithoutProcess
    <3>4. CallerOK(r, setup.kind, gen, files, DOMAIN process', Wanted("pod"), Wanted("systemd"), driver.secret)
      BY <1>0, <3>1, <3>3, CleanupShape
         DEF CallerOK, CallOK, PodProvided, SystemdProvided, CleansUp, Holds, Todo
    <3>5. LockOK(call', setup.kind)
      BY <3>1, <3>2 DEF LockOK, Holds, CredentialsInv
    <3>6. UnmounterOK(call'[Unmounter], files, DOMAIN process')
      BY <3>2, <3>3 DEF UnmounterOK, CredentialsInv
    <3>. QED
      BY <1>1, <3>2, <3>3, <3>4, <3>5, <3>6, ProcessesEnd
  <2>. QED
    BY <1>3, <2>1, <2>2 DEF UnpublishVolume
<1>. QED
  BY <1>2, <1>3

(* A credential file of a mount that is gone is removed. *)
LEMMA FileRemoved ==
    ASSUME CacheInv, CredentialsInv, UNCHANGED <<setup, driver, gen, process>>,
           NEW m, NEW type, DropFile(FileOf(m, type)), m \notin DOMAIN process,
           m = Pod \/ type \in KeyedTypes,
           NEW c \in Calls \cup {Unmounter}, m = Pod => c = Unmounter /\ call[c].pc # "idle"
    PROVE  /\ FilesOK(files') /\ EnvOK(process', files')
           /\ \A d \in Calls \ {c} :
                CallerOK(call[d], setup.kind, gen, files', DOMAIN process', Wanted("pod"), Wanted("systemd"),
                         driver.secret)
<1>. DEFINE name == FileOf(m, type)
<1>1. DOMAIN files' = DOMAIN files \ {name} /\ \A f \in DOMAIN files' : files'[f] = files[f]
  BY DEF DropFile
<1>2. \A n, ty : FileOf(n, ty) = name => n = m
  <2>1. \A n, ty : FileOf(n, ty) = name => ty = type
    BY FileNamesDiffer
  <2>2. CASE m = Pod
    BY <2>2, FileNamesDiffer
  <2>3. CASE type \in KeyedTypes
    BY <2>1, <2>3, FileNamesDiffer
  <2>. QED
    BY <2>2, <2>3
<1>3. name.dir = Pod <=> m = Pod
  BY FileNamesDiffer
<1>. HIDE DEF name
<1>4. FilesOK(files')
  BY <1>1 DEF CredentialsInv, FilesOK
<1>5. EnvOK(process', files')
  <2>1. EnvOK(process, files)
    BY DEF CredentialsInv
  <2>2. ASSUME NEW n \in DOMAIN process, NEW f \in process[n].env
        PROVE  f \in DOMAIN files' /\ f.type \in Types /\ f = FileOf(n, f.type)
    <3>1. f \in DOMAIN files /\ f.type \in Types /\ f = FileOf(n, f.type)
      BY <2>1, <2>2 DEF EnvOK
    <3>2. f # name
      BY <1>2, <2>2, <3>1
    <3>. QED
      BY <1>1, <3>1, <3>2
  <2>. QED
    BY <2>2 DEF EnvOK
<1>6. Pod \notin DOMAIN setup.kind /\ gen \in Nat /\ driver.secret \in Nat
  BY ConfigurationsAssumption DEF CacheInv, CredentialsInv
<1>7. ASSUME NEW d \in Calls \ {c}
      PROVE  CallerOK(call[d], setup.kind, gen, files', DOMAIN process, Wanted("pod"), Wanted("systemd"),
                      driver.secret)
  <2>1. CallerOK(call[d], setup.kind, gen, files, DOMAIN process, Wanted("pod"), Wanted("systemd"), driver.secret)
    BY DEF CredentialsInv
  <2>2. Holds(call[d], setup.kind) => m # Pod
    BY DEF CredentialsInv, LockOK
  <2>3. Holds(call[d], setup.kind) => \A f \in DOMAIN files : f.dir = Pod => f \in DOMAIN files' /\ files'[f] = files[f]
    BY <1>1, <1>3, <2>2
  <2>4. ASSUME NEW ty \in ProfileTypes, call[d].target \in DOMAIN process, FileOf(call[d].target, ty) \in DOMAIN files
        PROVE  /\ FileOf(call[d].target, ty) \in DOMAIN files'
               /\ files'[FileOf(call[d].target, ty)] = files[FileOf(call[d].target, ty)]
    BY <1>1, <1>2, <2>4
  <2>. QED
    BY <1>6, <2>1, <2>3, <2>4, CallerKept
<1>. QED
  BY <1>4, <1>5, <1>7

(* A removal of a call that unmounted a mount of systemd's *)
LEMMA RemoveKeepsCredentials ==
    ASSUME CacheInv, CredentialsInv, NEW c \in Calls, CleanupStep(c)
    PROVE  CredentialsInv'
<1>. DEFINE ok(r) == CallerOK(r, setup.kind, gen, files, DOMAIN process, Wanted("pod"), Wanted("systemd"),
                              driver.secret)
            t == call[c].target
            type == Head(call[c].todo)
            rest == Tail(call[c].todo)
<1>0. IsCall(call[c]) /\ ok(call[c]) /\ gen \in Nat /\ driver.secret \in Nat /\ c # Unmounter
  BY CallsAssumption DEF CacheInv, CallInv, CredentialsInv
<1>1. UNCHANGED <<setup, driver, gen, process>> /\ call[c].pc = "cleanup"
  BY DEF CleanupStep, RemoveFile, CleanupDone, credentialVars
<1>2. /\ call[c].todo \in Seq(Types) /\ InOrder(call[c].todo) /\ t \in DOMAIN setup.kind
      /\ t \notin DOMAIN process /\ Todo(call[c]) \subseteq KeyedTypes
      /\ call[c].gen \in Nat /\ call[c].gen <= gen /\ call[c].copy \in Nat
      /\ call[c].copy # 0 => call[c].copy >= call[c].gen
  BY <1>0, <1>1 DEF CallerOK, CallOK, CleansUp
<1>3. t # Pod
  BY <1>2, ConfigurationsAssumption DEF CacheInv
<1>4. CASE CleanupDone(c)
  <2>1. ok(NoCall) /\ ~Holds(NoCall, setup.kind) /\ files' = files
    BY <1>0, <1>4, CallerIdle DEF CleanupDone, credentialVars
  <2>. QED
    BY <1>1, <1>4, <2>1, CallChanges DEF CleanupDone, Return
<1>5. CASE RemoveFile(c)
  <2>1. call[c].todo # <<>>
    BY <1>5 DEF RemoveFile
  <2>2. /\ type \in Types /\ rest \in Seq(Types) /\ Todo(call[c]) = {type} \cup Elements(rest)
        /\ InOrder(rest) /\ (type = "config" => rest # <<>>)
    BY <1>2, <2>1, ListTail DEF Todo
  <2>3. FileName("systemd", GetCredentialPodID("systemd", t), type) = FileOf(t, type)
    BY <1>3, FileNameOf
  <2>4. ASSUME NEW r, r.pc = "cleanup", r.target = t, r.gen = call[c].gen, r.copy = call[c].copy,
               r.todo \in Seq(Types), InOrder(r.todo), Todo(r) \subseteq KeyedTypes, NEW fs
        PROVE  /\ CallerOK(r, setup.kind, gen, fs, DOMAIN process, Wanted("pod"), Wanted("systemd"), driver.secret)
               /\ ~Holds(r, setup.kind)
    BY <1>2, <2>4 DEF CallerOK, CallOK, PodProvided, SystemdProvided, CleansUp, Holds
  <2>5. CASE DropFile(FileOf(t, type)) /\ call' = [call EXCEPT ![c].todo = rest]
    <3>1. /\ FilesOK(files') /\ EnvOK(process', files')
          /\ \A d \in Calls \ {c} :
               CallerOK(call[d], setup.kind, gen, files', DOMAIN process', Wanted("pod"), Wanted("systemd"),
                        driver.secret)
      BY <1>1, <1>2, <1>3, <2>2, <2>5, FileRemoved
    <3>2. /\ call'[c] = [call[c] EXCEPT !.todo = rest] /\ call'[Unmounter] = call[Unmounter]
          /\ \A d \in Calls \ {c} : call'[d] = call[d]
      BY <1>0, <2>5 DEF CacheInv
    <3>3. /\ call'[c].pc = "cleanup" /\ call'[c].target = t /\ call'[c].gen = call[c].gen
          /\ call'[c].copy = call[c].copy /\ call'[c].todo = rest
      BY <1>0, <1>1, <3>2 DEF IsCall
    <3>4. /\ CallerOK(call'[c], setup.kind, gen, files', DOMAIN process, Wanted("pod"), Wanted("systemd"),
                      driver.secret)
          /\ ~Holds(call'[c], setup.kind)
      BY <1>2, <2>2, <2>4, <3>3 DEF Todo
    <3>5. LockOK(call', setup.kind)
      BY <3>2, <3>4 DEF CredentialsInv, LockOK
    <3>6. UnmounterOK(call'[Unmounter], files', DOMAIN process')
      BY <1>1, <2>5, <3>2 DEF CredentialsInv, UnmounterOK, DropFile
    <3>. QED
      BY <1>0, <1>1, <3>1, <3>2, <3>4, <3>5, <3>6, CredentialsKept
  <2>6. ASSUME files' = files, NEW todo, todo = (IF type = "config" THEN Tail(rest) ELSE rest),
               call' = [call EXCEPT ![c].todo = todo, ![c].failed = TRUE]
        PROVE  CredentialsInv'
    <3>. DEFINE r == [call[c] EXCEPT !.todo = todo, !.failed = TRUE]
    <3>1. call' = [call EXCEPT ![c] = r]
      BY <1>0, <2>6 DEF CacheInv
    <3>2. /\ r.pc = "cleanup" /\ r.target = t /\ r.gen = call[c].gen /\ r.copy = call[c].copy /\ r.todo = todo
      BY <1>0, <1>1 DEF IsCall
    <3>. HIDE DEF r
    <3>3. todo \in Seq(Types) /\ InOrder(todo) /\ Elements(todo) \subseteq Elements(rest)
      BY <2>2, <2>6, ListTail
    <3>4. ok(r) /\ ~Holds(r, setup.kind)
      BY <1>2, <2>2, <2>4, <3>2, <3>3 DEF Todo
    <3>. QED
      BY <1>1, <2>6, <3>1, <3>4, CallChanges
  <2>. QED
    BY <1>0, <1>5, <2>3, <2>5, <2>6 DEF RemoveFile
<1>. QED
  BY <1>4, <1>5 DEF CleanupStep

(* The Pod unmounter's own steps *)
LEMMA UnmounterKeepsCredentials ==
    ASSUME CacheInv, CredentialsInv, CleanUnmount \/ CleanupStep(Unmounter)
    PROVE  CredentialsInv'
<1>. DEFINE u == call[Unmounter]
            type == Head(u.todo)
            rest == Tail(u.todo)
<1>0. /\ gen \in Nat /\ driver.secret \in Nat /\ UnmounterOK(u, files, DOMAIN process)
      /\ UNCHANGED <<setup, driver, gen>>
  BY DEF CredentialsInv, CleanUnmount, CleanupStep, RemoveFile, CleanupDone, credentialVars
<1>1. ASSUME NEW r, call' = [call EXCEPT ![Unmounter] = r],
             r.pc # "idle" => u.pc # "idle" \/ Free
      PROVE  /\ call'[Unmounter] = r /\ (\A d \in Calls : call'[d] = call[d])
             /\ LockOK(call', setup.kind)
  <2>1. call'[Unmounter] = r /\ \A d \in Calls : call'[d] = call[d]
    BY <1>1, CallsAssumption DEF CacheInv
  <2>2. ASSUME NEW d \in Calls, Holds(call[d], setup.kind) PROVE r.pc = "idle"
    BY <1>1, <2>2 DEF CredentialsInv, LockOK, Free, Holds, Kind
  <2>. QED
    BY <2>1, <2>2 DEF CredentialsInv, LockOK
<1>2. CASE CleanUnmount
  <2>. DEFINE r == [NoCall EXCEPT !.pc = "cleanup", !.todo = CleanupTypes("pod")]
  <2>1. IsCall(r) /\ r.pc = "cleanup" /\ r.todo = CleanupTypes("pod")
    BY DEF NoCall, IsCall
  <2>2. call' = [call EXCEPT ![Unmounter] = r] /\ Free
    BY <1>2 DEF CleanUnmount
  <2>. HIDE DEF r
  <2>3. /\ call'[Unmounter] = r /\ (\A d \in Calls : call'[d] = call[d]) /\ LockOK(call', setup.kind)
    BY <1>1, <2>2
  <2>4. /\ DOMAIN process' = DOMAIN process \ {Pod} /\ (\A m \in DOMAIN process' : process'[m] = process[m])
        /\ files' = files
    BY <1>2 DEF CleanUnmount, WithoutProcess, credentialVars
  <2>5. \A f \in DOMAIN files : f.dir = Pod => f.type \in Todo(r)
    BY <2>1, CleanupShape DEF Todo, CredentialsInv, FilesOK
  <2>6. UnmounterOK(r, files, DOMAIN process')
    BY <2>1, <2>4, <2>5, CleanupShape DEF UnmounterOK
  <2>. QED
    BY <1>0, <2>3, <2>4, <2>6, CallsAssumption, ProcessesEnd
<1>3. CASE CleanupDone(Unmounter)
  <2>1. call' = [call EXCEPT ![Unmounter] = NoCall] /\ UNCHANGED <<files, process>>
    BY <1>3 DEF CleanupDone, Return, credentialVars
  <2>2. NoCall.pc = "idle" /\ NoCall.todo = <<>> /\ IsCall(NoCall)
    BY DEF NoCall, IsCall
  <2>3. /\ call'[Unmounter] = NoCall /\ (\A d \in Calls : call'[d] = call[d]) /\ LockOK(call', setup.kind)
    BY <1>1, <2>1, <2>2
  <2>4. <<>> \in Seq(Types)
    OBVIOUS
  <2>5. UnmounterOK(NoCall, files, DOMAIN process)
    BY <2>2, <2>4 DEF UnmounterOK
  <2>. QED
    BY <1>0, <2>1, <2>3, <2>5, CallsAssumption, ProcessesEnd
<1>4. CASE RemoveFile(Unmounter)
  <2>1. u.pc = "cleanup" /\ u.todo # <<>> /\ process' = process
    BY <1>4 DEF RemoveFile
  <2>2. /\ IsCall(u) /\ u.todo \in Seq(Types) /\ Pod \notin DOMAIN process /\ InOrder(u.todo)
        /\ ~u.failed => \A f \in DOMAIN files : f.dir = Pod => f.type \in Todo(u)
    BY <1>0, <2>1 DEF UnmounterOK
  <2>3. /\ type \in Types /\ rest \in Seq(Types) /\ Todo(u) = {type} \cup Elements(rest)
        /\ InOrder(rest) /\ (type = "config" => rest # <<>>)
    BY <2>1, <2>2, ListTail DEF Todo
  <2>4. FileName("pod", GetCredentialPodID("pod", u.target), type) = FileOf(Pod, type)
    BY DEF GetCredentialPodID, FileOf
  <2>5. CASE DropFile(FileOf(Pod, type)) /\ call' = [call EXCEPT ![Unmounter].todo = rest]
    <3>. DEFINE r == [u EXCEPT !.todo = rest]
    <3>1. IsCall(r) /\ r.pc = "cleanup" /\ r.todo = rest /\ r.failed = u.failed
      BY <2>1, <2>2 DEF IsCall
    <3>2. call' = [call EXCEPT ![Unmounter] = r]
      BY <2>2, <2>5 DEF CacheInv
    <3>. HIDE DEF r
    <3>3. /\ call'[Unmounter] = r /\ (\A d \in Calls : call'[d] = call[d]) /\ LockOK(call', setup.kind)
      BY <1>1, <2>1, <3>2
    <3>4. /\ FilesOK(files') /\ EnvOK(process', files')
          /\ \A d \in Calls \ {Unmounter} :
               CallerOK(call[d], setup.kind, gen, files', DOMAIN process', Wanted("pod"), Wanted("systemd"),
                        driver.secret)
      BY <1>0, <2>1, <2>2, <2>5, FileRemoved
    <3>5. ASSUME ~u.failed, NEW f \in DOMAIN files', f.dir = Pod PROVE f.type \in Todo(r)
      <4>1. f \in DOMAIN files /\ f # FileOf(Pod, type)
        BY <2>5, <3>5 DEF DropFile
      <4>2. f.type \in Todo(u) /\ f = FileOf(Pod, f.type)
        BY <2>2, <3>5, <4>1 DEF CredentialsInv, FilesOK
      <4>. QED
        BY <2>3, <3>1, <4>1, <4>2 DEF Todo
    <3>6. UnmounterOK(r, files', DOMAIN process')
      BY <2>1, <2>2, <2>3, <3>1, <3>5 DEF UnmounterOK
    <3>. QED
      BY <1>0, <3>3, <3>4, <3>6, CallsAssumption, CredentialsKept
  <2>6. ASSUME files' = files, NEW todo, todo = (IF type = "config" THEN Tail(rest) ELSE rest),
               call' = [call EXCEPT ![Unmounter].todo = todo, ![Unmounter].failed = TRUE]
        PROVE  CredentialsInv'
    <3>. DEFINE r == [u EXCEPT !.todo = todo, !.failed = TRUE]
    <3>1. IsCall(r) /\ r.pc = "cleanup" /\ r.todo = todo /\ r.failed = TRUE
      BY <2>1, <2>2 DEF IsCall
    <3>2. call' = [call EXCEPT ![Unmounter] = r]
      BY <2>2, <2>6 DEF CacheInv
    <3>. HIDE DEF r
    <3>3. /\ call'[Unmounter] = r /\ (\A d \in Calls : call'[d] = call[d]) /\ LockOK(call', setup.kind)
      BY <1>1, <2>1, <3>2
    <3>4. todo \in Seq(Types) /\ InOrder(todo)
      BY <2>3, <2>6, ListTail
    <3>5. UnmounterOK(r, files, DOMAIN process)
      BY <2>2, <3>1, <3>4 DEF UnmounterOK
    <3>. QED
      BY <1>0, <2>1, <2>6, <3>3, <3>5, CallsAssumption, ProcessesEnd
  <2>. QED
    BY <1>4, <2>4, <2>5, <2>6 DEF RemoveFile
<1>. QED
  BY <1>2, <1>3, <1>4 DEF CleanupStep

(* Steps that change no call, or all of them *)
LEMMA OthersKeepCredentials ==
    ASSUME CacheInv, CredentialsInv,
           \/ UNCHANGED <<setup, driver, gen, files, process, call>>
           \/ Rotate /\ UNCHANGED <<process, call>>
           \/ ProcessFails
           \/ Restart
    PROVE  CredentialsInv'
<1>0. Pod \notin DOMAIN setup.kind /\ gen \in Nat /\ driver.secret \in Nat
  BY ConfigurationsAssumption DEF CacheInv, CredentialsInv
<1>1. CASE UNCHANGED <<setup, driver, gen, files, process, call>>
  BY <1>1, CredentialsKept DEF CredentialsInv
<1>2. CASE Rotate /\ UNCHANGED <<process, call>>
  <2>1. UNCHANGED <<setup, driver, files, process, call>> /\ gen' = gen + 1
    BY <1>2 DEF Rotate
  <2>2. ASSUME NEW c \in Calls
        PROVE  CallerOK(call[c], setup.kind, gen', files, DOMAIN process, Wanted("pod"), Wanted("systemd"),
                        driver.secret)
    <3>1. CallerOK(call[c], setup.kind, gen, files, DOMAIN process, Wanted("pod"), Wanted("systemd"),
                   driver.secret)
      BY DEF CredentialsInv
    <3>2. gen' \in Nat /\ gen' >= gen
      BY <1>0, <2>1
    <3>. QED
      BY <1>0, <3>1, <3>2, CallerKept
  <2>. QED
    BY <1>0, <2>1, <2>2, CredentialsKept DEF CredentialsInv
<1>3. CASE ProcessFails
  <2>1. /\ UNCHANGED <<setup, driver, gen, files, call>> /\ DOMAIN process' = DOMAIN process \ {Pod}
        /\ \A m \in DOMAIN process' : process'[m] = process[m]
    BY <1>3 DEF ProcessFails, WithoutProcess, credentialVars
  <2>2. UnmounterOK(call'[Unmounter], files, DOMAIN process')
    BY <2>1 DEF CredentialsInv, UnmounterOK
  <2>3. LockOK(call', setup.kind)
    BY <2>1 DEF CredentialsInv
  <2>. QED
    BY <2>1, <2>2, <2>3, CallsAssumption, ProcessesEnd
<1>4. CASE Restart
  <2>1. /\ UNCHANGED <<setup, gen, files, process>> /\ driver'.secret = gen
        /\ \A c \in Calls \cup {Unmounter} : call'[c] = NoCall
    BY <1>4 DEF Restart, StartDriver, CacheInv
  <2>2. NoCall.pc = "idle" /\ NoCall.todo = <<>> /\ IsCall(NoCall)
    BY DEF NoCall, IsCall
  <2>3. <<>> \in Seq(Types)
    OBVIOUS
  <2>4. UnmounterOK(call'[Unmounter], files', DOMAIN process')
    BY <2>1, <2>2, <2>3 DEF UnmounterOK
  <2>5. LockOK(call', setup'.kind)
    BY <2>1, <2>2 DEF LockOK, Holds
  <2>6. \A c \in Calls : CallerOK(call'[c], setup'.kind, gen', files', DOMAIN process', Wanted("pod")',
                                  Wanted("systemd")', driver'.secret)
    BY <1>0, <2>1, CallerIdle
  <2>7. FilesOK(files') /\ EnvOK(process', files')
    BY <2>1 DEF CredentialsInv
  <2>. QED
    BY <1>0, <2>1, <2>4, <2>5, <2>6, <2>7 DEF CredentialsInv
<1>. QED
  BY <1>1, <1>2, <1>3, <1>4

LEMMA StepKeepsCredentials ==
    ASSUME WatcherTypeOK, CacheInv, CredentialsInv, [Next]_vars
    PROVE  CredentialsInv'
<1>1. ASSUME NEW c \in Calls, CallStep(c) \/ GiveUpWaiting(c) \/ Expire(c) PROVE CredentialsInv'
  <2>1. CASE WatcherStep(c) /\ UNCHANGED <<credentialVars, publishVars>>
    BY <2>1, OthersKeepCredentials DEF credentialVars, publishVars
  <2>. QED
    BY <1>1, <2>1, CallKeepsCredentials, WriteKeepsCredentials, FinishKeepsCredentials DEF CallStep
<1>2. ASSUME NEW c \in Calls, NEW t \in Targets, PublishVolume(c, t) \/ UnpublishVolume(c, t)
      PROVE  CredentialsInv'
  BY <1>2, RequestKeepsCredentials
<1>3. CASE CleanUnmount
  BY <1>3, UnmounterKeepsCredentials
<1>4. ASSUME NEW c \in Calls \cup {Unmounter}, CleanupStep(c) PROVE CredentialsInv'
  BY <1>4, RemoveKeepsCredentials, UnmounterKeepsCredentials
<1>5. ASSUME NEW t \in Targets, WorkloadTerminates(t) PROVE CredentialsInv'
  BY <1>5, OthersKeepCredentials DEF WorkloadTerminates, credentialVars
<1>6. CASE UNCHANGED <<credentialVars, publishVars>>
  BY <1>6, OthersKeepCredentials DEF credentialVars, publishVars
<1>7. CASE Rotate /\ UNCHANGED <<watcherVars, publishVars>>
  BY <1>7, OthersKeepCredentials DEF publishVars
<1>8. CASE EditOptions
  BY <1>8, OthersKeepCredentials DEF EditOptions, credentialVars
<1>9. CASE ProcessFails \/ Restart
  BY <1>9, OthersKeepCredentials
<1>10. CASE UNCHANGED vars
  BY <1>6, <1>10 DEF vars
<1>. QED
  BY <1>1, <1>2, <1>3, <1>4, <1>5, <1>6, <1>7, <1>8, <1>9, <1>10 DEF Next

(* Version 1 of the driver left its mounts, and their files. *)
LEMMA CredentialsInitially ==
    ASSUME Init PROVE CredentialsInv
<1>1. /\ gen = 1 /\ driver.secret = 1 /\ setup \in Configurations
      /\ call = [c \in Calls \cup {Unmounter} |-> NoCall]
  BY DEF Init, CredentialsInit, StartDriver
<1>2. /\ bound \subseteq DOMAIN setup.kind
      /\ process = [t \in bound |-> [env |-> CredentialEnv("systemd", t), args |-> {}]]
      /\ files = [f \in UNION {CredentialEnv("systemd", t) : t \in bound} |-> 1]
  BY DEF Init, Targets
<1>3. Pod \notin bound
  BY <1>1, <1>2, ConfigurationsAssumption
<1>4. ASSUME NEW t \in bound, NEW f \in CredentialEnv("systemd", t)
      PROVE  f \in DOMAIN files /\ f.type \in Types /\ f = FileOf(t, f.type) /\ f.dir # Pod
  <2>1. PICK type \in Wanted("systemd") : f = FileOf(t, type)
    BY <1>3, <1>4, EnvShape
  <2>2. type \in Types /\ f.type = type /\ f.dir # Pod
    BY <1>3, <2>1, FileNamesDiffer DEF Wanted
  <2>3. f \in DOMAIN files
    BY <1>2, <1>4
  <2>. QED
    BY <2>1, <2>2, <2>3
<1>5. EnvOK(process, files)
  BY <1>2, <1>4 DEF EnvOK
<1>6. FilesOK(files)
  BY <1>2, <1>4 DEF FilesOK
<1>7. NoCall.pc = "idle" /\ NoCall.todo = <<>> /\ IsCall(NoCall)
  BY DEF NoCall, IsCall
<1>8. <<>> \in Seq(Types)
  OBVIOUS
<1>9. UnmounterOK(call[Unmounter], files, DOMAIN process) /\ LockOK(call, setup.kind)
  BY <1>1, <1>7, <1>8 DEF UnmounterOK, LockOK, Holds
<1>10. \A c \in Calls : CallerOK(call[c], setup.kind, gen, files, DOMAIN process, Wanted("pod"),
                                 Wanted("systemd"), driver.secret)
  BY <1>1, CallerIdle
<1>. QED
  BY <1>1, <1>5, <1>6, <1>9, <1>10 DEF CredentialsInv

(* All that the theorems below need of Publish *)
PublishInv == WakeupInv /\ CacheInv /\ CredentialsInv

LEMMA PublishInitially == Init => PublishInv
BY WakeupInitially, CacheInitially, CredentialsInitially DEF PublishInv

LEMMA PublishStep == PublishInv /\ [Next]_vars => PublishInv'
BY WakeupStep, StepKeepsCache, StepKeepsCredentials DEF PublishInv, WakeupInv

(* No running mount-s3 loses a file that its environment names: removals are    *)
(* of mounts that are gone, and names tell mounts apart.                        *)
THEOREM EnvFilesCorrect == Spec => []EnvFilesExist
<1>1. PublishInv => EnvFilesExist
  BY DEF PublishInv, CredentialsInv, EnvOK, EnvFilesExist
<1>. QED
  BY <1>1, PublishInitially, PublishStep, PTL DEF Spec

(* When the Pod unmounter's Cleanup ends without an error, no credential file   *)
(* of the Mountpoint Pod is left, of whichever configuration of the driver.     *)
THEOREM CleanedCorrect == Spec => CleanedIsEmpty
<1>. DEFINE Left ==
       call[Unmounter].pc = "cleanup" /\ call[Unmounter].todo = <<>>
        /\ ~call[Unmounter].failed /\ call'[Unmounter].pc = "idle"
        => \A f \in DOMAIN files : f.dir # Pod
<1>1. PublishInv => Left
  <2>1. ASSUME CredentialsInv, call[Unmounter].pc = "cleanup", call[Unmounter].todo = <<>>,
               ~call[Unmounter].failed, NEW f \in DOMAIN files
        PROVE  f.dir # Pod
    <3>1. Todo(call[Unmounter]) = {}
      BY <2>1 DEF Todo, Elements
    <3>. QED
      BY <2>1, <3>1 DEF CredentialsInv, UnmounterOK
  <2>. QED
    BY <2>1 DEF PublishInv
<1>. QED
  BY <1>1, PublishInitially, PublishStep, PTL DEF Spec, CleanedIsEmpty

(* Only its own write shortens the list of a call that provides. *)
LEMMA OnlyWrites ==
    ASSUME CacheInv, [Next]_vars, NEW c \in Calls,
           call[c].pc = "provide", call'[c].pc = "provide", call'[c].todo # call[c].todo
    PROVE  WriteFile(c)
<1>. SUFFICES ASSUME ~WriteFile(c) PROVE call'[c].pc = "idle" \/ call'[c].todo = call[c].todo
  OBVIOUS
<1>0. /\ IsCall(call[c]) /\ wait[c].pc = "off" /\ c # Unmounter
      /\ \A d \in Calls \cup {Unmounter} : \A r :
           call' = [call EXCEPT ![d] = r] => call'[c] = IF c = d THEN r ELSE call[c]
  BY CallsAssumption DEF CacheInv, CallInv
<1>1. NoCall.pc = "idle"
  BY DEF NoCall
<1>2. ASSUME NEW d \in Calls \cup {Unmounter}, Return(d) PROVE call'[c].pc = "idle" \/ call'[c].todo = call[c].todo
  BY <1>0, <1>1, <1>2 DEF Return
<1>3. ASSUME NEW d \in Calls, CallStep(d) \/ GiveUpWaiting(d) \/ Expire(d)
      PROVE  call'[c].pc = "idle" \/ call'[c].todo = call[c].todo
  <2>1. CASE UNCHANGED call
    BY <2>1
  <2>2. CASE LockMountpointPod(d)
    <3>1. d # c
      BY <1>0, <2>2 DEF LockMountpointPod
    <3>. QED
      BY <1>2, <2>2, <3>1 DEF LockMountpointPod, CacheInv
  <2>3. CASE CopyToken(d)
    BY <1>0, <2>3 DEF CopyToken, CacheInv, IsCall
  <2>4. CASE WriteFile(d)
    BY <1>0, <1>2, <2>4 DEF WriteFile, CacheInv
  <2>5. CASE FinishMount(d) \/ GiveUpWaiting(d)
    BY <1>2, <2>5 DEF FinishMount, GiveUpWaiting
  <2>6. CASE Expire(d)
    BY <1>0, <2>6 DEF Expire, CacheInv, IsCall
  <2>. QED
    BY <1>3, <2>1, <2>2, <2>3, <2>4, <2>5, <2>6 DEF CallStep, publishVars
<1>4. ASSUME NEW d \in Calls, NEW t \in Targets, PublishVolume(d, t) \/ UnpublishVolume(d, t)
      PROVE  call'[c].todo = call[c].todo
  <2>1. d # c
    BY <1>4 DEF PublishVolume, UnpublishVolume, MayCall
  <2>2. call' = call \/ \E r : call' = [call EXCEPT ![d] = r]
    BY <1>4 DEF PublishVolume, UnpublishVolume
  <2>. QED
    BY <1>0, <2>1, <2>2
<1>5. CASE CleanUnmount
  BY <1>0, <1>5 DEF CleanUnmount
<1>6. ASSUME NEW d \in Calls \cup {Unmounter}, CleanupStep(d)
      PROVE  call'[c].pc = "idle" \/ call'[c].todo = call[c].todo
  <2>1. d # c
    BY <1>6 DEF CleanupStep, RemoveFile, CleanupDone
  <2>. QED
    BY <1>0, <1>6, <2>1 DEF CleanupStep, RemoveFile, CleanupDone, Return, CacheInv
<1>7. CASE Restart
  BY <1>0, <1>1, <1>7 DEF Restart, CacheInv
<1>8. CASE UNCHANGED call
  BY <1>8
<1>. QED
  BY <1>3, <1>4, <1>5, <1>6, <1>7, <1>8
     DEF Next, WorkloadTerminates, EditOptions, ProcessFails, publishVars, vars

(* The last write of a call for the mount m, with the list at its end *)
LEMMA LastWrite ==
    ASSUME CacheInv, CredentialsInv, NEW c \in Calls, WriteFile(c), call'[c].pc = "provide",
           NEW m, m = (IF setup.kind[call[c].target] = "pod" THEN Pod ELSE call[c].target)
    PROVE  /\ UNCHANGED <<setup, driver, gen, process>>
           /\ call'[c].target = call[c].target /\ call'[c].gen = call[c].gen
           /\ Fresh(files', FileOf(m, Head(call[c].todo)), call[c].gen, driver.secret)
<1>. DEFINE t == call[c].target
            type == Head(call[c].todo)
            name == FileName(Kind(t), GetCredentialPodID(Kind(t), t), type)
            content == CASE type \in DirTypes     -> call[c].copy
                         [] type \in ProfileTypes -> driver.secret
                         [] OTHER                 -> call[c].gen
<1>1. IsCall(call[c]) /\ c \in DOMAIN call /\ driver.secret \in Nat /\ NoCall.pc = "idle"
  BY DEF CacheInv, CallInv, CredentialsInv, NoCall
<1>2. /\ UNCHANGED <<setup, driver, gen, process>> /\ (type \in DirTypes => call[c].copy # 0)
      /\ call[c].pc = "provide" /\ ~Return(c)
  BY <1>1 DEF WriteFile, Return
<1>3. PutFile(name, content) /\ call' = [call EXCEPT ![c].todo = Tail(@), ![c].copy = 0]
  BY <1>2 DEF WriteFile
<1>4. call'[c].target = call[c].target /\ call'[c].gen = call[c].gen
  BY <1>1, <1>3 DEF IsCall
<1>5. /\ t \in DOMAIN setup.kind /\ setup.kind[t] \in {"pod", "systemd"} /\ call[c].gen \in Nat
      /\ call[c].copy # 0 => call[c].copy >= call[c].gen
  BY <1>2 DEF CredentialsInv, CallerOK, CallOK
<1>6. name = FileOf(m, type)
  <2>1. t # Pod
    BY <1>5, ConfigurationsAssumption DEF CacheInv
  <2>. QED
    BY <1>5, <2>1, FileNameOf DEF Kind
<1>7. name.type = type /\ name \in DOMAIN files' /\ files'[name] = content
  BY <1>3, <1>6, FileNamesDiffer DEF PutFile
<1>8. content >= IF type \in ProfileTypes THEN driver.secret ELSE call[c].gen
  <2>1. DirTypes \cap ProfileTypes = {}
    BY DEF DirTypes, ProfileTypes
  <2>. QED
    BY <1>1, <1>2, <1>5, <2>1
<1>. HIDE DEF content, name
<1>9. Fresh(files', name, call[c].gen, driver.secret)
  BY <1>7, <1>8 DEF Fresh
<1>. QED
  BY <1>2, <1>4, <1>6, <1>9

(* After the last write of a Provide for a target, whoever made the call, every *)
(* file that the running process of that target reads is as new as the request. *)
THEOREM RefreshCorrect == Spec => RefreshIsSeen
<1>. DEFINE Seen ==
       \A c \in Calls :
          LET t == call[c].target IN
          /\ call[c].pc = "provide" /\ Len(call[c].todo) = 1
          /\ call'[c].pc = "provide" /\ call'[c].todo = <<>>
          /\ StillProvided(t)
          => \A f \in process[ServedBy(t)].env : UpToDate(files', f, call[c].gen)
<1>1. PublishInv /\ [Next]_vars => Seen
  <2>. SUFFICES ASSUME WakeupInv, CacheInv, CredentialsInv, [Next]_vars, CredentialsInv', NEW c \in Calls,
                       call[c].pc = "provide", Len(call[c].todo) = 1,
                       call'[c].pc = "provide", call'[c].todo = <<>>,
                       StillProvided(call[c].target), NEW f \in process[ServedBy(call[c].target)].env
                PROVE  UpToDate(files', f, call[c].gen)
    BY PublishStep DEF PublishInv
  <2>. DEFINE t == call[c].target
              m == ServedBy(t)
              secret == driver.secret
  <2>1. WriteFile(c)
    BY OnlyWrites
  <2>2. m = IF setup.kind[t] = "pod" THEN Pod ELSE t
    BY DEF ServedBy, Kind
  <2>3. /\ UNCHANGED <<setup, driver, gen, process>> /\ call'[c].target = t /\ call'[c].gen = call[c].gen
        /\ Fresh(files', FileOf(m, Head(call[c].todo)), call[c].gen, secret)
    BY <2>1, <2>2, LastWrite
  <2>4. CallerOK(call[c], setup.kind, gen, files, DOMAIN process, Wanted("pod"), Wanted("systemd"), secret)
    BY DEF CredentialsInv
  <2>5. CallerOK(call'[c], setup.kind, gen, files', DOMAIN process, Wanted("pod"), Wanted("systemd"), secret)
    BY <2>3, WantedSame DEF CredentialsInv
  <2>6. t \in DOMAIN setup.kind /\ setup.kind[t] \in {"pod", "systemd"} /\ call[c].todo \in Seq(Types)
    BY <2>4 DEF CallerOK, CallOK
  <2>7. t # Pod
    BY <2>6, ConfigurationsAssumption DEF CacheInv
  <2>8. m \in DOMAIN process /\ f = FileOf(m, f.type)
    BY DEF StillProvided, CredentialsInv, EnvOK
  <2>9. f.type \in Wanted(setup.kind[t])
    <3>1. f.type \in {e.type : e \in CredentialEnv(setup.kind[t], t)}
      BY DEF StillProvided, Kind
    <3>2. PICK e \in CredentialEnv(setup.kind[t], t) : f.type = e.type
      BY <3>1
    <3>3. PICK type \in Wanted(setup.kind[t]) : e = FileOf(m, type)
      BY <2>2, <2>6, <2>7, <3>2, EnvShape
    <3>. QED
      BY <3>2, <3>3, FileNamesDiffer
  <2>10. Todo(call'[c]) = {}
    BY DEF Todo, Elements
  <2>11. Fresh(files', f, call[c].gen, secret)
    <3>1. CASE setup.kind[t] = "pod"
      BY <2>2, <2>3, <2>5, <2>8, <2>9, <2>10, <3>1 DEF CallerOK, PodProvided, Holds
    <3>2. CASE setup.kind[t] = "systemd"
      <4>1. m = t
        BY <2>2, <3>2
      <4>2. CASE f.type \in ProfileTypes
        BY <2>3, <2>5, <2>8, <2>9, <2>10, <3>2, <4>1, <4>2 DEF CallerOK, SystemdProvided
      <4>3. CASE f.type \notin ProfileTypes
        <5>1. f.type \in Todo(call[c])
          <6>1. call[c].todo # <<>>
            BY <2>1 DEF WriteFile
          <6>. QED
            BY <2>4, <2>9, <3>2, <4>3, <6>1 DEF CallerOK, SystemdProvided
        <5>2. Todo(call[c]) = {Head(call[c].todo)}
          <6>1. DOMAIN call[c].todo = {1} /\ Head(call[c].todo) = call[c].todo[1]
            BY <2>6
          <6>. QED
            BY <6>1 DEF Todo, Elements
        <5>. QED
          BY <2>3, <2>8, <5>1, <5>2
      <4>. QED
        BY <4>2, <4>3
    <3>. QED
      BY <2>6, <3>1, <3>2
  <2>. QED
    BY <2>11 DEF UpToDate, Fresh
<1>. QED
  BY <1>1, PublishInitially, PublishStep, PTL DEF Spec, RefreshIsSeen
=============================================================================
