--------------------------- MODULE PublishRequest ---------------------------
(***************************************************************************)
(* From a volume's mountOptions and attributes to the arguments mount-s3   *)
(* runs with.  Four places have a part in it, at different times: the      *)
(* controller makes the cache volume when it creates the Mountpoint Pod,   *)
(* NodePublishVolume checks and completes the options of each request,     *)
(* mountS3AtSource moves some of them, and the container adds the cache.   *)
(*                                                                         *)
(* Args is a set of key and value pairs that may hold a key twice, and     *)
(* find returns any of them (it iterates over a Go map): an operation that *)
(* uses find is a set of outcomes, and one that fails is the empty set.    *)
(***************************************************************************)
EXTENDS Integers

MiB == 1048576

NoValue == 0      \* the value of a flag
NoLimit == -1     \* cacheEmptyDirSizeLimit is not set

Arg(key, value) == [key |-> key, value |-> value]

Found(args, key) == {a \in args : a.key = key}

Has(args, key) == Found(args, key) # {}

Remove(args, key) ==
    IF Has(args, key) THEN {args \ {a} : a \in Found(args, key)} ELSE {args}

Set(args, key, value) == {rest \cup {Arg(key, value)} : rest \in Remove(args, key)}

(* Set under Has: the key is not there, so there is nothing to remove. *)
SetIfAbsent(args, key, value) == IF Has(args, key) THEN args ELSE args \cup {Arg(key, value)}

(* Flags that make no sense under the driver are dropped. *)
ParseArgs(options) == {a \in options : a.key \notin {"foreground", "help", "version"}}

-----------------------------------------------------------------------------
(* configureLocalCache when the Mountpoint Pod is created: its cache volume. *)
NoVolume == [type |-> "none", limit |-> NoLimit, medium |-> ""]

EmptyDir(attrs) ==
    {v \in {[type |-> "emptyDir", limit |-> attrs.limit, medium |-> attrs.medium]} :
        v.medium \in {"", "Memory"}}

CacheVolume(options, attrs) ==
    LET viaOptions == Has(ParseArgs(options), "cache") IN
    CASE ~viaOptions /\ attrs.cache = ""          -> {NoVolume}
      [] viaOptions /\ attrs.cache = ""           -> EmptyDir(attrs)
      [] ~viaOptions /\ attrs.cache = "emptyDir"  -> EmptyDir(attrs)
      [] ~viaOptions /\ attrs.cache = "ephemeral" -> {[NoVolume EXCEPT !.type = "ephemeral"]}
      [] OTHER                                    -> {}

-----------------------------------------------------------------------------
(* NodePublishVolume computes int64(float64(limit) * 0.95 / MiB).  In floating  *)
(* point that is this quotient for every limit below 2^48: the exact product is *)
(* a whole number of MiB or at least 0.05 bytes away from one.                  *)
SafeMaxCacheSize(limit) == (95 * limit) \div (100 * MiB)

LimitMiB(limit) == limit \div MiB

(* Mutant: any size up to the limit is kept on disk too. *)
CheckMaxCacheSizeLax(args, limit, medium) ==
    UNION {IF a.value > LimitMiB(limit) THEN {} ELSE {args} : a \in Found(args, "max-cache-size")}

(* A size above the limit is an error; on disk one above the safe size is dropped. *)
CheckMaxCacheSize(args, limit, medium) ==
    UNION {IF a.value > LimitMiB(limit) THEN {}
           ELSE IF medium = "" /\ a.value > SafeMaxCacheSize(limit) THEN Remove(args, "max-cache-size")
           ELSE {args} : a \in Found(args, "max-cache-size")}

(* For the volume that attrs ask for.  On disk mount-s3 cannot tell the limit, *)
(* so it gets a size.                                                          *)
SizeCache(args, attrs) ==
    LET checked == IF Has(args, "max-cache-size")
                   THEN CheckMaxCacheSize(args, attrs.limit, attrs.medium) ELSE {args}
    IN
    IF attrs.cache # "emptyDir" \/ attrs.limit = NoLimit THEN {args}
    ELSE IF attrs.medium = "" THEN {SetIfAbsent(c, "max-cache-size", SafeMaxCacheSize(attrs.limit)) : c \in checked}
    ELSE checked

(* What a Pod with an fsGroup needs, unless the options say otherwise *)
FsGroup(args, group) ==
    SetIfAbsent(SetIfAbsent(SetIfAbsent(SetIfAbsent(args,
        "gid", group), "allow-other", NoValue), "dir-mode", 770), "file-mode", 660)

AllowRoot(args) == IF Has(args, "allow-other") THEN args ELSE SetIfAbsent(args, "allow-root", NoValue)

(* NodePublishVolume: the arguments handed to Mount.  fsGroup 0 is none. *)
PublishArgs(options, attrs, readOnly, fsGroup) ==
    LET flags == IF readOnly THEN {Arg("read-only", NoValue)} ELSE {}
        args == ParseArgs(flags \cup options)
    IN
    IF Has(args, "-o") \/ Has(args, "ca-bundle") THEN {}
    ELSE SizeCache(AllowRoot(IF fsGroup = 0 THEN args ELSE FsGroup(args, fsGroup)), attrs)

-----------------------------------------------------------------------------
(* mountS3AtSource: --aws-max-attempts goes to the environment and read-only to *)
(* the mount syscall.                                                           *)
SentArgs(args) ==
    UNION {UNION {Remove(b, "read-only") : b \in Set(a, "user-agent-prefix", NoValue)}
           : a \in Remove(args, "aws-max-attempts")}

(* The container's Run: the cache option's path is replaced by the directory of *)
(* the volume; without one it fails.                                            *)
RunArgs(args, volume) ==
    IF volume = NoVolume
    THEN IF Has(args, "cache") THEN {} ELSE {args}
    ELSE UNION {Set(rest, "cache", NoValue) : rest \in Remove(args, "cache")}

(* mount-s3 refuses an option that is given twice. *)
Accepts(args) == \A a, b \in args : a.key = b.key => a = b

StartArgs(args, volume) ==
    {r \in UNION {RunArgs(sent, volume) : sent \in SentArgs(args)} : Accepts(r)}
=============================================================================
