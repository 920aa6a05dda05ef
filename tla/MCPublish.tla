----------------------------- MODULE MCPublish ------------------------------
(* Publish for TLC: one configuration for each source of credentials and each *)
(* kind of cache, alone or together where they meet.                          *)
EXTENDS Publish

CONSTANTS a, b     \* targets

NoEnv == [longTerm |-> "none", irsa |-> FALSE, container |-> FALSE, uri |-> FALSE, region |-> FALSE]
NoCache == [cache |-> "", limit |-> NoLimit, medium |-> ""]
DiskCache == [cache |-> "emptyDir", limit |-> 20 * MiB - 1, medium |-> ""]
MaxCacheSize(n) == Arg("max-cache-size", n)

Base ==
    [kind |-> [t \in {a} |-> "pod"], auth |-> "driver", tokens |-> {"sts", "eks"},
     role |-> TRUE, region |-> TRUE, drivers |-> {NoEnv}, imds |-> {TRUE},
     attrs |-> NoCache, options |-> {{}}, readOnly |-> FALSE, fsGroup |-> 0, phase |-> "running"]

Legacy == [Base EXCEPT !.phase = "ended"]     \* no Mountpoint Pod

MCConfigurations ==
    { \* Pod-level credentials: IRSA with a region from IMDS, EKS Pod Identity
      \* for two workloads, and a token that is missing
      [Base EXCEPT !.auth = "pod", !.region = FALSE, !.imds = BOOLEAN],
      [Base EXCEPT !.auth = "pod", !.kind = [t \in {a, b} |-> "pod"], !.role = FALSE,
                   !.drivers = {[NoEnv EXCEPT !.uri = TRUE]}],
      [Base EXCEPT !.auth = "pod", !.tokens = {"sts"}],
      \* driver-level credentials, before and after the driver is set up anew
      [Base EXCEPT !.drivers = {[NoEnv EXCEPT !.longTerm = "valid", !.irsa = TRUE],
                                [NoEnv EXCEPT !.container = TRUE]}],
      \* mounts of systemd's
      [Legacy EXCEPT !.kind = [t \in {a, b} |-> "systemd"],
                     !.drivers = {[NoEnv EXCEPT !.irsa = TRUE]}],
      [Legacy EXCEPT !.kind = [t \in {a} |-> "systemd"],
                     !.drivers = {[NoEnv EXCEPT !.irsa = TRUE], [NoEnv EXCEPT !.longTerm = "valid"]}],
      [Legacy EXCEPT !.kind = [t \in {a} |-> "systemd"], !.auth = "pod"],
      \* a cache on disk, in memory, by mountOptions, and none, before the Pod runs
      [Base EXCEPT !.phase = "unscheduled", !.attrs = DiskCache,
                   !.options = {{}, {MaxCacheSize(19)}, {MaxCacheSize(18), Arg("cache", NoValue)}}],
      [Base EXCEPT !.fsGroup = 1000, !.attrs = [DiskCache EXCEPT !.medium = "Memory"],
                   !.options = {{MaxCacheSize(19)}, {MaxCacheSize(20)}}],
      [Base EXCEPT !.options = {{}, {Arg("cache", NoValue)}}],
      [Base EXCEPT !.attrs = [NoCache EXCEPT !.cache = "ephemeral"], !.readOnly = TRUE] }
=============================================================================
