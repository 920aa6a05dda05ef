---------------------------- MODULE Credentials -----------------------------
(***************************************************************************)
(* The credential provider.  Credentials are files: the driver writes them *)
(* where a mount-s3 process can read them, and the environment that the    *)
(* process was started with names them, once and for all.  Republishing a  *)
(* volume renews the files under the same names, unmounting removes them.  *)
(*                                                                         *)
(* A Mountpoint Pod has a directory of its own and is used by several      *)
(* workloads.  Mounts that systemd made for version 1 of the driver share  *)
(* one directory on the host.                                              *)
(***************************************************************************)
EXTENDS Integers, Sequences

CONSTANTS
    Configurations,  \* how the volume, the cluster and the driver are set up
    Pod,             \* the Mountpoint Pod of the volume
    Shared,          \* in the name of a file: no Pod
    MaxRotations     \* how often tokens and secrets are renewed

HostDir == "host"

(* The host's directory is not that of the Pod. *)
ASSUME CredentialsAssumption == MaxRotations \in Nat /\ Pod # HostDir

VARIABLES
    setup,           \* the configuration
    driver,          \* the environment of the driver's process
    gen,             \* generation of the current tokens and secrets
    files            \* credential files: name to generation

credentialVars == <<setup, driver, gen, files>>

(* Files named after a Pod and a volume, and one file for the directory *)
KeyedTypes == {"sts", "eks", "config", "credentials"}
DirTypes == {"token", "eksToken"}
ProfileTypes == {"config", "credentials"}

Targets == DOMAIN setup.kind      \* a workload's target path, and who mounted it

Dir(kind) == IF kind = "pod" THEN Pod ELSE HostDir

(* Mutant: GetCredentialPodID returns the workload's Pod. *)
WorkloadPodID(kind, t) == t

GetCredentialPodID(kind, t) == IF kind = "pod" THEN Pod ELSE t

FileName(kind, id, type) ==
    [dir |-> Dir(kind), id |-> IF type \in DirTypes THEN Shared ELSE id, type |-> type]

FileNames(kind, t, types) ==
    {FileName(kind, GetCredentialPodID(kind, t), types[i]) : i \in DOMAIN types}

-----------------------------------------------------------------------------
(* stsRegion.  IMDS is asked once in a process, and its failure is kept. *)
RegionKnown == setup.region \/ driver.region \/ driver.imds

(* The types of the files to write, in order, for a request that is accepted; *)
(* an error is the empty set.                                                 *)
ProvideFromPod(kind) ==
    CASE \/ "sts" \notin setup.tokens
         \/ kind = "pod" /\ "eks" \notin setup.tokens -> {}
      [] OTHER ->
           IF setup.role THEN {types \in {<<"sts">>} : RegionKnown}
           ELSE {types \in {<<"eks">>} : kind = "pod" /\ driver.uri}

ProvideLongTermCredentials == IF driver.longTerm = "none" THEN <<>> ELSE <<"config", "credentials">>

ProvideStsWebIdentityCredentials == IF driver.irsa THEN <<"token">> ELSE <<>>

ProvideContainerCredentials(kind) == IF driver.container /\ kind = "pod" THEN <<"eksToken">> ELSE <<>>

(* All that the driver's environment has, unless its long-term credentials are invalid *)
ProvideFromDriver(kind) ==
    {types \in {ProvideLongTermCredentials \o ProvideStsWebIdentityCredentials
                 \o ProvideContainerCredentials(kind)} : driver.longTerm # "invalid"}

Provide(kind) == IF setup.auth = "pod" THEN ProvideFromPod(kind) ELSE ProvideFromDriver(kind)

(* The environment of a mount-s3 that is started now: the files it names *)
CredentialEnv(kind, t) == UNION {FileNames(kind, t, types) : types \in Provide(kind)}

(* Mutant: both kinds of mounts remove the directory's tokens. *)
CleanupAllTypes(kind) == <<"sts", "eks", "config", "credentials", "token", "eksToken">>

(* Mutant: a new type of file is forgotten. *)
CleanupNoEKS(kind) ==
    <<"sts", "config", "credentials">> \o IF kind = "pod" THEN <<"token", "eksToken">> ELSE <<>>

CleanupFromPod == <<"sts", "eks">>

(* The tokens of the host's directory are shared, and stay. *)
CleanupFromDriver(kind) ==
    <<"config", "credentials">> \o IF kind = "pod" THEN <<"token", "eksToken">> ELSE <<>>

(* Cleanup removes whatever Provide may have written under any configuration. *)
CleanupTypes(kind) == CleanupFromPod \o CleanupFromDriver(kind)

-----------------------------------------------------------------------------
(* NewDriver, with the environment and the answer of IMDS that it will have *)
StartDriver(env, imds, generation) ==
    [longTerm |-> env.longTerm, irsa |-> env.irsa, container |-> env.container,
     uri |-> env.uri, region |-> env.region, imds |-> imds, secret |-> generation]

CredentialsInit(s) ==
    /\ setup = s
    /\ \E env \in s.drivers, imds \in s.imds : driver = StartDriver(env, imds, 1)
    /\ gen = 1

(* The kubelet and the cluster renew tokens and secrets. *)
Rotate ==
    /\ gen <= MaxRotations
    /\ gen' = gen + 1
    /\ UNCHANGED <<setup, driver, files>>

(* A file is written beside its place and renamed. *)
PutFile(name, g) ==
    files' = [f \in DOMAIN files \cup {name} |-> IF f = name THEN g ELSE files[f]]

(* A file that is not there counts as removed. *)
DropFile(name) == files' = [f \in DOMAIN files \ {name} |-> files[f]]

Exists(name) == name \in DOMAIN files

(* The generation a file should have for a request of generation g *)
UpToDate(fs, name, g) ==
    /\ name \in DOMAIN fs
    /\ fs[name] >= IF name.type \in ProfileTypes THEN driver.secret ELSE g
=============================================================================
