--------------------------- MODULE HeadroomProofs ---------------------------
(***************************************************************************)
(* Headroom Pods, for any set of volumes, any lag of the cache and any     *)
(* number of failed calls, restarts and preemptions: the gate falls only   *)
(* with all Headroom Pods created, the label is there as long as they      *)
(* wait, and no decision on an old copy harms a pending workload.          *)
(***************************************************************************)
EXTENDS Headroom, TLAPS, SequenceTheorems

Snapshot == [w : WorkloadType, h : HeadroomType]

(* The workloads the informer has or will have *)
Copies == {store[i].w : i \in 1..Len(store)}

(* x is the workload that w was: it may be further, has no gate more, and has *)
(* kept its label if it is still pending.                                     *)
Older(w, x) ==
    /\ Past(w) => Past(x)
    /\ x.gates \subseteq w.gates
    /\ w.label /\ ~Past(x) => x.label

(* A reconciliation that runs, against the Pods a and the bound claims b of now *)
RecOK(r, a, b) ==
    /\ Older(r.pod, a.w)
    /\ r.unbound \/ r.vols = Volumes
    /\ \A v \in r.created : a.h[v] # "none"
    /\ r.todo \subseteq b
    /\ r.has => r.vols # {}
    /\ r.removed # {} => Past(a.w)
    /\ r.needs /\ ~r.scheduled /\ (r.todo # r.vols \/ r.pc = "delete") => r.pod.label

CacheInv == \A w \in Copies : Older(w, Api.w) /\ (w.label => bound # {})
RecInv == rec.pc # "idle" => RecOK(rec, Api, bound)
CleanerInv == cleaner # {} => Past(Api.w)

HeadroomInv ==
    TypeOK /\ CacheInv /\ RecInv /\ CleanerInv /\ UngatedWithHeadroom /\ HeadroomCanFollow

(* What a step that leaves the reconciliation and the cleaner's list alone keeps *)
Kept ==
    /\ store' \in Seq(Snapshot) /\ Len(store') \in 1..(MaxLag + 1)
    /\ CacheInv' /\ UngatedWithHeadroom' /\ HeadroomCanFollow'
    /\ rec.pc # "idle" => RecOK(rec, Api', bound')
    /\ cleaner # {} => Past(Api'.w)

-----------------------------------------------------------------------------
(* Older is a preorder. *)
LEMMA OlderSame == ASSUME NEW w PROVE Older(w, w)
BY DEF Older

LEMMA OlderTrans == ASSUME NEW w, NEW x, NEW y, Older(w, x), Older(x, y) PROVE Older(w, y)
BY DEF Older

(* The first and the last element of the store. *)
LEMMA StoreParts ==
    ASSUME TypeOK
    PROVE  /\ Api \in Snapshot /\ Cached \in Snapshot
           /\ Api.w \in Copies /\ Cached.w \in Copies
           /\ Api.w \in WorkloadType /\ Cached.w \in WorkloadType
           /\ Api.h \in HeadroomType /\ Cached.h \in HeadroomType
<1>1. store \in Seq(Snapshot) /\ Len(store) \in Nat /\ Len(store) >= 1
  BY BoundsAssumption DEF TypeOK, Snapshot
<1>2. Api = store[Len(store)] /\ Cached = store[1]
  BY <1>1 DEF Api, Cached, Last
<1>3. Api \in Snapshot /\ Cached \in Snapshot
  BY <1>1, <1>2
<1>4. Api.w \in Copies /\ Cached.w \in Copies
  BY <1>1, <1>2 DEF Copies
<1>. QED
  BY <1>3, <1>4 DEF Snapshot

(* A write to the API server is at the end of the store, or was no change. *)
LEMMA CommitStore ==
    ASSUME TypeOK, NEW new \in Snapshot, Commit(new)
    PROVE  /\ store' \in Seq(Snapshot) /\ Len(store') \in 1..(MaxLag + 1)
           /\ Api' = new /\ Copies' \subseteq Copies \cup {new.w}
<1>1. store \in Seq(Snapshot) /\ Len(store) \in 1..(MaxLag + 1) /\ MaxLag \in Nat
  BY BoundsAssumption DEF TypeOK, Snapshot
<1>2. CASE new = Api /\ UNCHANGED store
  BY <1>1, <1>2 DEF Api, Copies
<1>3. CASE Len(store) <= MaxLag /\ store' = Append(store, new)
  <2>1. /\ store' \in Seq(Snapshot) /\ Len(store') = Len(store) + 1
        /\ store'[Len(store) + 1] = new
        /\ \A i \in 1..Len(store) : store'[i] = store[i]
    BY <1>1, <1>3
  <2>2. Api' = new
    BY <2>1 DEF Api, Last
  <2>3. Copies' \subseteq Copies \cup {new.w}
    <3>. SUFFICES ASSUME NEW i \in 1..Len(store') PROVE store'[i].w \in Copies \cup {new.w}
      BY DEF Copies
    <3>1. CASE i = Len(store) + 1
      BY <2>1, <3>1
    <3>2. CASE i \in 1..Len(store)
      BY <2>1, <3>2 DEF Copies
    <3>. QED
      BY <1>1, <2>1, <3>1, <3>2
  <2>. QED
    BY <1>1, <1>3, <2>1, <2>2, <2>3
<1>. QED
  BY <1>2, <1>3 DEF Commit

(* The informer observes a change, or a new process fills its cache: the API    *)
(* server has what it had.                                                      *)
LEMMA ReadStore ==
    ASSUME TypeOK, \/ UNCHANGED store
                   \/ Len(store) > 1 /\ store' = Tail(store)
                   \/ store' = << Api >>
    PROVE  /\ store' \in Seq(Snapshot) /\ Len(store') \in 1..(MaxLag + 1)
           /\ Api' = Api /\ Copies' \subseteq Copies
<1>1. /\ store \in Seq(Snapshot) /\ Len(store) \in 1..(MaxLag + 1) /\ MaxLag \in Nat
      /\ Api = store[Len(store)] /\ Api \in Snapshot /\ Api.w \in Copies
  BY BoundsAssumption, StoreParts DEF TypeOK, Snapshot, Api, Last
<1>2. CASE UNCHANGED store
  BY <1>1, <1>2 DEF Api, Copies
<1>3. CASE Len(store) > 1 /\ store' = Tail(store)
  <2>1. /\ store' \in Seq(Snapshot) /\ Len(store') = Len(store) - 1
        /\ \A i \in 1..Len(store') : store'[i] = store[i + 1]
    BY <1>1, <1>3
  <2>a. Len(store') \in 1..(MaxLag + 1) /\ Len(store') + 1 = Len(store)
    <3>. DEFINE m == Len(store)
                n == Len(store')
    <3>1. m \in 1..(MaxLag + 1) /\ m > 1 /\ n = m - 1 /\ MaxLag \in Nat
      BY <1>1, <1>3, <2>1
    <3>. HIDE DEF m, n
    <3>2. n \in 1..(MaxLag + 1) /\ n + 1 = m
      BY <3>1
    <3>. QED
      BY <3>2 DEF m, n
  <2>2. Api' = Api
    <3>1. store'[Len(store')] = store[Len(store)]
      BY <2>1, <2>a
    <3>. QED
      BY <1>1, <3>1 DEF Api, Last
  <2>3. Copies' \subseteq Copies
    <3>. SUFFICES ASSUME NEW i \in 1..Len(store') PROVE store'[i].w \in Copies
      BY DEF Copies
    <3>1. i + 1 \in 1..Len(store) /\ store'[i] = store[i + 1]
      BY <1>1, <2>1
    <3>. QED
      BY <3>1 DEF Copies
  <2>. QED
    BY <2>1, <2>a, <2>2, <2>3
<1>4. CASE store' = << Api >>
  <2>1. store' \in Seq(Snapshot) /\ Len(store') = 1 /\ store'[1] = Api
    BY <1>1, <1>4
  <2>2. Api' = Api
    BY <2>1 DEF Api, Last
  <2>3. Copies' \subseteq Copies
    BY <1>1, <2>1 DEF Copies
  <2>. QED
    BY <1>1, <2>1, <2>2, <2>3
<1>. QED
  BY <1>2, <1>3, <1>4

-----------------------------------------------------------------------------
(* A reconciliation stays right while the workload goes on, Headroom Pods are   *)
(* not forgotten and claims are bound.                                          *)
LEMMA RecStaysOK ==
    ASSUME NEW r, NEW a, NEW b, NEW c, NEW d, RecOK(r, a, b), Older(a.w, c.w), b \subseteq d,
           r.created \subseteq Volumes,
           \A v \in Volumes : a.h[v] # "none" => c.h[v] # "none"
    PROVE  RecOK(r, c, d)
<1>1. Older(r.pod, c.w)
  BY OlderTrans DEF RecOK
<1>2. r.removed # {} => Past(c.w)
  BY DEF RecOK, Older
<1>3. \A v \in r.created : c.h[v] # "none"
  BY DEF RecOK
<1>. QED
  BY <1>1, <1>2, <1>3 DEF RecOK

(* Copies in the cache stay old when the API server goes on. *)
LEMMA CacheStaysOld ==
    ASSUME TypeOK, CacheInv, NEW new, Api' = new, Copies' \subseteq Copies \cup {new.w},
           Older(Api.w, new.w), new.w.label => bound' # {}, bound \subseteq bound'
    PROVE  CacheInv'
<1>. SUFFICES ASSUME NEW w \in Copies' PROVE Older(w, new.w) /\ (w.label => bound' # {})
  BY DEF CacheInv
<1>1. CASE w \in Copies
  <2>1. Older(w, Api.w) /\ (w.label => bound # {})
    BY <1>1 DEF CacheInv
  <2>2. Older(w, new.w)
    BY <2>1, OlderTrans
  <2>. QED
    BY <2>1, <2>2
<1>2. CASE w = new.w
  BY <1>2, OlderSame
<1>. QED
  BY <1>1, <1>2

(* A step that writes nothing to the API server. *)
LEMMA SameApi ==
    ASSUME HeadroomInv, bound \subseteq bound',
           \/ UNCHANGED store
           \/ Len(store) > 1 /\ store' = Tail(store)
           \/ store' = << Api >>
    PROVE  Kept /\ Api' = Api
<1>1. TypeOK /\ CacheInv /\ RecInv /\ CleanerInv /\ UngatedWithHeadroom /\ HeadroomCanFollow
  BY DEF HeadroomInv
<1>2. /\ store' \in Seq(Snapshot) /\ Len(store') \in 1..(MaxLag + 1)
      /\ Api' = Api /\ Copies' \subseteq Copies
  BY <1>1, ReadStore
<1>3. Api.w \in Copies /\ Older(Api.w, Api.w)
  BY <1>1, StoreParts, OlderSame
<1>4. Api.w.label => bound' # {}
  BY <1>1, <1>3 DEF CacheInv
<1>5. CacheInv'
  BY <1>1, <1>2, <1>3, <1>4, CacheStaysOld
<1>6. rec.pc # "idle" => RecOK(rec, Api', bound')
  BY <1>1, <1>2 DEF RecInv, RecOK
<1>7. UngatedWithHeadroom' /\ HeadroomCanFollow' /\ (cleaner # {} => Past(Api'.w))
  BY <1>1, <1>2 DEF UngatedWithHeadroom, HeadroomCanFollow, CleanerInv
<1>. QED
  BY <1>2, <1>5, <1>6, <1>7 DEF Kept

(* A write to the workload. *)
LEMMA WorkloadWrite ==
    ASSUME HeadroomInv, NEW w \in WorkloadType, CommitWorkload(w), Older(Api.w, w),
           w.label => bound # {}, UNCHANGED bound,
           Gate \notin w.gates /\ w.phase # "gone" => \A v \in Volumes : Api.h[v] # "none"
    PROVE  Kept /\ Api'.w = w /\ Api'.h = Api.h
<1>. DEFINE new == [Api EXCEPT !.w = w]
<1>1. TypeOK /\ CacheInv /\ RecInv /\ CleanerInv /\ UngatedWithHeadroom /\ HeadroomCanFollow
  BY DEF HeadroomInv
<1>2. new \in Snapshot /\ new.w = w /\ new.h = Api.h /\ Commit(new)
  BY <1>1, StoreParts DEF Snapshot, CommitWorkload
<1>. HIDE DEF new
<1>3. /\ store' \in Seq(Snapshot) /\ Len(store') \in 1..(MaxLag + 1)
      /\ Api' = new /\ Copies' \subseteq Copies \cup {new.w}
  BY <1>1, <1>2, CommitStore
<1>4. CacheInv'
  BY <1>1, <1>2, <1>3, CacheStaysOld
<1>5. rec.pc # "idle" => RecOK(rec, Api', bound')
  <2>. SUFFICES ASSUME rec.pc # "idle" PROVE RecOK(rec, new, bound)
    BY <1>3
  <2>1. rec.created \subseteq Volumes /\ RecOK(rec, Api, bound)
    BY <1>1 DEF TypeOK, RecType, RecInv
  <2>. QED
    BY <1>2, <2>1, RecStaysOK
<1>6. UngatedWithHeadroom'
  BY <1>2, <1>3 DEF UngatedWithHeadroom
<1>7. HeadroomCanFollow' /\ (cleaner # {} => Past(Api'.w))
  BY <1>1, <1>2, <1>3 DEF HeadroomCanFollow, CleanerInv, Older
<1>. QED
  BY <1>2, <1>3, <1>4, <1>5, <1>6, <1>7 DEF Kept

(* A Headroom Pod is created, deleted or preempted. *)
LEMMA HeadroomWrite ==
    ASSUME HeadroomInv, NEW v \in Volumes, NEW s \in {"exists", "deleted", "preempted"},
           CommitHeadroom(v, s), UNCHANGED bound,
           s = "exists" /\ ~Past(Api.w) => Api.w.label
    PROVE  Kept /\ Api'.w = Api.w /\ Api'.h = [Api.h EXCEPT ![v] = s]
<1>. DEFINE new == [Api EXCEPT !.h[v] = s]
<1>1. TypeOK /\ CacheInv /\ RecInv /\ CleanerInv /\ UngatedWithHeadroom /\ HeadroomCanFollow
  BY DEF HeadroomInv
<1>2. [Api.h EXCEPT ![v] = s] \in HeadroomType
  BY <1>1, StoreParts DEF HeadroomType
<1>3. new \in Snapshot /\ new.w = Api.w /\ new.h = [Api.h EXCEPT ![v] = s] /\ Commit(new)
  BY <1>1, <1>2, StoreParts DEF Snapshot, CommitHeadroom
<1>. HIDE DEF new
<1>4. /\ store' \in Seq(Snapshot) /\ Len(store') \in 1..(MaxLag + 1)
      /\ Api' = new /\ Copies' \subseteq Copies \cup {new.w}
  BY <1>1, <1>3, CommitStore
<1>5. new.h[v] = s /\ \A u \in Volumes \ {v} : new.h[u] = Api.h[u]
  BY <1>1, <1>3, StoreParts DEF HeadroomType
<1>6. CacheInv'
  <2>1. Older(Api.w, new.w)
    BY <1>3, OlderSame
  <2>2. new.w.label => bound' # {}
    BY <1>1, <1>3, StoreParts DEF CacheInv
  <2>. QED
    BY <1>1, <1>4, <2>1, <2>2, CacheStaysOld
<1>7. rec.pc # "idle" => RecOK(rec, Api', bound')
  <2>. SUFFICES ASSUME rec.pc # "idle" PROVE RecOK(rec, new, bound)
    BY <1>4
  <2>1. rec.created \subseteq Volumes /\ RecOK(rec, Api, bound)
    BY <1>1 DEF TypeOK, RecType, RecInv
  <2>2. Older(Api.w, new.w) /\ \A u \in Volumes : Api.h[u] # "none" => new.h[u] # "none"
    BY <1>3, <1>5, OlderSame
  <2>. QED
    BY <2>1, <2>2, RecStaysOK
<1>8. UngatedWithHeadroom'
  BY <1>1, <1>3, <1>4, <1>5 DEF UngatedWithHeadroom
<1>9. HeadroomCanFollow' /\ (cleaner # {} => Past(Api'.w))
  BY <1>1, <1>3, <1>4, <1>5 DEF HeadroomCanFollow, CleanerInv
<1>. QED
  BY <1>3, <1>4, <1>6, <1>7, <1>8, <1>9 DEF Kept

(* The parts of a step put together. *)
LEMMA Conclude ==
    ASSUME Kept, bound' \subseteq Volumes, queued' \in BOOLEAN, disruptions' \in 0..MaxDisruptions,
           rec' \in RecType, rec'.pc = "idle" => rec' = RecIdle,
           rec'.pc # "idle" => RecOK(rec', Api', bound'),
           cleaner' \subseteq Volumes, cleaner' # {} => Past(Api'.w)
    PROVE  HeadroomInv'
<1>1. TypeOK'
  BY DEF Kept, TypeOK, Snapshot
<1>2. RecInv' /\ CleanerInv'
  BY DEF RecInv, CleanerInv
<1>. QED
  BY <1>1, <1>2 DEF Kept, HeadroomInv

(* ... when no reconciliation runs afterwards, *)
LEMMA ConcludeIdle ==
    ASSUME HeadroomInv, Kept, rec' = RecIdle, Quiet, queued' \in BOOLEAN,
           Disruption \/ UNCHANGED disruptions
    PROVE  HeadroomInv'
<1>1. rec' \in RecType /\ rec'.pc = "idle"
  BY DEF RecIdle, RecType, NoWorkload, WorkloadType
<1>2. disruptions' \in 0..MaxDisruptions
  BY BoundsAssumption DEF HeadroomInv, TypeOK, Disruption
<1>3. bound' \subseteq Volumes /\ cleaner' \subseteq Volumes /\ (cleaner' # {} => Past(Api'.w))
  BY DEF HeadroomInv, TypeOK, Quiet, Kept
<1>. QED
  BY <1>1, <1>2, <1>3, Conclude

(* ... when it goes on, *)
LEMMA ConcludeRec ==
    ASSUME HeadroomInv, Kept, Quiet, queued' \in BOOLEAN, Disruption \/ UNCHANGED disruptions,
           rec' \in RecType, rec'.pc # "idle", RecOK(rec', Api', bound')
    PROVE  HeadroomInv'
<1>1. disruptions' \in 0..MaxDisruptions
  BY BoundsAssumption DEF HeadroomInv, TypeOK, Disruption
<1>2. bound' \subseteq Volumes /\ cleaner' \subseteq Volumes /\ (cleaner' # {} => Past(Api'.w))
  BY DEF HeadroomInv, TypeOK, Quiet, Kept
<1>. QED
  BY <1>1, <1>2, Conclude

(* ... and when it is left alone. *)
LEMMA ConcludeOther ==
    ASSUME HeadroomInv, Kept, rec' = rec, queued' \in BOOLEAN, Disruption \/ UNCHANGED disruptions,
           bound' \subseteq Volumes, cleaner' \subseteq cleaner
    PROVE  HeadroomInv'
<1>1. disruptions' \in 0..MaxDisruptions
  BY BoundsAssumption DEF HeadroomInv, TypeOK, Disruption
<1>2. /\ rec' \in RecType /\ (rec'.pc = "idle" => rec' = RecIdle)
      /\ rec'.pc # "idle" => RecOK(rec', Api', bound')
      /\ cleaner' \subseteq Volumes /\ (cleaner' # {} => Past(Api'.w))
  BY DEF HeadroomInv, TypeOK, Kept
<1>. QED
  BY <1>1, <1>2, Conclude

-----------------------------------------------------------------------------
(* At first the workload is gated and has no Headroom Pod. *)
LEMMA HeadroomInit == Init => HeadroomInv
<1>. SUFFICES ASSUME Init PROVE HeadroomInv
  OBVIOUS
<1>1. PICK g \in {{Gate}, Gates} :
        store = << [w |-> [phase |-> "unscheduled", terminating |-> FALSE, gates |-> g, label |-> FALSE],
                    h |-> [v \in Volumes |-> "none"]] >>
  BY DEF Init
<1>. DEFINE w0 == [phase |-> "unscheduled", terminating |-> FALSE, gates |-> g, label |-> FALSE]
            h0 == [v \in Volumes |-> "none"]
            s0 == [w |-> w0, h |-> h0]
<1>2. w0 \in WorkloadType /\ h0 \in HeadroomType /\ s0 \in Snapshot
  BY DEF WorkloadType, HeadroomType, Snapshot, Gates
<1>3. store \in Seq(Snapshot) /\ Len(store) = 1 /\ store[1] = s0
  BY <1>1, <1>2
<1>a. /\ s0.w = w0 /\ s0.h = h0 /\ w0.phase = "unscheduled" /\ ~w0.label /\ Gate \in w0.gates
      /\ \A v \in Volumes : h0[v] = "none"
  BY DEF Gates
<1>. HIDE DEF w0, h0, s0
<1>4. Api = s0 /\ Copies = {w0}
  BY <1>3, <1>a DEF Api, Last, Copies
<1>5. TypeOK
  <2>1. Len(store) \in 1..(MaxLag + 1) /\ 0 \in 0..MaxDisruptions
    BY <1>3, BoundsAssumption
  <2>2. RecIdle \in RecType
    BY DEF RecIdle, RecType, NoWorkload, WorkloadType
  <2>. QED
    BY <1>3, <2>1, <2>2 DEF Init, TypeOK, Snapshot
<1>6. CacheInv
  BY <1>4, <1>a, OlderSame DEF CacheInv
<1>7. RecInv /\ CleanerInv
  BY DEF Init, RecInv, CleanerInv, RecIdle
<1>8. UngatedWithHeadroom /\ HeadroomCanFollow
  BY <1>4, <1>a DEF UngatedWithHeadroom, HeadroomCanFollow
<1>. QED
  BY <1>5, <1>6, <1>7, <1>8 DEF HeadroomInv

(* reconcileWorkloadPod has nothing to do, or the informer observes. *)
LEMMA ReadKeeps ==
    ASSUME HeadroomInv, ReconcileIgnores \/ Observe
    PROVE  HeadroomInv'
<1>1. TypeOK
  BY DEF HeadroomInv
<1>2. Kept
  BY SameApi DEF ReconcileIgnores, Observe, Quiet
<1>3. /\ rec' = rec /\ UNCHANGED disruptions /\ bound' \subseteq Volumes
      /\ cleaner' \subseteq cleaner
  BY <1>1 DEF ReconcileIgnores, Observe, Quiet, TypeOK
<1>4. queued' \in BOOLEAN
  BY <1>1 DEF ReconcileIgnores, Observe, TypeOK
<1>. QED
  BY <1>2, <1>3, <1>4, ConcludeOther

(* A reconciliation starts, with a copy of the cache and the claims bound now. *)
LEMMA ReconcileKeeps == ASSUME HeadroomInv, ReconcileWorkloadPod PROVE HeadroomInv'
<1>1. TypeOK /\ CacheInv
  BY DEF HeadroomInv
<1>2. Kept /\ Api' = Api
  BY SameApi DEF ReconcileWorkloadPod, Quiet
<1>3. CASE Disruption /\ ReturnError
  BY <1>2, <1>3, ConcludeIdle DEF ReconcileWorkloadPod, ReturnError
<1>4. CASE ~(Disruption /\ ReturnError)
  <2>. DEFINE ready == {v \in Volumes : IsBound(v)}
              unbound == \E v \in Volumes : ~IsBound(v)
              scheduled == IsPodScheduled(Cached.w)
              needs == Gate \in Cached.w.gates
              r == [pc |-> "volumes", pod |-> Cached.w, scheduled |-> scheduled, needs |-> needs,
                    has |-> Cached.w.label, unbound |-> unbound, err |-> FALSE, vols |-> ready,
                    todo |-> ready, cur |-> {}, created |-> {}, removed |-> {}]
  <2>a. GetWorkloadVolumes.ready = ready /\ GetWorkloadVolumes.unbound = unbound
    BY DEF GetWorkloadVolumes
  <2>b. scheduled \in BOOLEAN /\ needs \in BOOLEAN /\ unbound \in BOOLEAN
    BY DEF IsPodScheduled
  <2>c. /\ rec' = [RecIdle EXCEPT !.pc = "volumes", !.pod = Cached.w, !.scheduled = scheduled,
                     !.needs = needs, !.has = Cached.w.label, !.unbound = unbound,
                     !.vols = ready, !.todo = ready]
        /\ queued' = FALSE /\ UNCHANGED disruptions /\ Quiet
    BY <1>4, <2>a, Zenon DEF ReconcileWorkloadPod
  <2>d. ready = bound /\ (unbound \/ ready = Volumes) /\ ready \subseteq Volumes
    BY <1>1 DEF IsBound, TypeOK
  <2>. HIDE DEF ready, unbound, scheduled, needs
  <2>1. rec' = r
    BY <2>c DEF RecIdle
  <2>2. r \in RecType
    BY <1>1, <2>b, <2>d, StoreParts DEF RecType, WorkloadType
  <2>3. RecOK(r, Api, bound)
    <3>1. Older(Cached.w, Api.w) /\ (Cached.w.label => bound # {})
      BY <1>1, StoreParts DEF CacheInv
    <3>. QED
      BY <2>d, <3>1 DEF RecOK
  <2>4. r.pc # "idle" /\ bound' = bound
    BY <2>c DEF Quiet
  <2>. HIDE DEF r
  <2>. QED
    BY <1>2, <2>1, <2>c, <2>2, <2>3, <2>4, ConcludeRec
<1>. QED
  BY <1>3, <1>4

(* The label is written to the workload as it is now, and the copy is replaced. *)
LEMMA LabelKeeps == ASSUME HeadroomInv, LabelWorkloadPod PROVE HeadroomInv'
<1>1. /\ TypeOK /\ CacheInv /\ RecInv /\ UngatedWithHeadroom /\ rec \in RecType
      /\ rec.pc = "volumes" /\ rec.todo # {} /\ Quiet /\ UNCHANGED bound
  BY DEF HeadroomInv, LabelWorkloadPod, TypeOK, Quiet
<1>2. CASE ReturnError /\ UNCHANGED store /\ (Disruption \/ UNCHANGED disruptions)
  <2>1. Kept
    BY <1>1, <1>2, SameApi
  <2>. QED
    BY <1>1, <1>2, <2>1, ConcludeIdle DEF ReturnError
<1>3. CASE ~(ReturnError /\ UNCHANGED store /\ (Disruption \/ UNCHANGED disruptions))
  <2>. DEFINE w == [Api.w EXCEPT !.label = TRUE]
  <2>1. CommitWorkload(w) /\ rec' = [rec EXCEPT !.pod = w] /\ UNCHANGED <<disruptions, queued>>
    BY <1>3 DEF LabelWorkloadPod
  <2>2. /\ w \in WorkloadType /\ w.label /\ w.gates = Api.w.gates /\ w.phase = Api.w.phase
        /\ w.terminating = Api.w.terminating
    BY <1>1, StoreParts DEF WorkloadType
  <2>. HIDE DEF w
  <2>3. Older(Api.w, w)
    BY <2>2 DEF Older, Past
  <2>4. RecOK(rec, Api, bound)
    BY <1>1 DEF RecInv
  <2>5. bound # {}
    BY <1>1, <2>4 DEF RecOK
  <2>6. Kept /\ Api'.w = w
    BY <1>1, <2>1, <2>2, <2>3, <2>5, WorkloadWrite DEF UngatedWithHeadroom
  <2>7. RecOK(rec, Api', bound')
    BY <1>1, <2>6 DEF Kept
  <2>8. /\ rec' \in RecType /\ rec'.pod = w /\ rec'.pc = "volumes"
        /\ rec'.unbound = rec.unbound /\ rec'.vols = rec.vols /\ rec'.created = rec.created
        /\ rec'.todo = rec.todo /\ rec'.has = rec.has /\ rec'.removed = rec.removed
    BY <1>1, <2>1, <2>2 DEF RecType
  <2>9. RecOK(rec', Api', bound')
    BY <2>2, <2>6, <2>7, <2>8, OlderSame DEF RecOK
  <2>. QED
    BY <1>1, <2>1, <2>6, <2>8, <2>9, ConcludeRec DEF TypeOK
<1>. QED
  BY <1>2, <1>3

(* A reconciliation whose workload is labelled, if it must be, goes on with its *)
(* volumes.                                                                     *)
LEMMA RecMoves ==
    ASSUME NEW r, NEW q, NEW a, NEW b, RecOK(r, a, b), r.needs /\ ~r.scheduled => r.pod.label,
           q.pod = r.pod, q.unbound = r.unbound, q.vols = r.vols, q.needs = r.needs, q.has = r.has,
           q.scheduled = r.scheduled, q.todo \subseteq r.todo,
           \A v \in q.created : v \in r.created \/ a.h[v] # "none",
           q.removed # {} => r.removed # {} \/ Past(a.w)
    PROVE  RecOK(q, a, b)
BY DEF RecOK

(* The call for one volume fails: the error is noted, the next volume follows. *)
LEMMA FailsKeeps ==
    ASSUME HeadroomInv, NEW v \in Volumes, rec.pc # "idle", rec.needs /\ ~rec.scheduled => rec.pod.label,
           Fails(v), Disruption, UNCHANGED <<store, queued>>, Quiet
    PROVE  HeadroomInv'
<1>1. TypeOK /\ rec \in RecType /\ UNCHANGED bound
  BY DEF HeadroomInv, TypeOK, Quiet
<1>2. Kept
  BY <1>1, SameApi
<1>3. /\ rec' \in RecType /\ rec'.pc = "volumes" /\ rec'.todo = rec.todo \ {v}
      /\ rec'.pod = rec.pod /\ rec'.unbound = rec.unbound /\ rec'.vols = rec.vols
      /\ rec'.needs = rec.needs /\ rec'.has = rec.has /\ rec'.scheduled = rec.scheduled
      /\ rec'.created = rec.created /\ rec'.removed = rec.removed
  BY <1>1 DEF Fails, RecType
<1>4. RecOK(rec, Api', bound')
  BY <1>2 DEF Kept
<1>5. RecOK(rec', Api', bound')
  BY <1>3, <1>4, RecMoves
<1>. QED
  BY <1>1, <1>2, <1>3, <1>5, ConcludeRec DEF TypeOK

(* The workload is labelled before the first Headroom Pod. *)
LEMMA LabelledBefore ==
    ASSUME HeadroomInv, rec.pc \in {"volumes", "delete"},
           rec.pc = "delete" \/ rec.scheduled \/ ~rec.needs \/ ~MustLabel
    PROVE  rec.needs /\ ~rec.scheduled => rec.pod.label
BY DEF HeadroomInv, RecInv, RecOK, MustLabel

(* A Headroom Pod is created. *)
LEMMA CreateKeeps == ASSUME HeadroomInv, NEW v \in Volumes, CreateHeadroomPod(v) PROVE HeadroomInv'
<1>1. /\ TypeOK /\ RecInv /\ rec \in RecType /\ Quiet /\ UNCHANGED <<bound, queued>>
      /\ rec.pc = "volumes" /\ v \in rec.todo /\ rec.needs /\ ~rec.scheduled /\ ~MustLabel
  BY DEF HeadroomInv, CreateHeadroomPod, TypeOK, Quiet
<1>2. rec.pod.label
  BY <1>1, LabelledBefore
<1>3. CASE Disruption /\ Fails(v) /\ UNCHANGED store
  BY <1>1, <1>2, <1>3, FailsKeeps
<1>4. CASE /\ CommitHeadroom(v, "exists") /\ UNCHANGED disruptions
           /\ rec' = [rec EXCEPT !.pc = "delete", !.cur = {v}, !.created = @ \cup {v}]
  <2>1. ~Past(Api.w) => Api.w.label
    BY <1>1, <1>2 DEF RecInv, RecOK, Older
  <2>2. Kept /\ Api'.h = [Api.h EXCEPT ![v] = "exists"]
    BY <1>1, <1>4, <2>1, HeadroomWrite
  <2>3. Api'.h[v] = "exists"
    BY <1>1, <2>2, StoreParts DEF HeadroomType
  <2>4. /\ rec' \in RecType /\ rec'.pc = "delete" /\ rec'.todo = rec.todo
        /\ rec'.pod = rec.pod /\ rec'.unbound = rec.unbound /\ rec'.vols = rec.vols
        /\ rec'.needs = rec.needs /\ rec'.has = rec.has /\ rec'.scheduled = rec.scheduled
        /\ rec'.created = rec.created \cup {v} /\ rec'.removed = rec.removed
    BY <1>1, <1>4 DEF RecType
  <2>5. RecOK(rec, Api', bound')
    BY <1>1, <2>2 DEF Kept
  <2>6. RecOK(rec', Api', bound')
    BY <1>2, <2>3, <2>4, <2>5, RecMoves
  <2>. QED
    BY <1>1, <1>4, <2>2, <2>4, <2>6, ConcludeRec DEF TypeOK
<1>. QED
  BY <1>3, <1>4 DEF CreateHeadroomPod

(* The volume of a scheduled workload, or of one that is past its gate. *)
LEMMA PassKeeps ==
    ASSUME HeadroomInv, NEW v \in Volumes, SpawnOrDelete(v) \/ PassOver(v)
    PROVE  HeadroomInv'
<1>1. /\ TypeOK /\ RecInv /\ rec \in RecType /\ Quiet /\ UNCHANGED <<bound, queued, store>>
      /\ rec.pc = "volumes" /\ (rec.needs /\ ~rec.scheduled => rec.pod.label)
  BY DEF HeadroomInv, SpawnOrDelete, PassOver, TypeOK, Quiet
<1>2. CASE Disruption /\ Fails(v)
  BY <1>1, <1>2, FailsKeeps
<1>3. CASE rec' = [rec EXCEPT !.pc = "delete", !.cur = {v}] /\ UNCHANGED disruptions
  <2>1. Kept
    BY <1>1, SameApi
  <2>2. /\ rec' \in RecType /\ rec'.pc = "delete" /\ rec'.todo = rec.todo
        /\ rec'.pod = rec.pod /\ rec'.unbound = rec.unbound /\ rec'.vols = rec.vols
        /\ rec'.needs = rec.needs /\ rec'.has = rec.has /\ rec'.scheduled = rec.scheduled
        /\ rec'.created = rec.created /\ rec'.removed = rec.removed
    BY <1>1, <1>3 DEF RecType
  <2>3. RecOK(rec, Api', bound')
    BY <1>1, <2>1 DEF Kept
  <2>4. RecOK(rec', Api', bound')
    BY <1>1, <2>2, <2>3, RecMoves
  <2>. QED
    BY <1>1, <1>3, <2>1, <2>2, <2>4, ConcludeRec DEF TypeOK
<1>. QED
  BY <1>2, <1>3 DEF SpawnOrDelete, PassOver

(* The reconciler wants a Headroom Pod away only of a workload that is past. *)
LEMMA WantedIsPast ==
    ASSUME HeadroomInv, rec.pc # "idle", ShouldDelete(rec.pod)
    PROVE  Past(Api.w)
BY DEF HeadroomInv, RecInv, RecOK, Older, Past, ShouldDelete

(* The Headroom Pod of the volume is deleted, or need not be. *)
LEMMA DeleteKeeps == ASSUME HeadroomInv, NEW v \in Volumes, DeleteHeadroomPod(v) PROVE HeadroomInv'
<1>1. /\ TypeOK /\ RecInv /\ rec \in RecType /\ Quiet /\ UNCHANGED <<bound, queued>>
      /\ rec.pc = "delete"
  BY DEF HeadroomInv, DeleteHeadroomPod, TypeOK, Quiet
<1>2. rec.needs /\ ~rec.scheduled => rec.pod.label
  BY <1>1, LabelledBefore
<1>. DEFINE next == [rec EXCEPT !.pc = "volumes", !.cur = {}, !.todo = @ \ {v}]
<1>a. /\ next \in RecType /\ next.pc = "volumes" /\ next.todo = rec.todo \ {v}
      /\ next.pod = rec.pod /\ next.unbound = rec.unbound /\ next.vols = rec.vols
      /\ next.needs = rec.needs /\ next.has = rec.has /\ next.scheduled = rec.scheduled
      /\ next.created = rec.created /\ next.removed = rec.removed
  BY <1>1 DEF RecType
<1>b. \/ ~(rec.has /\ ShouldDelete(rec.pod)) /\ rec' = next /\ UNCHANGED <<store, disruptions>>
      \/ /\ ShouldDelete(rec.pod) /\ rec' = [next EXCEPT !.removed = @ \cup {v}]
         /\ UNCHANGED store \/ CommitHeadroom(v, "deleted")
         /\ UNCHANGED disruptions
      \/ Disruption /\ Fails(v) /\ UNCHANGED store
  BY DEF DeleteHeadroomPod
<1>. HIDE DEF next
<1>3. CASE Disruption /\ Fails(v) /\ UNCHANGED store
  BY <1>1, <1>2, <1>3, FailsKeeps
<1>4. CASE rec' = next /\ UNCHANGED <<store, disruptions>>
  <2>1. Kept
    BY <1>1, <1>4, SameApi
  <2>2. RecOK(rec, Api', bound')
    BY <1>1, <2>1 DEF Kept
  <2>3. RecOK(rec', Api', bound')
    BY <1>2, <1>4, <1>a, <2>2, RecMoves
  <2>. QED
    BY <1>1, <1>4, <1>a, <2>1, <2>3, ConcludeRec DEF TypeOK
<1>5. CASE /\ ShouldDelete(rec.pod) /\ rec' = [next EXCEPT !.removed = @ \cup {v}]
           /\ UNCHANGED store \/ CommitHeadroom(v, "deleted")
           /\ UNCHANGED disruptions
  <2>1. Kept /\ Api'.w = Api.w
    BY <1>1, <1>5, SameApi, HeadroomWrite
  <2>2. RecOK(rec, Api', bound') /\ Past(Api'.w)
    BY <1>1, <1>5, <2>1, WantedIsPast DEF Kept
  <2>3. /\ rec' \in RecType /\ rec'.pc = "volumes" /\ rec'.todo = rec.todo \ {v}
        /\ rec'.pod = rec.pod /\ rec'.unbound = rec.unbound /\ rec'.vols = rec.vols
        /\ rec'.needs = rec.needs /\ rec'.has = rec.has /\ rec'.scheduled = rec.scheduled
        /\ rec'.created = rec.created
    BY <1>a, <1>5 DEF RecType
  <2>4. RecOK(rec', Api', bound')
    BY <1>2, <2>2, <2>3, RecMoves
  <2>. QED
    BY <1>1, <1>5, <2>1, <2>3, <2>4, ConcludeRec DEF TypeOK
<1>. QED
  BY <1>b, <1>3, <1>4, <1>5

(* All volumes are done. *)
LEMMA VolumesDoneKeeps == ASSUME HeadroomInv, VolumesDone PROVE HeadroomInv'
<1>1. /\ TypeOK /\ RecInv /\ rec \in RecType /\ Quiet /\ UNCHANGED <<bound, store, disruptions>>
      /\ rec.pc = "volumes"
  BY DEF HeadroomInv, VolumesDone, TypeOK, Quiet
<1>2. Kept
  BY <1>1, SameApi
<1>3. CASE ReturnError
  BY <1>1, <1>2, <1>3, ConcludeIdle DEF ReturnError
<1>4. CASE rec' = [rec EXCEPT !.pc = "ungate"] /\ UNCHANGED queued
  <2>1. /\ rec' \in RecType /\ rec'.pc = "ungate" /\ rec'.todo = rec.todo
        /\ rec'.pod = rec.pod /\ rec'.unbound = rec.unbound /\ rec'.vols = rec.vols
        /\ rec'.needs = rec.needs /\ rec'.has = rec.has /\ rec'.scheduled = rec.scheduled
        /\ rec'.created = rec.created /\ rec'.removed = rec.removed
    BY <1>1, <1>4 DEF RecType
  <2>2. RecOK(rec', Api', bound')
    BY <1>1, <1>2, <2>1 DEF Kept, RecOK
  <2>. QED
    BY <1>1, <1>2, <1>4, <2>1, <2>2, ConcludeRec DEF TypeOK
<1>. QED
  BY <1>3, <1>4 DEF VolumesDone

(* The patch that removes the gate: every volume has its Headroom Pod, and the  *)
(* list of gates it carries is within the one of now.                           *)
LEMMA UngateWrites ==
    ASSUME HeadroomInv, rec.pc = "ungate", MayUngate, UngatedOf(rec.pod.gates) \subseteq Api.w.gates,
           CommitWorkload([Api.w EXCEPT !.gates = UngatedOf(rec.pod.gates)]), UNCHANGED bound
    PROVE  Kept /\ Api'.w.gates = UngatedOf(rec.pod.gates) /\ Api'.h = Api.h
<1>. DEFINE w == [Api.w EXCEPT !.gates = UngatedOf(rec.pod.gates)]
<1>1. TypeOK /\ CacheInv /\ RecOK(rec, Api, bound) /\ rec \in RecType
  BY DEF HeadroomInv, TypeOK, RecInv
<1>2. /\ w \in WorkloadType /\ w.label = Api.w.label /\ w.phase = Api.w.phase
      /\ w.terminating = Api.w.terminating /\ w.gates = UngatedOf(rec.pod.gates)
  <2>1. Api.w \in WorkloadType /\ UngatedOf(rec.pod.gates) \in SUBSET Gates
    BY <1>1, StoreParts DEF WorkloadType
  <2>. QED
    BY <2>1 DEF WorkloadType
<1>. HIDE DEF w
<1>3. Older(Api.w, w)
  BY <1>2 DEF Older, Past
<1>4. \A v \in Volumes : Api.h[v] # "none"
  BY <1>1 DEF RecOK, MayUngate
<1>5. w.label => bound # {}
  BY <1>1, <1>2, StoreParts DEF CacheInv
<1>. QED
  BY <1>2, <1>3, <1>4, <1>5, WorkloadWrite DEF w

(* The gate is removed, or not yet. *)
LEMMA UngateKeeps == ASSUME HeadroomInv, UngateWorkloadPod PROVE HeadroomInv'
<1>1. /\ TypeOK /\ RecInv /\ rec \in RecType /\ Quiet /\ UNCHANGED bound /\ rec.pc = "ungate"
  BY DEF HeadroomInv, UngateWorkloadPod, TypeOK, Quiet
<1>2. CASE ReturnError /\ UNCHANGED store /\ (Disruption \/ UNCHANGED disruptions)
  <2>1. Kept
    BY <1>1, <1>2, SameApi
  <2>. QED
    BY <1>1, <1>2, <2>1, ConcludeIdle DEF ReturnError
<1>3. CASE ~(ReturnError /\ UNCHANGED store /\ (Disruption \/ UNCHANGED disruptions))
  <2>1. rec' = [rec EXCEPT !.pc = "unlabel"] /\ UNCHANGED <<disruptions, queued>>
    BY <1>3 DEF UngateWorkloadPod
  <2>2. Kept
    <3>1. CASE UNCHANGED store
      BY <1>1, <3>1, SameApi
    <3>2. CASE ~UNCHANGED store
      BY <1>1, <1>3, <3>2, UngateWrites DEF UngateWorkloadPod
    <3>. QED
      BY <3>1, <3>2
  <2>3. /\ rec' \in RecType /\ rec'.pc = "unlabel" /\ rec'.todo = rec.todo
        /\ rec'.pod = rec.pod /\ rec'.unbound = rec.unbound /\ rec'.vols = rec.vols
        /\ rec'.needs = rec.needs /\ rec'.has = rec.has /\ rec'.scheduled = rec.scheduled
        /\ rec'.created = rec.created /\ rec'.removed = rec.removed
    BY <1>1, <2>1 DEF RecType
  <2>4. RecOK(rec', Api', bound')
    BY <1>1, <2>2, <2>3 DEF Kept, RecOK
  <2>. QED
    BY <1>1, <2>1, <2>2, <2>3, <2>4, ConcludeRec DEF TypeOK
<1>. QED
  BY <1>2, <1>3

(* The label is removed: a workload that had it has volumes, so a Headroom Pod  *)
(* was removed and the workload is past.                                        *)
LEMMA UnlabelKeeps == ASSUME HeadroomInv, UnlabelWorkloadPod PROVE HeadroomInv'
<1>1. /\ TypeOK /\ CacheInv /\ RecOK(rec, Api, bound) /\ rec \in RecType /\ Quiet /\ UNCHANGED bound
      /\ rec' = RecIdle /\ UngatedWithHeadroom
  BY DEF HeadroomInv, UnlabelWorkloadPod, RecInv, TypeOK, Quiet, Return, ReturnError
<1>2. queued' \in BOOLEAN /\ (Disruption \/ UNCHANGED disruptions)
  BY <1>1 DEF UnlabelWorkloadPod, Return, ReturnError, TypeOK, RecType
<1>3. Kept
  <2>1. CASE UNCHANGED store
    BY <1>1, <2>1, SameApi
  <2>2. CASE ~UNCHANGED store
    <3>. DEFINE w == [Api.w EXCEPT !.label = FALSE]
    <3>1. rec.has /\ rec.removed = rec.vols /\ CommitWorkload(w)
      BY <2>2 DEF UnlabelWorkloadPod
    <3>2. Past(Api.w)
      BY <1>1, <3>1 DEF RecOK
    <3>3. /\ w \in WorkloadType /\ ~w.label /\ w.phase = Api.w.phase
          /\ w.terminating = Api.w.terminating /\ w.gates = Api.w.gates
      BY <1>1, StoreParts DEF WorkloadType
    <3>. HIDE DEF w
    <3>4. Older(Api.w, w)
      BY <3>2, <3>3 DEF Older, Past
    <3>. QED
      BY <1>1, <3>1, <3>3, <3>4, WorkloadWrite DEF UngatedWithHeadroom
  <2>. QED
    BY <2>1, <2>2
<1>. QED
  BY <1>1, <1>2, <1>3, ConcludeIdle

(* The cleaner lists Headroom Pods whose workload is past in its copy, ... *)
LEMMA ListKeeps == ASSUME HeadroomInv, CleanerLists PROVE HeadroomInv'
<1>1. TypeOK /\ CacheInv /\ RecInv /\ UNCHANGED <<store, bound, rec, queued, disruptions>>
  BY DEF HeadroomInv, CleanerLists, recVars
<1>2. Kept
  BY <1>1, SameApi
<1>3. cleaner' \subseteq Volumes /\ (cleaner' # {} => Past(Cached.w))
  BY DEF CleanerLists, Stale, ShouldDelete, Past
<1>4. Past(Cached.w) => Past(Api'.w)
  BY <1>1, StoreParts DEF CacheInv, Older, Api
<1>5. /\ bound' \subseteq Volumes /\ queued' \in BOOLEAN /\ disruptions' \in 0..MaxDisruptions
      /\ rec' \in RecType /\ (rec'.pc = "idle" => rec' = RecIdle)
      /\ rec'.pc # "idle" => RecOK(rec', Api', bound')
  BY <1>1, <1>2 DEF TypeOK, Kept
<1>. QED
  BY <1>2, <1>3, <1>4, <1>5, Conclude

(* ... and deletes them one by one. *)
LEMMA CleanKeeps == ASSUME HeadroomInv, NEW v \in Volumes, CleanerDeletes(v) PROVE HeadroomInv'
<1>1. /\ TypeOK /\ UNCHANGED <<bound, rec, queued>> /\ (Disruption \/ UNCHANGED disruptions)
      /\ cleaner' \subseteq cleaner
      /\ UNCHANGED store \/ CommitHeadroom(v, "deleted")
  BY DEF HeadroomInv, CleanerDeletes, recVars
<1>2. Kept
  BY <1>1, SameApi, HeadroomWrite
<1>. QED
  BY <1>1, <1>2, ConcludeOther DEF TypeOK

(* A new process of the controller. *)
LEMMA RestartKeeps == ASSUME HeadroomInv, Restart PROVE HeadroomInv'
<1>1. TypeOK /\ UNCHANGED bound
  BY DEF HeadroomInv, Restart
<1>2. Kept
  BY <1>1, SameApi DEF Restart
<1>3. rec' \in RecType /\ rec' = RecIdle /\ rec'.pc = "idle"
  BY DEF Restart, RecIdle, RecType, NoWorkload, WorkloadType
<1>4. disruptions' \in 0..MaxDisruptions
  BY <1>1, BoundsAssumption DEF TypeOK, Disruption, Restart
<1>5. bound' \subseteq Volumes /\ cleaner' = {} /\ queued' \in BOOLEAN
  BY <1>1 DEF TypeOK, Restart
<1>. QED
  BY <1>2, <1>3, <1>4, <1>5, Conclude

(* Scheduler, kubelet and users move the workload on: *)
LEMMA WorkloadMoves ==
    ASSUME HeadroomInv, WorkloadChanges
    PROVE  \E w \in WorkloadType :
             /\ CommitWorkload(w)
             /\ Older(Api.w, w)
             /\ w.label => Api.w.label
             /\ w.phase = "gone" \/ (Gate \in Api.w.gates => Gate \in w.gates)
<1>a. Api.w \in WorkloadType
  BY StoreParts DEF HeadroomInv
<1>1. CASE Api.w.phase = "unscheduled" /\ CommitWorkload([Api.w EXCEPT !.phase = "scheduled"])
  <2>. DEFINE w == [Api.w EXCEPT !.phase = "scheduled"]
  <2>1. /\ w \in WorkloadType /\ w.label = Api.w.label /\ w.gates = Api.w.gates
        /\ w.terminating = Api.w.terminating /\ CommitWorkload(w)
    BY <1>a, <1>1 DEF WorkloadType
  <2>. HIDE DEF w
  <2>. QED
    BY <1>1, <2>1 DEF Older, Past
<1>2. CASE Api.w.phase = "scheduled" /\ CommitWorkload([Api.w EXCEPT !.phase = "running"])
  <2>. DEFINE w == [Api.w EXCEPT !.phase = "running"]
  <2>1. /\ w \in WorkloadType /\ w.label = Api.w.label /\ w.gates = Api.w.gates
        /\ w.phase = "running" /\ CommitWorkload(w)
    BY <1>a, <1>2 DEF WorkloadType
  <2>. HIDE DEF w
  <2>. QED
    BY <2>1 DEF Older, Past
<1>3. CASE CommitWorkload([Api.w EXCEPT !.terminating = TRUE])
  <2>. DEFINE w == [Api.w EXCEPT !.terminating = TRUE]
  <2>1. /\ w \in WorkloadType /\ w.label = Api.w.label /\ w.gates = Api.w.gates
        /\ w.terminating /\ CommitWorkload(w)
    BY <1>a, <1>3 DEF WorkloadType
  <2>. HIDE DEF w
  <2>. QED
    BY <2>1 DEF Older, Past
<1>4. CASE CommitWorkload(NoWorkload)
  <2>1. /\ NoWorkload \in WorkloadType /\ ~NoWorkload.label /\ NoWorkload.gates = {}
        /\ NoWorkload.phase = "gone"
    BY DEF NoWorkload, WorkloadType
  <2>. QED
    BY <1>4, <2>1 DEF Older, Past
<1>5. CASE CommitWorkload([Api.w EXCEPT !.gates = @ \ {"other"}])
  <2>. DEFINE w == [Api.w EXCEPT !.gates = @ \ {"other"}]
  <2>1. /\ w \in WorkloadType /\ w.label = Api.w.label /\ w.gates = Api.w.gates \ {"other"}
        /\ w.terminating = Api.w.terminating /\ w.phase = Api.w.phase /\ CommitWorkload(w)
    BY <1>a, <1>5 DEF WorkloadType
  <2>2. Gate # "other"
    BY DEF Gate
  <2>. HIDE DEF w
  <2>. QED
    BY <2>1, <2>2 DEF Older, Past
<1>. QED
  BY <1>1, <1>2, <1>3, <1>4, <1>5 DEF WorkloadChanges

(* ... it goes further, and neither its gate nor its label are touched. *)
LEMMA WorkloadKeeps == ASSUME HeadroomInv, WorkloadChanges PROVE HeadroomInv'
<1>1. /\ TypeOK /\ CacheInv /\ UngatedWithHeadroom /\ UNCHANGED <<bound, rec, queued, cleaner, disruptions>>
      /\ Api.w \in WorkloadType /\ Api.w.phase # "gone"
  BY StoreParts DEF HeadroomInv, WorkloadChanges, recVars
<1>2. Api.w.label => bound # {}
  BY <1>1, StoreParts DEF CacheInv
<1>3. PICK w \in WorkloadType :
        /\ CommitWorkload(w)
        /\ Older(Api.w, w)
        /\ w.label => Api.w.label
        /\ w.phase = "gone" \/ (Gate \in Api.w.gates => Gate \in w.gates)
  BY WorkloadMoves
<1>4. Kept
  BY <1>1, <1>2, <1>3, WorkloadWrite DEF UngatedWithHeadroom
<1>. QED
  BY <1>1, <1>4, ConcludeOther DEF TypeOK

(* A claim is bound, a Headroom Pod is preempted. *)
LEMMA ClusterKeeps ==
    ASSUME HeadroomInv, NEW v \in Volumes, BindClaim(v) \/ Preempt(v)
    PROVE  HeadroomInv'
<1>1. TypeOK
  BY DEF HeadroomInv
<1>2. CASE BindClaim(v)
  <2>1. Kept
    BY <1>2, SameApi DEF BindClaim
  <2>2. bound' \subseteq Volumes /\ UNCHANGED <<rec, queued, cleaner, disruptions>>
    BY <1>1, <1>2 DEF BindClaim, recVars, TypeOK
  <2>. QED
    BY <1>1, <2>1, <2>2, ConcludeOther DEF TypeOK
<1>3. CASE Preempt(v)
  <2>1. /\ CommitHeadroom(v, "preempted") /\ Disruption
        /\ UNCHANGED <<bound, rec, queued, cleaner>>
    BY <1>3 DEF Preempt, recVars
  <2>2. Kept
    BY <2>1, HeadroomWrite
  <2>. QED
    BY <1>1, <2>1, <2>2, ConcludeOther DEF TypeOK
<1>. QED
  BY <1>2, <1>3

(* Every step keeps the invariant. *)
LEMMA HeadroomNext == HeadroomInv /\ [Next]_vars => HeadroomInv'
<1>. SUFFICES ASSUME HeadroomInv, [Next]_vars PROVE HeadroomInv'
  OBVIOUS
<1>1. CASE UNCHANGED vars
  <2>1. Kept
    BY <1>1, SameApi DEF vars
  <2>. QED
    BY <1>1, <2>1, ConcludeOther DEF vars, HeadroomInv, TypeOK
<1>2. CASE ReconcileStep
  BY <1>2, ReadKeeps, ReconcileKeeps, LabelKeeps, CreateKeeps, PassKeeps, DeleteKeeps,
     VolumesDoneKeeps, UngateKeeps, UnlabelKeeps DEF ReconcileStep
<1>3. CASE CleanerStep
  BY <1>3, ListKeeps, CleanKeeps DEF CleanerStep
<1>. QED
  BY <1>1, <1>2, <1>3, ReadKeeps, RestartKeeps, WorkloadKeeps, ClusterKeeps DEF Next

(* The copies of the cache, the reconciliation and the cleaner's list are all    *)
(* behind the API server in the sense of Older, in every state.                  *)
THEOREM HeadroomInvariant == Spec => []HeadroomInv
BY HeadroomInit, HeadroomNext, PTL DEF Spec

(* The gate of a workload falls only when each of its volumes got its Headroom   *)
(* Pod, for any set of volumes, bound in any order and at any time.              *)
THEOREM UngatedOnlyWithHeadroom == Spec => []UngatedWithHeadroom
<1>1. HeadroomInv => UngatedWithHeadroom
  BY DEF HeadroomInv
<1>. QED
  BY <1>1, HeadroomInvariant, PTL

(* A Headroom Pod of a pending workload finds it by its label, whatever the      *)
(* cache the reconciler unlabels from.                                           *)
THEOREM HeadroomFollowsLabel == Spec => []HeadroomCanFollow
<1>1. HeadroomInv => HeadroomCanFollow
  BY DEF HeadroomInv
<1>. QED
  BY <1>1, HeadroomInvariant, PTL

-----------------------------------------------------------------------------
(* What a write to the workload changes *)
LEMMA WorkloadWritten ==
    ASSUME HeadroomInv, NEW w \in WorkloadType, CommitWorkload(w)
    PROVE  Api'.w = w /\ Api'.h = Api.h
<1>. DEFINE new == [Api EXCEPT !.w = w]
<1>1. TypeOK /\ new \in Snapshot /\ new.w = w /\ new.h = Api.h /\ Commit(new)
  BY StoreParts DEF Snapshot, CommitWorkload, HeadroomInv
<1>. HIDE DEF new
<1>. QED
  BY <1>1, CommitStore

(* The effect of a step on the Pods of the API server: of the controller's steps, *)
(* only the delete of a workload's Headroom Pods that is past deletes one, and    *)
(* each leaves the gates of others alone.                                         *)
Effect ==
    \/ Api' = Api
    \/ /\ Api'.h = Api.h
       /\ rec' = rec \/ Api.w.gates \ {Gate} \subseteq Api'.w.gates
    \/ /\ Api'.w = Api.w
       /\ \E v \in Volumes, s \in {"exists", "deleted", "preempted"} :
            Api'.h = [Api.h EXCEPT ![v] = s] /\ (s = "deleted" => Past(Api.w))

(* A delete of a Headroom Pod, by the reconciler or the cleaner *)
LEMMA DeleteEffect ==
    ASSUME HeadroomInv, NEW v \in Volumes, DeleteHeadroomPod(v) \/ CleanerDeletes(v)
    PROVE  Effect
<1>1. UNCHANGED bound /\ (UNCHANGED store \/ CommitHeadroom(v, "deleted"))
  BY DEF DeleteHeadroomPod, CleanerDeletes, Quiet
<1>2. CASE UNCHANGED store
  BY <1>2 DEF Effect, Api
<1>3. CASE ~UNCHANGED store
  <2>1. CASE DeleteHeadroomPod(v)
    <3>1. rec.pc # "idle" /\ ShouldDelete(rec.pod)
      BY <1>3, <2>1 DEF DeleteHeadroomPod
    <3>2. Past(Api.w)
      BY <3>1, WantedIsPast
    <3>. QED
      BY <1>1, <1>3, <3>2, HeadroomWrite DEF Effect
  <2>2. CASE CleanerDeletes(v)
    <3>1. Past(Api.w)
      BY <2>2 DEF CleanerDeletes, HeadroomInv, CleanerInv
    <3>. QED
      BY <1>1, <1>3, <3>1, HeadroomWrite DEF Effect
  <2>. QED
    BY <2>1, <2>2
<1>. QED
  BY <1>2, <1>3

(* The writes of the reconciler to the workload *)
LEMMA WriteEffect ==
    ASSUME HeadroomInv, LabelWorkloadPod \/ UngateWorkloadPod \/ UnlabelWorkloadPod
    PROVE  Effect
<1>1. TypeOK /\ Api.w \in WorkloadType /\ UNCHANGED bound
  BY StoreParts DEF HeadroomInv, LabelWorkloadPod, UngateWorkloadPod, UnlabelWorkloadPod, Quiet
<1>2. CASE UNCHANGED store
  BY <1>2 DEF Effect, Api
<1>3. CASE ~UNCHANGED store
  <2>1. CASE LabelWorkloadPod
    <3>. DEFINE w == [Api.w EXCEPT !.label = TRUE]
    <3>1. CommitWorkload(w) /\ w \in WorkloadType /\ w.gates = Api.w.gates
      BY <1>1, <1>3, <2>1 DEF LabelWorkloadPod, WorkloadType
    <3>. HIDE DEF w
    <3>. QED
      BY <3>1, WorkloadWritten DEF Effect
  <2>2. CASE UnlabelWorkloadPod
    <3>. DEFINE w == [Api.w EXCEPT !.label = FALSE]
    <3>1. CommitWorkload(w)
      BY <1>3, <2>2 DEF UnlabelWorkloadPod
    <3>2. w \in WorkloadType /\ w.gates = Api.w.gates
      BY <1>1 DEF WorkloadType
    <3>. HIDE DEF w
    <3>. QED
      BY <3>1, <3>2, WorkloadWritten DEF Effect
  <2>3. CASE UngateWorkloadPod
    <3>1. /\ rec.pc = "ungate" /\ MayUngate /\ UngatedOf(rec.pod.gates) \subseteq Api.w.gates
          /\ CommitWorkload([Api.w EXCEPT !.gates = UngatedOf(rec.pod.gates)])
      BY <1>3, <2>3 DEF UngateWorkloadPod
    <3>2. Api'.w.gates = UngatedOf(rec.pod.gates) /\ Api'.h = Api.h
      BY <1>1, <3>1, UngateWrites
    <3>3. Api.w.gates \subseteq rec.pod.gates
      BY <3>1 DEF HeadroomInv, RecInv, RecOK, Older
    <3>. QED
      BY <3>2, <3>3 DEF Effect, UngatedOf
  <2>. QED
    BY <2>1, <2>2, <2>3
<1>. QED
  BY <1>2, <1>3

(* Every step has such an effect. *)
LEMMA StepEffect == ASSUME HeadroomInv, [Next]_vars PROVE Effect
<1>1. CASE UNCHANGED store
  BY <1>1 DEF Effect, Api
<1>2. ASSUME Observe \/ Restart PROVE Effect
  BY <1>2, SameApi DEF Effect, Observe, Restart
<1>3. ASSUME WorkloadChanges PROVE Effect
  BY <1>3, WorkloadMoves, WorkloadWritten DEF Effect, WorkloadChanges, recVars
<1>4. ASSUME NEW v \in Volumes, CreateHeadroomPod(v) PROVE Effect
  <2>1. CASE CommitHeadroom(v, "exists")
    <3>1. rec.pod.label /\ RecOK(rec, Api, bound) /\ UNCHANGED bound
      BY <1>4, LabelledBefore DEF CreateHeadroomPod, HeadroomInv, RecInv, Quiet
    <3>2. ~Past(Api.w) => Api.w.label
      BY <3>1 DEF RecOK, Older
    <3>. QED
      BY <2>1, <3>1, <3>2, HeadroomWrite DEF Effect
  <2>. QED
    BY <1>1, <1>4, <2>1 DEF CreateHeadroomPod
<1>5. ASSUME NEW v \in Volumes, Preempt(v) PROVE Effect
  BY <1>5, HeadroomWrite DEF Preempt, Effect
<1>6. CASE ReconcileStep
  BY <1>1, <1>4, <1>6, DeleteEffect, WriteEffect
     DEF ReconcileStep, ReconcileIgnores, ReconcileWorkloadPod, SpawnOrDelete, PassOver, VolumesDone
<1>7. CASE CleanerStep
  BY <1>1, <1>7, DeleteEffect DEF CleanerStep, CleanerLists
<1>. QED
  BY <1>1, <1>2, <1>3, <1>5, <1>6, <1>7 DEF Next, vars, BindClaim

(* Reconciler and cleaner decide on old copies, yet delete no Headroom Pod of a  *)
(* workload that still waits for its node.                                       *)
THEOREM HeadroomKept == Spec => HeadroomIsKept
<1>1. HeadroomInv /\ [Next]_vars
        => [\A v \in Volumes : Api.h[v] = "exists" /\ Api'.h[v] = "deleted" => Past(Api.w)]_vars
  <2>. SUFFICES ASSUME HeadroomInv, [Next]_vars, NEW v \in Volumes,
                       Api.h[v] = "exists", Api'.h[v] = "deleted"
                PROVE  Past(Api.w)
    OBVIOUS
  <2>1. Effect /\ Api.h \in HeadroomType
    BY StepEffect, StoreParts DEF HeadroomInv
  <2>. QED
    BY <2>1 DEF Effect, HeadroomType
<1>. QED
  BY <1>1, HeadroomInvariant, PTL DEF Spec, HeadroomIsKept

(* The patch of the gates, made from an old copy, never removes the gate of      *)
(* another controller.                                                           *)
THEOREM OtherGatesKept == Spec => OtherGatesAreKept
<1>1. HeadroomInv /\ [Next]_vars
        => [rec' # rec => Api.w.gates \ {Gate} \subseteq Api'.w.gates]_vars
  <2>. SUFFICES ASSUME HeadroomInv, [Next]_vars, rec' # rec
                PROVE  Api.w.gates \ {Gate} \subseteq Api'.w.gates
    OBVIOUS
  <2>. QED
    BY StepEffect DEF Effect
<1>. QED
  BY <1>1, HeadroomInvariant, PTL DEF Spec, OtherGatesAreKept
=============================================================================
