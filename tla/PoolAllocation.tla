--------------------------- MODULE PoolAllocation ---------------------------
(***************************************************************************)
(* The Pool controller of the Kubernetes operator: one pool, its pods and  *)
(* the BatchSandboxes that draw pods from it.                              *)
(*                                                                         *)
(* An allocation is recorded twice.  The durable record is a set of        *)
(* annotations on the BatchSandbox (alloc-status, alloc-release,           *)
(* alloc-released); the working record is an in-memory map from pod to     *)
(* sandbox (`store') that decides which pods are idle.  One reconcile pass *)
(* lists pods and sandboxes from informer caches, evicts, schedules,       *)
(* patches annotations sandbox by sandbox, recycles and releases pods,     *)
(* rolls the pods to the pool's revision, scales, and writes the status.   *)
(* Passes of one pool are serial; each of the steps above is an action, so *)
(* that users, the BatchSandbox controller, the kubelet and crashes        *)
(* interleave with them.                                                   *)
(*                                                                         *)
(* Names are never reused: pods are created with GenerateName, and a       *)
(* sandbox name stands for one UID.                                        *)
(***************************************************************************)
EXTENDS Integers, FiniteSets, FiniteSetsExt

CONSTANTS
    Pods,           \* names the API server may generate for pool pods
    Sandboxes,      \* BatchSandboxes with spec.poolRef set to this pool
    NoSandbox,      \* "not in the map": the store has no entry for a pod
    MaxReplicas,    \* bound on spec.replicas of a sandbox
    Recycle,        \* the pool's recycle policy: "Delete", "Noop" or "Restart"
    BufferMin, BufferMax, PoolMin, PoolMax,    \* spec.capacitySpec
    ScalePercent, UpdatePercent,               \* maxUnavailable, in percent
    MaxFaults,      \* bound on failed calls, conflicts and crashes together
    Env             \* which optional behaviours of the environment happen

(***************************************************************************)
(* Optional behaviours: the controller process restarts ("crash"); pods    *)
(* are labelled for eviction ("evict"); the BatchSandbox controller asks   *)
(* for pods back while the sandbox lives ("release"), registers its own    *)
(* finalizer ("task"), or detaches a paused sandbox from the pool          *)
(* ("detach"); users change replicas ("resize") or the pool's template     *)
(* ("update"); the pod informer lags ("podlag"), and possibly for longer   *)
(* than ExpectationTimeout ("slow"); the sandbox informer lags behind this *)
(* controller's own patches ("stale"); a write is applied but its reply is *)
(* lost ("lost"); somebody else deletes pods ("kill").                     *)
(***************************************************************************)
Behaviours == {"crash", "evict", "release", "task", "detach", "resize",
               "update", "podlag", "slow", "stale", "lost", "kill"}

ASSUME ConstantsAssumption ==
    /\ IsFiniteSet(Pods) /\ IsFiniteSet(Sandboxes)
    /\ NoSandbox \notin Sandboxes
    /\ MaxReplicas \in Nat \ {0}
    /\ Recycle \in {"Delete", "Noop", "Restart"}
    /\ BufferMin \in Nat /\ BufferMax \in Nat
    /\ PoolMin \in Nat /\ PoolMax \in Nat
    /\ ScalePercent \in 0..100 /\ UpdatePercent \in 0..100
    /\ MaxFaults \in Nat
    /\ Env \subseteq Behaviours

VARIABLES
    (* the API server *)
    pod,            \* life of each pod
    podRev,         \* revision label of each pod
    evicting,       \* pods that carry the eviction label
    sandbox,        \* the BatchSandbox objects
    poolRev,        \* revision of the pool's template
    (* informer caches *)
    seen,           \* the pods as the pod informer has them
    cache,          \* the sandboxes as a lagging informer has them
    (* controller memory *)
    store,          \* InMemoryAllocationStore: pod -> sandbox
    recovered,      \* recoverOnce has run
    expected,       \* PoolScaleExpectations: created pods not yet listed
    (* locals of the running reconcile pass *)
    pc,             \* where the pass is
    listed, ready,  \* non-terminating pods of the list, and the ready ones
    schedulable,    \* listed minus the idle pods being evicted
    obj,            \* the listed sandbox objects, mutated by the patches
    toAllocate,     \* pods still to be patched into a sandbox
    toRelease,      \* pods to recycle, per sandbox
    succeed,        \* recycled pods still to be recorded as released
    toDelete,       \* pods the recycle handler wants deleted
    supplyCnt,      \* pods wanted by sandboxes and not available
    failed,         \* an error to return at the end of the current phase
    (* bounded environment *)
    faults

apiVars  == <<pod, podRev, evicting, sandbox, poolRev>>
memVars  == <<store, recovered, expected>>
passVars == <<listed, ready, schedulable, obj, toAllocate, toRelease, succeed,
              toDelete, supplyCnt, failed>>
vars     == <<apiVars, seen, cache, memVars, pc, passVars, faults>>

-----------------------------------------------------------------------------
(* Data *)

PodStates == {"none", "pending", "ready", "terminating", "gone"}

(* alloc-status is an append-only list; the controller looks only at which *)
(* pods it names and at its length, which can differ when a pod is listed  *)
(* twice.                                                                  *)
SandboxObj ==
    [phase    : {"none", "live", "terminating", "detached", "gone"},
     replicas : 0..MaxReplicas,
     alloc    : SUBSET Pods,         \* alloc-status: the pods
     len      : Nat,                 \* alloc-status: the length of the list
     release  : SUBSET Pods,         \* alloc-release
     released : SUBSET Pods,         \* alloc-released
     fins     : SUBSET {"pool", "task"}]

NoObj == [phase |-> "none", replicas |-> 0, alloc |-> {}, len |-> 0,
          release |-> {}, released |-> {}, fins |-> {}]

PassSteps == {"idle", "schedule", "allocate", "release", "scale", "conflict"}

TypeOK ==
    /\ pod \in [Pods -> PodStates] /\ seen \in [Pods -> PodStates]
    /\ podRev \in [Pods -> Nat] /\ poolRev \in Nat
    /\ evicting \subseteq Pods
    /\ sandbox \in [Sandboxes -> SandboxObj]
    /\ cache \in [Sandboxes -> SandboxObj]
    /\ store \in [Pods -> Sandboxes \cup {NoSandbox}]
    /\ recovered \in BOOLEAN
    /\ expected \subseteq Pods
    /\ pc \in PassSteps
    /\ listed \subseteq Pods /\ ready \subseteq listed
    /\ schedulable \subseteq listed
    /\ obj \in [Sandboxes -> SandboxObj]
    /\ toAllocate \in [Sandboxes -> SUBSET Pods]
    /\ toRelease \in [Sandboxes -> SUBSET Pods]
    /\ succeed \in [Sandboxes -> SUBSET Pods]
    /\ toDelete \subseteq Pods
    /\ supplyCnt \in Nat
    /\ failed \in BOOLEAN
    /\ faults \in 0..MaxFaults

Live == {"pending", "ready"}

(* Go's min and max. *)
min(a, b) == IF a <= b THEN a ELSE b
max(a, b) == IF a >= b THEN a ELSE b

(* The sandboxes that list by pool reference and have no template of their *)
(* own: a detached one has had its pool reference cleared.                 *)
InPool(o) == o.phase \in {"live", "terminating"}

(* The objects the API server still has. *)
Exists(o) == o.phase \in {"live", "terminating", "detached"}

(* The API server removes an object that is being deleted once its last    *)
(* finalizer is gone.  Of a removed object only the record of which pods   *)
(* it was given and which it released is kept, as history.                 *)
Reap(o) == IF o.phase = "terminating" /\ o.fins = {}
           THEN [o EXCEPT !.phase = "gone", !.replicas = 0, !.release = {}]
           ELSE o

Allocated(st) == {p \in Pods : st[p] # NoSandbox}

EmptyStore == [p \in Pods |-> NoSandbox]
NoPods     == [s \in Sandboxes |-> {}]

-----------------------------------------------------------------------------
(* Init: an empty pool, a controller that has not reconciled yet *)

Init ==
    /\ pod = [p \in Pods |-> "none"] /\ seen = pod
    /\ podRev = [p \in Pods |-> 0] /\ poolRev = 0
    /\ evicting = {}
    /\ sandbox = [s \in Sandboxes |-> NoObj] /\ cache = sandbox
    /\ store = EmptyStore /\ recovered = FALSE /\ expected = {}
    /\ pc = "idle"
    /\ listed = {} /\ ready = {} /\ schedulable = {}
    /\ obj = [s \in Sandboxes |-> NoObj]
    /\ toAllocate = NoPods /\ toRelease = NoPods /\ succeed = NoPods
    /\ toDelete = {} /\ supplyCnt = 0 /\ failed = FALSE
    /\ faults = 0

(* The pass returns: its locals die with it. *)
EndPass ==
    /\ pc' = "idle"
    /\ listed' = {} /\ ready' = {} /\ schedulable' = {}
    /\ obj' = [s \in Sandboxes |-> NoObj]
    /\ toAllocate' = NoPods /\ toRelease' = NoPods /\ succeed' = NoPods
    /\ toDelete' = {} /\ supplyCnt' = 0 /\ failed' = FALSE

(* The budget of faults the environment may still inject. *)
Fault == faults < MaxFaults /\ faults' = faults + 1

-----------------------------------------------------------------------------
(* In-memory allocation store *)

(* Forget every pod of s, then give it exactly the pods P.  Entries of     *)
(* other sandboxes for pods of P are overwritten.                          *)
UpdateAllocation(st, s, P) ==
    [p \in Pods |-> IF p \in P THEN s
                    ELSE IF st[p] = s THEN NoSandbox ELSE st[p]]

(* Forget the pods P, whoever has them. *)
ReleaseAllocation(st, P) ==
    [p \in Pods |-> IF p \in P THEN NoSandbox ELSE st[p]]

(* SyncSandboxAllocation's answer to a failed patch.  Mutant: none. *)
RollBackForgotten(st, s, P) == st

RollBack(st, s, P) == UpdateAllocation(st, s, P)

(* Mutants of the recovery: pods still being recycled are left out; a      *)
(* sandbox being deleted is skipped.                                       *)
RecoverWithoutReleasing(os) ==
    {m \in [Pods -> Sandboxes \cup {NoSandbox}] : \A p \in Pods :
        LET claims == {s \in Sandboxes : /\ InPool(os[s])
                                         /\ p \in os[s].alloc
                                         /\ p \notin os[s].release \cup os[s].released}
        IN  IF claims = {} THEN m[p] = NoSandbox ELSE m[p] \in claims}

RecoverLiveOnly(os) ==
    {m \in [Pods -> Sandboxes \cup {NoSandbox}] : \A p \in Pods :
        LET claims == {s \in Sandboxes : /\ os[s].phase = "live"
                                         /\ p \in os[s].alloc \ os[s].released}
        IN  IF claims = {} THEN m[p] = NoSandbox ELSE m[p] \in claims}

ListOrders ==
    {ord \in [Sandboxes -> 1..Cardinality(Sandboxes)] :
        \A s, t \in Sandboxes : ord[s] = ord[t] => s = t}

(* The maps that can be rebuilt from the annotations of the sandboxes os:  *)
(* in the order of the list, each sandbox claims its allocated pods and    *)
(* then drops its released ones, so the last one to name a pod decides.    *)
Recover(os) ==
    {m \in [Pods -> Sandboxes \cup {NoSandbox}] :
        \E ord \in ListOrders : \A p \in Pods :
            LET claims == {s \in Sandboxes : InPool(os[s]) /\ p \in os[s].alloc}
            IN  IF claims = {} THEN m[p] = NoSandbox
                ELSE \E last \in claims :
                        /\ \A t \in claims : ord[t] <= ord[last]
                        /\ m[p] = IF p \in os[last].released
                                  THEN NoSandbox ELSE last}

-----------------------------------------------------------------------------
(* The reconcile pass *)

(* What a list call of the controller returns. *)
PodList     == IF "podlag" \in Env THEN seen ELSE pod
SandboxList == IF "stale" \in Env THEN cache ELSE sandbox

Terminate(P) ==
    pod' = [p \in Pods |-> IF p \in P /\ pod[p] \in Live
                           THEN "terminating" ELSE pod[p]]

(* Mutant: the store is not consulted. *)
EvictWithoutStore(pods) ==
    /\ pc' = "schedule"
    /\ schedulable' = pods \ evicting
    /\ Terminate(pods \cap evicting)
    /\ UNCHANGED faults

(* handleEviction: delete the labelled pods of the list that the store     *)
(* does not have, and schedule with the others.  A pod whose deletion      *)
(* fails is left out of the schedule all the same.                         *)
HandleEviction(pods) ==
    LET victims == {p \in pods \cap evicting : store[p] = NoSandbox}
    IN  /\ pc' = "schedule"
        /\ schedulable' = pods \ victims
        /\ \E D \in SUBSET victims :
              /\ Terminate(D)
              /\ IF D = victims THEN UNCHANGED faults ELSE Fault

(* Reconcile: list the pods and the sandboxes, and evict. *)
Begin ==
    /\ pc = "idle"
    /\ expected' = {p \in expected : PodList[p] \in {"none", "gone"}}
    /\ listed' = {p \in Pods : PodList[p] \in Live}
    /\ ready'  = {p \in Pods : PodList[p] = "ready"}
    /\ obj' = SandboxList
    /\ HandleEviction(listed')
    /\ UNCHANGED <<podRev, evicting, sandbox, poolRev, seen, cache, store,
                   recovered, toAllocate, toRelease, succeed, toDelete,
                   supplyCnt, failed>>

(* The status update met a conflict: the whole body of the pass runs again *)
(* over the same lists.                                                    *)
Retry ==
    /\ pc = "conflict"
    /\ HandleEviction(listed)
    /\ UNCHANGED <<podRev, evicting, sandbox, poolRev, seen, cache, memVars,
                   listed, ready, obj, toAllocate, toRelease, succeed,
                   toDelete, supplyCnt, failed>>

(* getSandboxRequest *)
Supplement(o) ==
    IF o.phase = "live" THEN max(o.replicas - o.len, 0) ELSE 0

(* Mutants: deletion asks for nothing more than the release annotation;    *)
(* pods of a live sandbox are kept.                                        *)
ToReleaseRequested(o) == o.release \ o.released

ToReleaseOnDeletion(o) ==
    IF o.phase = "terminating" THEN o.alloc \ o.released ELSE {}

ToRelease(o) ==
    (IF o.phase = "terminating" THEN o.alloc ELSE o.release) \ o.released

(* Mutant: no collection of orphans. *)
ReleaseRequestsWithoutOrphans(st) ==
    [s \in Sandboxes |-> IF InPool(obj[s]) THEN ToRelease(obj[s]) ELSE {}]

(* getAllRequest: what each listed sandbox gives back, and the pods of     *)
(* sandboxes that are not in the list any more.                            *)
ReleaseRequests(st) ==
    [s \in Sandboxes |-> IF InPool(obj[s]) THEN ToRelease(obj[s])
                         ELSE {p \in Pods : st[p] = s}]

(* getAvailablePodsFromAlloc.  Mutant: the store is not consulted. *)
AvailableIfReady(st) == schedulable \cap ready

AvailablePods(st) == (schedulable \cap ready) \ Allocated(st)

(* PackedSchedule.Schedule, for any order of the requests and of the       *)
(* available pods: sandboxes are served in full one after the other, the   *)
(* first that cannot be gets what is left.                                 *)
PackedSchedules(avail, need) ==
    {f \in [Sandboxes -> SUBSET avail] :
        /\ \A s, t \in Sandboxes : s # t => f[s] \cap f[t] = {}
        /\ \A s \in Sandboxes : Cardinality(f[s]) <= need[s]
        /\ \/ \A s \in Sandboxes : Cardinality(f[s]) = need[s]
           \/ /\ UNION {f[s] : s \in Sandboxes} = avail
              /\ \A s, t \in Sandboxes :
                    Cardinality(f[s]) < need[s] /\ Cardinality(f[t]) < need[t]
                    => s = t \/ f[s] = {} \/ f[t] = {}}

(* The PodSupplement of PackedSchedule.Schedule: what the requests ask for *)
(* beyond the available pods.  Mutant: the pods are subtracted also when   *)
(* they cover the requests.                                                *)
Requested(need) ==
    Cardinality({slot \in Sandboxes \X (1..MaxReplicas) : slot[2] <= need[slot[1]]})

UnmetOrLess(avail, need) == Requested(need) - Cardinality(avail)

Unmet(avail, need) == max(Requested(need) - Cardinality(avail), 0)

(* Allocator.Schedule, with the one-time recovery of the store. *)
Schedule ==
    /\ pc = "schedule"
    /\ pc' = "allocate"
    /\ recovered' = TRUE
    /\ store' \in IF recovered THEN {store} ELSE Recover(SandboxList)
    /\ toRelease' = ReleaseRequests(store')
    /\ LET need == [s \in Sandboxes |-> Supplement(obj[s])]
       IN  /\ toAllocate' \in PackedSchedules(AvailablePods(store'), need)
           /\ supplyCnt' = Unmet(AvailablePods(store'), need)
    /\ UNCHANGED <<apiVars, seen, cache, expected, listed, ready, schedulable,
                   obj, succeed, toDelete, failed, faults>>

(* A merge patch of metadata: the finalizers, when given, replace the      *)
(* whole list, and none may be added to an object being deleted.           *)
Accepts(o, fins) ==
    /\ Exists(o)
    /\ o.phase = "terminating" => fins \subseteq o.fins

(* The metadata that SetAllocation and SetReleased write. *)
PatchAllocation(o, P, n, fins) ==
    [o EXCEPT !.alloc = P, !.len = n, !.fins = fins]

PatchReleased(o, P, fins) == [o EXCEPT !.released = P, !.fins = fins]

(* getLatestAllocated.  Mutant: the new pods replace the current ones. *)
OnlyNewlyAllocated(o, P) == P

LatestAllocated(o, P) == o.alloc \cup P

(* SetAllocation's finalizer.  Mutant: none is added. *)
FinalizersUnchanged(fins) == fins

WithPoolFinalizer(fins) == fins \cup {"pool"}

(* SyncSandboxAllocation for one sandbox: the store first, then the patch, *)
(* and back to the sandbox's former list when the patch fails.  The        *)
(* finalizer is part of the patch when the listed object does not have it. *)
SyncSandboxAllocation(s) ==
    LET old   == obj[s]
        new   == PatchAllocation(old, LatestAllocated(old, toAllocate[s]),
                                 old.len + Cardinality(toAllocate[s]),
                                 WithPoolFinalizer(old.fins))
        fins  == IF "pool" \in old.fins THEN sandbox[s].fins ELSE new.fins
        kept  == UpdateAllocation(store, s, new.alloc)
        Patched == sandbox' = [sandbox EXCEPT
                      ![s] = PatchAllocation(@, new.alloc, new.len, fins)]
        RolledBack == store' = RollBack(kept, s, old.alloc)
    IN  /\ pc = "allocate" /\ toAllocate[s] # {}
        /\ toAllocate' = [toAllocate EXCEPT ![s] = {}]
        /\ obj' = [obj EXCEPT ![s] = new]
        /\ \/ /\ Accepts(sandbox[s], fins)
              /\ Patched /\ store' = kept
              /\ UNCHANGED <<failed, faults>>
           \/ /\ IF Accepts(sandbox[s], fins) THEN Fault ELSE UNCHANGED faults
              /\ RolledBack /\ failed' = TRUE
              /\ UNCHANGED sandbox
           \/ /\ "lost" \in Env /\ Accepts(sandbox[s], fins)
              /\ Fault
              /\ Patched /\ RolledBack /\ failed' = TRUE
        /\ UNCHANGED <<pod, podRev, evicting, poolRev, seen, cache, recovered,
                       expected, pc, listed, ready, schedulable, toRelease,
                       succeed, toDelete, supplyCnt>>

(* Mutant: the Delete policy reports success before the pod is deleted. *)
RecycleResultsHasty(p) ==
    IF Recycle = "Restart" THEN {"succeeded", "recycling", "delete", "error"}
    ELSE {"succeeded"}

(* TryRecycle.  The handler is given no pod object for a pod that is not   *)
(* schedulable.  Restarting is modelled by its possible results.           *)
RecycleResults(p) ==
    IF p \notin schedulable THEN {"succeeded"}
    ELSE CASE Recycle = "Delete"  -> {"delete"}
           [] Recycle = "Noop"    -> {"succeeded"}
           [] Recycle = "Restart" -> {"succeeded", "recycling", "delete", "error"}

(* doAllocate returns once every sandbox is synced, and an error ends the  *)
(* pass before anything is released.  Otherwise doRecycle tries every pod  *)
(* to release and collects the results.                                    *)
DoRecycle ==
    /\ pc = "allocate" /\ toAllocate = NoPods
    /\ IF failed THEN EndPass
       ELSE /\ pc' = "release"
            /\ \E res \in [UNION {toRelease[s] : s \in Sandboxes} ->
                           {"succeeded", "recycling", "delete", "error"}] :
                  /\ \A p \in DOMAIN res : res[p] \in RecycleResults(p)
                  /\ succeed' = [s \in Sandboxes |->
                                   {p \in toRelease[s] : res[p] = "succeeded"}]
                  /\ toDelete' = {p \in DOMAIN res : res[p] = "delete"}
                  /\ failed' = \E p \in DOMAIN res : res[p] = "error"
            /\ toRelease' = NoPods
            /\ UNCHANGED <<listed, ready, schedulable, obj, toAllocate,
                           supplyCnt>>
    /\ UNCHANGED <<apiVars, seen, cache, memVars, faults>>

(* SyncSandboxReleased for one listed sandbox: the annotation first, with  *)
(* the finalizer dropped when the sandbox is being deleted and everything  *)
(* is released, and only then the store.                                   *)
SyncSandboxReleased(s) ==
    LET old  == obj[s]
        all  == old.released \cup succeed[s]
        drop == old.phase = "terminating" /\ old.alloc \subseteq all
        new  == PatchReleased(old, all, IF drop THEN old.fins \ {"pool"}
                                        ELSE old.fins)
        fins == IF drop /\ "pool" \in old.fins THEN new.fins
                ELSE sandbox[s].fins
        Patched == sandbox' = [sandbox EXCEPT
                      ![s] = Reap(PatchReleased(@, all, fins))]
    IN  /\ pc = "release" /\ InPool(old) /\ succeed[s] # {}
        /\ succeed' = [succeed EXCEPT ![s] = {}]
        /\ obj' = [obj EXCEPT ![s] = new]
        /\ \/ /\ Accepts(sandbox[s], fins)
              /\ Patched /\ store' = ReleaseAllocation(store, all)
              /\ UNCHANGED <<failed, faults>>
           \/ /\ IF Accepts(sandbox[s], fins) THEN Fault ELSE UNCHANGED faults
              /\ failed' = TRUE
              /\ UNCHANGED <<sandbox, store>>
           \/ /\ "lost" \in Env /\ Accepts(sandbox[s], fins)
              /\ Fault
              /\ Patched /\ failed' = TRUE
              /\ UNCHANGED store
        /\ UNCHANGED <<pod, podRev, evicting, poolRev, seen, cache, recovered,
                       expected, pc, listed, ready, schedulable, toAllocate,
                       toRelease, toDelete, supplyCnt>>

(* The end of doRelease: pods of sandboxes that are not listed leave the   *)
(* store without an annotation; an error ends the pass before scaling.     *)
ReleaseDone ==
    /\ pc = "release"
    /\ \A s \in Sandboxes : InPool(obj[s]) => succeed[s] = {}
    /\ store' = ReleaseAllocation(store, UNION {succeed[s] : s \in Sandboxes})
    /\ IF failed THEN EndPass
       ELSE /\ pc' = "scale" /\ succeed' = NoPods
            /\ UNCHANGED <<listed, ready, schedulable, obj, toAllocate,
                           toRelease, toDelete, supplyCnt, failed>>
    /\ UNCHANGED <<apiVars, seen, cache, recovered, expected, faults>>

(* Mutant: rounded down, and possibly none. *)
MaxUnavailableFloor(percent, total) == (percent * total) \div 100

(* getScaleMaxUnavailable, getUpdateMaxUnavailable: a percentage of the    *)
(* total, rounded up, and at least one.                                    *)
MaxUnavailable(percent, total) == max((percent * total + 99) \div 100, 1)

NotReady == schedulable \ ready

(* Pods that are not allocated.  Mutant: the store is not consulted. *)
IdleIfSchedulable == schedulable

IdlePods == schedulable \ Allocated(store)

(* recreateUpdateStrategy.Compute: idle pods of an old revision go, the    *)
(* unready ones at once, the ready ones within the budget.                 *)
Updates ==
    LET outdated == {p \in IdlePods : podRev[p] # poolRev}
        budget   == max(MaxUnavailable(UpdatePercent, Cardinality(schedulable))
                        - Cardinality(NotReady), 0)
        picked   == min(budget, Cardinality(outdated \cap ready))
    IN  {(outdated \ ready) \cup U : U \in kSubset(picked, outdated \cap ready)}

(* scalePool: how many schedulable pods there should be, and how many may  *)
(* be created towards that number.                                         *)
DesiredSchedulable(supply) ==
    LET allocated == Cardinality(Allocated(store))
        buffer    == Cardinality(schedulable) - allocated
        desired   == IF buffer < BufferMin \/ buffer > BufferMax
                     THEN (BufferMin + BufferMax) \div 2 ELSE buffer
    IN  max(allocated + supply + desired, PoolMin)

CreateCnt(desired) ==
    LET missing == desired - Cardinality(schedulable)
        maxNew  == max(PoolMax - Cardinality(listed), 0)
        limited == MaxUnavailable(ScalePercent, desired) - Cardinality(NotReady)
    IN  max(0, min(min(missing, maxNew), limited))

(* SatisfiedExpectations.  Mutant: the answer is ignored. *)
ExpectationsIgnored == TRUE

ExpectationsSatisfied == expected = {}

(* updatePoolStatus met a conflict. *)
StatusConflict ==
    /\ Fault
    /\ pc' = "conflict"
    /\ schedulable' = {} /\ toDelete' = {} /\ supplyCnt' = 0
    /\ UNCHANGED <<listed, ready, obj, toAllocate, toRelease, succeed, failed>>

(* updatePool, scalePool and updatePoolStatus.  Every created pod is       *)
(* expected in the pod list before the pool is scaled again.  Calls fail   *)
(* one by one, deleting a pod that is gone is an error too, and any error  *)
(* ends the pass.  The bound on Pods limits what can be created.           *)
Scale ==
    /\ pc = "scale" /\ ExpectationsSatisfied
    /\ \E U \in Updates :
         LET desired == DesiredSchedulable(supplyCnt + Cardinality(U))
             unborn  == {p \in Pods : pod[p] = "none"}
             create  == min(CreateCnt(desired), Cardinality(unborn))
             excess  == min(max(Cardinality(schedulable) - desired, 0),
                            Cardinality(IdlePods \ U))
         IN  \E I \in kSubset(excess, IdlePods \ U) :
               LET doomed == ((U \cup toDelete) \cap schedulable) \cup I
               IN  \E D \in SUBSET doomed, C \in SUBSET unborn :
                   \E lost \in SUBSET IF "lost" \in Env THEN C ELSE {} :
                     /\ Cardinality(C) <= create
                     /\ pod' = [p \in Pods |->
                                  IF p \in C THEN "pending"
                                  ELSE IF p \in D /\ pod[p] \in Live
                                  THEN "terminating" ELSE pod[p]]
                     /\ podRev' = [p \in Pods |->
                                     IF p \in C THEN poolRev ELSE podRev[p]]
                     /\ expected' = C \ lost
                     /\ IF D = doomed /\ Cardinality(C) = create /\ lost = {}
                        THEN \/ EndPass /\ UNCHANGED faults
                             \/ /\ \A p \in D : pod[p] # "gone"
                                /\ StatusConflict
                        ELSE EndPass /\ Fault
    /\ UNCHANGED <<evicting, sandbox, poolRev, seen, cache, store, recovered>>

(* scalePool while created pods have not been listed: an error. *)
ScaleNotReady ==
    /\ pc = "scale" /\ expected # {}
    /\ EndPass
    /\ UNCHANGED <<apiVars, seen, cache, memVars, faults>>

(* scalePool when the expectations have timed out: they are dropped,       *)
(* satisfied or not.  An informer that lags less than ExpectationTimeout   *)
(* has listed every pod by then but the ones that came and went.           *)
ExpectationsExpire ==
    /\ pc = "scale" /\ expected # {}
    /\ "slow" \in Env \/ \A p \in expected : PodList[p] = "gone"
    /\ expected' = {}
    /\ UNCHANGED <<apiVars, seen, cache, store, recovered, pc, passVars, faults>>

(* The process dies and comes back with synced caches and empty memory. *)
Crash ==
    /\ "crash" \in Env
    /\ Fault
    /\ EndPass
    /\ store' = EmptyStore /\ recovered' = FALSE /\ expected' = {}
    /\ seen' = pod /\ cache' = sandbox
    /\ UNCHANGED apiVars

-----------------------------------------------------------------------------
(* Users and the BatchSandbox controller *)

SetSandbox(s, o) ==
    /\ sandbox' = [sandbox EXCEPT ![s] = o]
    /\ UNCHANGED <<pod, podRev, evicting, poolRev, seen, cache, memVars, pc,
                   passVars, faults>>

CreateSandbox(s) ==
    /\ sandbox[s].phase = "none"
    /\ \E n \in 1..MaxReplicas :
          SetSandbox(s, [NoObj EXCEPT !.phase = "live", !.replicas = n])

ScaleSandbox(s) ==
    /\ "resize" \in Env
    /\ sandbox[s].phase = "live"
    /\ \E n \in 0..MaxReplicas :
          /\ n # sandbox[s].replicas
          /\ SetSandbox(s, [sandbox[s] EXCEPT !.replicas = n])

DeleteSandbox(s) ==
    /\ sandbox[s].phase = "live"
    /\ SetSandbox(s, Reap([sandbox[s] EXCEPT !.phase = "terminating"]))

(* The BatchSandbox controller registers its task-cleanup finalizer while  *)
(* the sandbox lives, and removes it once the tasks are cleaned up.        *)
AddTaskFinalizer(s) ==
    /\ "task" \in Env
    /\ sandbox[s].phase = "live" /\ "task" \notin sandbox[s].fins
    /\ SetSandbox(s, [sandbox[s] EXCEPT !.fins = @ \cup {"task"}])

RemoveTaskFinalizer(s) ==
    /\ sandbox[s].phase = "terminating" /\ "task" \in sandbox[s].fins
    /\ SetSandbox(s, Reap([sandbox[s] EXCEPT !.fins = @ \ {"task"}]))

(* releasePods: a pod whose task is released is handed back. *)
ReleasePod(s) ==
    /\ "release" \in Env
    /\ InPool(sandbox[s])
    /\ \E p \in sandbox[s].alloc \ sandbox[s].release :
          SetSandbox(s, [sandbox[s] EXCEPT !.release = @ \cup {p}])

(* completePause of a pooled sandbox: the pool reference, the finalizer    *)
(* and the release request go, the allocation record stays.                *)
Detach(s) ==
    /\ "detach" \in Env
    /\ sandbox[s].phase = "live" /\ sandbox[s].alloc \ sandbox[s].release # {}
    /\ SetSandbox(s, [sandbox[s] EXCEPT !.phase = "detached", !.release = {},
                                        !.fins = @ \ {"pool"}])

(* Kubelet, operators and informers *)

PodReady(p) ==
    /\ pod[p] = "pending"
    /\ pod' = [pod EXCEPT ![p] = "ready"]
    /\ UNCHANGED <<podRev, evicting, sandbox, poolRev, seen, cache, memVars,
                   pc, passVars, faults>>

PodGone(p) ==
    /\ pod[p] = "terminating"
    /\ pod' = [pod EXCEPT ![p] = "gone"]
    /\ podRev' = [podRev EXCEPT ![p] = 0]
    /\ evicting' = evicting \ {p}
    /\ UNCHANGED <<sandbox, poolRev, seen, cache, memVars, pc, passVars, faults>>

(* A node is drained, a user deletes the pod. *)
KillPod(p) ==
    /\ "kill" \in Env
    /\ pod[p] \in Live
    /\ pod' = [pod EXCEPT ![p] = "terminating"]
    /\ UNCHANGED <<podRev, evicting, sandbox, poolRev, seen, cache, memVars,
                   pc, passVars, faults>>

LabelEvict(p) ==
    /\ "evict" \in Env
    /\ pod[p] \in Live /\ p \notin evicting
    /\ evicting' = evicting \cup {p}
    /\ UNCHANGED <<pod, podRev, sandbox, poolRev, seen, cache, memVars, pc,
                   passVars, faults>>

UpdateTemplate ==
    /\ "update" \in Env /\ poolRev = 0
    /\ poolRev' = 1
    /\ UNCHANGED <<pod, podRev, evicting, sandbox, seen, cache, memVars, pc,
                   passVars, faults>>

(* An informer delivers the latest state of one object. *)
DeliverPod(p) ==
    /\ "podlag" \in Env
    /\ seen[p] # pod[p]
    /\ seen' = [seen EXCEPT ![p] = pod[p]]
    /\ UNCHANGED <<apiVars, cache, memVars, pc, passVars, faults>>

DeliverSandbox(s) ==
    /\ "stale" \in Env
    /\ cache[s] # sandbox[s]
    /\ cache' = [cache EXCEPT ![s] = sandbox[s]]
    /\ UNCHANGED <<apiVars, seen, memVars, pc, passVars, faults>>

-----------------------------------------------------------------------------

Pass ==
    \/ Begin \/ Retry \/ Schedule
    \/ \E s \in Sandboxes : SyncSandboxAllocation(s)
    \/ DoRecycle
    \/ \E s \in Sandboxes : SyncSandboxReleased(s)
    \/ ReleaseDone \/ Scale \/ ScaleNotReady \/ ExpectationsExpire

Users ==
    \E s \in Sandboxes :
        \/ CreateSandbox(s) \/ ScaleSandbox(s) \/ DeleteSandbox(s)
        \/ AddTaskFinalizer(s) \/ ReleasePod(s) \/ Detach(s)

Next ==
    \/ Pass \/ Crash \/ Users \/ UpdateTemplate
    \/ \E s \in Sandboxes : RemoveTaskFinalizer(s) \/ DeliverSandbox(s)
    \/ \E p \in Pods : \/ PodReady(p) \/ PodGone(p) \/ DeliverPod(p)
                      \/ KillPod(p) \/ LabelEvict(p)

Spec == Init /\ [][Next]_vars

(***************************************************************************)
(* Fairness: the pass keeps running (every change of a pod, a sandbox or   *)
(* the pool enqueues the pool, an error requeues it), the kubelet starts   *)
(* and stops pods, informers deliver, and the BatchSandbox controller      *)
(* finishes its own cleanup.  Expectations that stay unsatisfied do time   *)
(* out in the end, however many passes fail before.  Users, operators and  *)
(* faults owe nothing.                                                     *)
(***************************************************************************)
Fairness ==
    /\ WF_vars(Pass) /\ SF_vars(ExpectationsExpire)
    /\ \A p \in Pods : WF_vars(PodReady(p)) /\ WF_vars(PodGone(p))
                       /\ WF_vars(DeliverPod(p))
    /\ \A s \in Sandboxes : WF_vars(RemoveTaskFinalizer(s))
                            /\ WF_vars(DeliverSandbox(s))

FairSpec == Spec /\ Fairness

-----------------------------------------------------------------------------
(* Safety *)

(* The pods a sandbox in the pool holds: allocated and not released. *)
Holds(s) == IF InPool(sandbox[s])
            THEN sandbox[s].alloc \ sandbox[s].released ELSE {}

(* No pod is held by two sandboxes: the promise behind alloc-status, which *)
(* has no lock and no compare-and-swap, only the in-memory store that      *)
(* SyncSandboxAllocation, SyncSandboxReleased and Recover keep.            *)
OneSandboxPerPod ==
    \A s, t \in Sandboxes : s # t => Holds(s) \cap Holds(t) = {}

(* Under the Delete policy a pod serves one sandbox in its whole life: it  *)
(* is never handed to a second one, not even after it was released.        *)
NeverReused ==
    \A s, t \in Sandboxes :
        s # t => sandbox[s].alloc \cap sandbox[t].alloc = {}

(* Between passes, and once recovered, the store has every pod the         *)
(* annotations say is held, under the sandbox that holds it: what          *)
(* SyncSandboxAllocation's rollback and SyncSandboxReleased's order of     *)
(* writes are for.                                                         *)
StoreCoversAnnotations ==
    pc = "idle" /\ recovered =>
        \A s \in Sandboxes : \A p \in Holds(s) : store[p] = s

(* The store never keeps a pod for a sandbox whose annotation does not     *)
(* name it: SyncSandboxAllocation's rollback loses no pod to a patch that  *)
(* failed.                                                                 *)
StoreIsBacked ==
    \A p \in Pods : store[p] # NoSandbox => p \in sandbox[store[p]].alloc

(* The controller's create calls never take the pool over capacitySpec     *)
(* poolMax, in spite of a pod list that lags by less than                  *)
(* ExpectationTimeout: what scale expectations are for.                    *)
PoolMaxRespected ==
    Cardinality({p \in Pods : pod[p] \in Live}) <= PoolMax

(* Under the Delete policy a pod is recorded as released only after it is  *)
(* on its way out: the recycle handler, SetReleased and ReleaseAllocation  *)
(* never free a running pod.                                               *)
ReleasedMeansDeleted ==
    \A s \in Sandboxes : \A p \in sandbox[s].released :
        pod[p] \in {"terminating", "gone"}

(* The pool-allocation finalizer does its work: a sandbox that left the    *)
(* API server had all its pods released, whatever races the deletion ran   *)
(* with a pending allocation patch.                                        *)
FinalizerGuardsRelease ==
    \A s \in Sandboxes :
        sandbox[s].phase = "gone" => sandbox[s].alloc \subseteq sandbox[s].released

(* Action properties *)

(* A pod is deleted under a live sandbox that holds it only if the sandbox *)
(* asked for its release: eviction, rolling update, scale-in and recycling *)
(* leave the others alone.                                                 *)
DeletesOnlyFreePods ==
    [][Pass => \A p \in Pods : pod[p] \in Live /\ pod'[p] = "terminating" =>
          \A s \in Sandboxes : p \in Holds(s) =>
              sandbox[s].phase = "terminating" \/ p \in sandbox[s].release]_vars

(* alloc-status only grows: the patch of doAllocate merges the new pods    *)
(* with all current ones.                                                  *)
AllocationsAccumulate ==
    [][\A s \in Sandboxes : sandbox[s].alloc \subseteq sandbox'[s].alloc]_vars

(* Liveness *)

(* A sandbox being deleted eventually goes: its pods are recycled and      *)
(* recorded, and the finalizer is removed.                                 *)
TerminatingSandboxGoes ==
    \A s \in Sandboxes :
        sandbox[s].phase = "terminating" ~> sandbox[s].phase = "gone"

(* A pod the BatchSandbox controller hands back is eventually recorded as  *)
(* released, whatever becomes of the sandbox meanwhile.                    *)
ReleaseCompletes ==
    \A s \in Sandboxes, p \in Pods :
        p \in sandbox[s].release
        ~> p \in sandbox[s].released \/ ~InPool(sandbox[s])

(* A sandbox that stays is eventually given all the pods it asks for, if   *)
(* poolMax allows, unless the instance has used up its pod names.          *)
SandboxIsServed ==
    \A s \in Sandboxes :
        sandbox[s].phase = "live"
        ~> \/ sandbox[s].len >= sandbox[s].replicas
           \/ sandbox[s].phase # "live"
           \/ \A p \in Pods : pod[p] # "none"

(* The pods of a sandbox that was detached from the pool are deleted by    *)
(* the orphan collection in getAllRequest and doRelease.                   *)
OrphansAreDeleted ==
    \A s \in Sandboxes, p \in Pods :
        sandbox[s].phase = "detached" /\ p \in sandbox[s].alloc
        ~> pod[p] = "gone"

=============================================================================
