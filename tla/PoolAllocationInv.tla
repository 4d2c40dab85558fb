------------------------- MODULE PoolAllocationInv -------------------------
(***************************************************************************)
(* The inductive invariants behind the safety properties of the pool       *)
(* controller, for any number of pods and sandboxes.  PoolSafetyProofs     *)
(* and PoolTheorems prove AllocationInv inductive, PoolAllocationProofs    *)
(* proves ScaleInv and ReleaseInv.                                         *)
(***************************************************************************)
EXTENDS PoolAllocation

(* The conditions under which the allocation is safe.  They are the ones   *)
(* whose absence the violation runs and the README show to be fatal: a     *)
(* released pod must not be handed out again, writes must not be applied   *)
(* without a reply, the sandbox list must show the controller's own        *)
(* patches, and a restart must not meet an eviction or a detached sandbox. *)
Tame ==
    /\ Recycle = "Delete"
    /\ "lost" \notin Env /\ "stale" \notin Env
    /\ "crash" \in Env => "evict" \notin Env /\ "detach" \notin Env

Dead == {"terminating", "gone"}

(* A pod that no pass can hand out any more: the pod list shows it being   *)
(* deleted, and the running pass did not list it.                          *)
Retired(p) == PodList[p] \in Dead /\ p \notin listed

(* The pod informer is behind the API server, never ahead of it. *)
SeenBehind ==
    \A p \in Pods : /\ seen[p] \in Dead => pod[p] \in Dead
                    /\ seen[p] # "none" => pod[p] # "none"

(* Sandbox objects: what the API server guarantees, and that the release   *)
(* records are about allocated pods.                                       *)
ObjectsSane ==
    \A s \in Sandboxes :
        /\ sandbox[s].phase = "none" => sandbox[s].alloc = {} /\ sandbox[s].fins = {}
        /\ sandbox[s].release \subseteq sandbox[s].alloc
        /\ sandbox[s].released \subseteq sandbox[s].alloc
        /\ sandbox[s].phase = "detached" => "detach" \in Env

(* A sandbox in the pool with unreleased pods has the pool's finalizer. *)
Guarded ==
    \A s \in Sandboxes :
        InPool(sandbox[s]) =>
            "pool" \in sandbox[s].fins \/ sandbox[s].alloc \subseteq sandbox[s].released

(* Allocated pods were listed once, and a released pod is retired. *)
AllocatedSeen ==
    \A s \in Sandboxes :
        /\ \A p \in sandbox[s].alloc : 
              /\ PodList[p] # "none"
              /\ pc # "idle" => p \in listed \/ PodList[p] \in Dead
        /\ \A p \in sandbox[s].released : Retired(p)

(* The store has every allocated pod that could still be handed out. *)
Covered ==
    recovered => \A s \in Sandboxes : \A p \in sandbox[s].alloc :
        \/ store[p] = s
        \/ /\ Retired(p)
           /\ p \in sandbox[s].released \/ ~InPool(sandbox[s])

(* Before the first recovery nothing is allocated, unless the process was  *)
(* restarted, and then nothing is labelled for eviction.                   *)
Fresh ==
    /\ ~recovered /\ "crash" \notin Env =>
          \A s \in Sandboxes : sandbox[s].alloc = {}
    /\ "evict" \notin Env => evicting = {}

(* The listed object of s agrees with the API server's on what only the    *)
(* pool controller writes, and is no newer on the rest.                    *)
Synced(s) ==
    /\ obj[s].alloc = sandbox[s].alloc
    /\ "pool" \in obj[s].fins /\ sandbox[s].phase \in {"none", "live", "terminating"}
          => "pool" \in sandbox[s].fins

ListSane ==
    /\ pc = "idle" => listed = {}
    /\ failed => pc \in {"allocate", "release"}
    /\ \A p \in listed : PodList[p] # "none"
    /\ pc # "idle" => \A s \in Sandboxes :
          /\ Synced(s) \/ (pc = "allocate" /\ failed /\ toAllocate[s] = {})
          /\ sandbox[s].released \subseteq obj[s].released
          /\ obj[s].released \subseteq sandbox[s].alloc
          /\ \A p \in obj[s].released : Retired(p)
          /\ obj[s].phase = "terminating" => sandbox[s].phase \in {"terminating", "gone"}
          /\ ~InPool(obj[s]) => ~InPool(sandbox[s]) \/ sandbox[s].alloc = {}
          /\ InPool(sandbox[s]) => obj[s].release \subseteq sandbox[s].release
          /\ obj[s].release \subseteq sandbox[s].alloc
    /\ pc \in {"schedule", "allocate", "release", "scale"} =>
          \A s \in Sandboxes : sandbox[s].alloc \cap listed \subseteq schedulable

(* s does not need p: it left the pool, is being deleted, or gave p back. *)
GivenBack(s, p) ==
    /\ p \in sandbox[s].alloc
    /\ \/ ~InPool(sandbox[s]) 
       \/ sandbox[s].phase = "terminating"
       \/ p \in sandbox[s].release

(* The plan of the running pass: the pods to hand out belong to nobody and *)
(* to one request each, the pods to recycle were given back, and those     *)
(* recycled are retired.                                                   *)
PlanSane ==
    /\ pc = "allocate" =>
          \A s \in Sandboxes :
             /\ toAllocate[s] \subseteq schedulable
             /\ toAllocate[s] # {} => obj[s].phase = "live"
             /\ \A p \in toAllocate[s] :
                   /\ store[p] = NoSandbox
                   /\ \A t \in Sandboxes : p \notin sandbox[t].alloc
                   /\ \A t \in Sandboxes : t # s => p \notin toAllocate[t]
             /\ \A p \in toRelease[s] : GivenBack(s, p)
    /\ pc = "release" =>
          \A s \in Sandboxes : \A p \in succeed[s] :
             Retired(p) /\ GivenBack(s, p)
    /\ pc \in {"release", "scale"} =>
          \A p \in toDelete : \E s \in Sandboxes : GivenBack(s, p)
    /\ pc \in {"allocate", "release", "scale", "conflict"} => recovered

(* The inductive invariant of the allocation. *)
AllocationInv ==
    /\ TypeOK
    /\ SeenBehind /\ ObjectsSane /\ Guarded /\ AllocatedSeen /\ Covered /\ Fresh
    /\ ListSane /\ PlanSane
    /\ NeverReused /\ StoreIsBacked /\ FinalizerGuardsRelease

(* A pod that the list shows, or showed before the pod was deleted. *)
Listable(p) ==
    /\ PodList[p] # "none"
    /\ pc # "idle" => p \in listed \/ PodList[p] \in Dead

(* An object that names such pods only, and as released only dead ones. *)
Sound(o) ==
    /\ \A p \in o.alloc \cup o.release : Listable(p)
    /\ \A p \in o.released : pod[p] \in Dead

(* The inductive invariant of releases without eviction, whatever else the *)
(* environment does: annotations, current or stale, and the store name     *)
(* only pods that were listed once, and a pod that is not in the list of   *)
(* the pass is being deleted.                                              *)
ReleaseInv ==
    /\ TypeOK /\ SeenBehind /\ evicting = {}
    /\ \A s \in Sandboxes : Sound(sandbox[s]) /\ Sound(cache[s]) /\ Sound(obj[s])
    /\ \A p \in Pods : store[p] # NoSandbox => Listable(p)
    /\ \A p \in listed : PodList[p] # "none"
    /\ pc \in {"schedule", "allocate", "release", "scale"} => schedulable = listed
    /\ pc = "allocate" => \A s \in Sandboxes : /\ toAllocate[s] \subseteq listed
                                               /\ \A p \in toRelease[s] : Listable(p)
    /\ \A s \in Sandboxes : \A p \in succeed[s] : pod[p] \in Dead

(* The inductive invariant of scaling: every live pod is in the list the   *)
(* pass works with, or will be before the pool is scaled again.            *)
LivePods == {p \in Pods : pod[p] \in Live}

ScaleInv ==
    /\ TypeOK /\ SeenBehind
    /\ PoolMaxRespected
    /\ \A p \in LivePods : p \in expected \/ PodList[p] \in Live
    /\ pc # "idle" => \A p \in LivePods : p \in expected \/ p \in listed

=============================================================================
