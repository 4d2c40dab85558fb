------------------------- MODULE PoolSafetyProofs -------------------------
(***************************************************************************)
(* The allocation is safe, for any number of pods and sandboxes, any       *)
(* capacity, any lag of the pod informer and any failed calls: under the   *)
(* conditions Tame, no pod is ever given to two sandboxes, the in-memory   *)
(* store agrees with the annotations, nothing is deleted under a sandbox   *)
(* that needs it, and no sandbox leaves with unreleased pods.              *)
(***************************************************************************)
EXTENDS PoolAllocationProofs

(* A retired pod stays retired when the pass goes on or ends. *)
LEMMA StaysRetired ==
    ASSUME Advance, NEW p \in Pods, Retired(p), p \notin listed'
    PROVE  Retired(p)'
  BY Zenon DEF Advance, Retired

(* Steps of the kubelet, operators and informers, and the expiry of        *)
(* expectations, leave the controller and the sandboxes alone.             *)
LEMMA WorldInv ==
    ASSUME AllocationInv, TypeOK', SeenBehind', Advance,
           UNCHANGED <<sandbox, store, recovered, pc, passVars>>,
           "evict" \notin Env => UNCHANGED evicting
    PROVE  AllocationInv'
  <1> UNCHANGED <<listed, ready, schedulable, obj, toAllocate, toRelease,
                  succeed, toDelete, supplyCnt, failed>>
    BY Zenon DEF passVars
  <1> USE DEF AllocationInv
  <1>0. \A p \in Pods : Retired(p) => Retired(p)'
    BY StaysRetired, Zenon DEF Retired
  <1>1. ObjectsSane' /\ Guarded' /\ NeverReused' /\ StoreIsBacked'
        /\ FinalizerGuardsRelease' /\ Fresh'
    BY Zenon DEF ObjectsSane, Guarded, NeverReused, StoreIsBacked,
           FinalizerGuardsRelease, Fresh
  <1>2. AllocatedSeen'
    BY <1>0, Zenon DEF AllocatedSeen, TypeOK, SandboxObj, Advance
  <1>3. Covered'
    BY <1>0, Zenon DEF Covered, TypeOK, SandboxObj
  <1>4. ListSane'
    BY <1>0, Zenon DEF ListSane, Synced, TypeOK, SandboxObj, Advance
  <1>5. PlanSane'
    BY <1>0 DEF PlanSane, GivenBack, TypeOK
  <1> QED
    BY <1>1, <1>2, <1>3, <1>4, <1>5, Zenon

(* The pass returns. *)
LEMMA EndPassInv ==
    ASSUME AllocationInv, TypeOK', SeenBehind', Advance, EndPass,
           UNCHANGED <<sandbox, evicting>>,
           StoreIsBacked', Covered', Fresh'
    PROVE  AllocationInv'
  <1> USE DEF AllocationInv
  <1>1. ObjectsSane' /\ Guarded' /\ NeverReused' /\ FinalizerGuardsRelease'
    BY Zenon DEF ObjectsSane, Guarded, NeverReused, FinalizerGuardsRelease
  <1>2. AllocatedSeen'
    BY Zenon DEF AllocatedSeen, TypeOK, SandboxObj, Advance, Retired, EndPass
  <1>3. ListSane' /\ PlanSane'
    BY Zenon DEF ListSane, PlanSane, EndPass
  <1> QED
    BY <1>1, <1>2, <1>3, Zenon

LEMMA InitAllocationInv == Init => AllocationInv
  <1> SUFFICES ASSUME Init PROVE AllocationInv
    BY Zenon
  <1>1. TypeOK /\ SeenBehind
    BY InitScaleInv, Zenon DEF ScaleInv
  <1>2. /\ \A s \in Sandboxes : sandbox[s] = NoObj
        /\ pc = "idle" /\ listed = {} /\ evicting = {} /\ recovered = FALSE
        /\ failed = FALSE
        /\ \A p \in Pods : store[p] = NoSandbox
    BY Zenon DEF Init, EmptyStore
  <1>3. /\ NoObj.phase = "none" /\ NoObj.alloc = {} /\ NoObj.release = {}
        /\ NoObj.released = {} /\ NoObj.fins = {}
    BY Zenon DEF NoObj
  <1>4. ObjectsSane /\ Guarded /\ NeverReused /\ FinalizerGuardsRelease
    BY <1>2, <1>3, Zenon DEF ObjectsSane, Guarded, NeverReused,
          FinalizerGuardsRelease, InPool
  <1>5. AllocatedSeen /\ Covered /\ Fresh /\ StoreIsBacked
    BY <1>2, <1>3, Zenon DEF AllocatedSeen, Covered, Fresh, StoreIsBacked
  <1>6. ListSane /\ PlanSane
    BY <1>2, Zenon DEF ListSane, PlanSane
  <1> QED
    BY <1>1, <1>4, <1>5, <1>6, Zenon DEF AllocationInv

-----------------------------------------------------------------------------
(* Users and the BatchSandbox controller *)

(* What others than the pool controller may do to a sandbox object. *)
Outside(o, q) ==
    /\ q.alloc = o.alloc /\ q.released = o.released /\ q.release \subseteq o.alloc
    /\ InPool(q) => /\ o.release \subseteq q.release
                    /\ InPool(o) \/ (o.phase = "none" /\ o.alloc = {} /\ o.fins = {})
                    /\ "pool" \in o.fins => "pool" \in q.fins
    /\ o.phase # "gone" /\ q.phase # "none"
    /\ o.phase = "terminating" => q.phase \in {"terminating", "gone"}
    /\ q.phase = "detached" => "detach" \in Env
    /\ q.phase = "gone" => InPool(o) /\ "pool" \notin o.fins

(* What users and the BatchSandbox controller do to an object is Outside. *)
LEMMA UserShape ==
    ASSUME TypeOK, ObjectsSane, NEW s \in Sandboxes,
           \/ CreateSandbox(s) \/ ScaleSandbox(s) \/ DeleteSandbox(s)
           \/ AddTaskFinalizer(s) \/ ReleasePod(s) \/ Detach(s)
           \/ RemoveTaskFinalizer(s)
    PROVE  \E q \in SandboxObj : SetSandbox(s, q) /\ Outside(sandbox[s], q)
  <1> DEFINE o == sandbox[s]
  <1>0. /\ o \in SandboxObj
        /\ o.release \subseteq o.alloc /\ o.released \subseteq o.alloc
        /\ o.phase = "none" => o.alloc = {} /\ o.fins = {}
    BY Zenon DEF TypeOK, ObjectsSane
  <1> HIDE DEF o
  <1>1. CASE CreateSandbox(s)
    <2>1. PICK n \in 1..MaxReplicas :
              SetSandbox(s, [NoObj EXCEPT !.phase = "live", !.replicas = n])
      BY <1>1, Zenon DEF CreateSandbox
    <2>2. PICK q : q = [NoObj EXCEPT !.phase = "live", !.replicas = n]
      BY Zenon
    <2>3. /\ q \in SandboxObj
          /\ q.phase = "live" /\ q.alloc = {} /\ q.release = {}
          /\ q.released = {} /\ q.fins = {}
      BY <2>2, CreatePatch, Zenon
    <2>4. o.phase = "none"
      BY <1>1, Zenon DEF CreateSandbox, o
    <2>5. Outside(o, q)
      BY <1>0, <2>3, <2>4, Zenon DEF Outside, InPool
    <2> QED
      BY <2>1, <2>2, <2>3, <2>5, Zenon DEF o
  <1>2. CASE ScaleSandbox(s)
    <2>1. PICK n \in 0..MaxReplicas : SetSandbox(s, [o EXCEPT !.replicas = n])
      BY <1>2, Zenon DEF ScaleSandbox, o
    <2>2. PICK q : q = [o EXCEPT !.replicas = n]
      BY Zenon
    <2>3. /\ q \in SandboxObj
          /\ q.phase = o.phase /\ q.alloc = o.alloc /\ q.release = o.release
          /\ q.released = o.released /\ q.fins = o.fins
      BY <1>0, <2>2, Zenon DEF SandboxObj
    <2>4. o.phase = "live"
      BY <1>2, Zenon DEF ScaleSandbox, o
    <2>5. Outside(o, q)
      BY <1>0, <2>3, <2>4, Zenon DEF Outside, InPool
    <2> QED
      BY <2>1, <2>2, <2>3, <2>5, Zenon DEF o
  <1>3. CASE DeleteSandbox(s)
    <2>1. PICK r : r = [o EXCEPT !.phase = "terminating"]
      BY Zenon
    <2>2. /\ r \in SandboxObj
          /\ r.phase = "terminating" /\ r.alloc = o.alloc /\ r.release = o.release
          /\ r.released = o.released /\ r.fins = o.fins
      BY <1>0, <2>1, Zenon DEF SandboxObj
    <2>3. o.phase = "live" /\ SetSandbox(s, Reap(r))
      BY <1>3, <2>1, Zenon DEF DeleteSandbox, o
    <2>4. Outside(o, Reap(r)) /\ Reap(r) \in SandboxObj
      BY <1>0, <2>2, <2>3, ReapShape, ReapType, Zenon DEF Outside, InPool
    <2> QED
      BY <2>3, <2>4, Zenon DEF o
  <1>4. CASE AddTaskFinalizer(s)
    <2>1. PICK q : q = [o EXCEPT !.fins = @ \cup {"task"}]
      BY Zenon
    <2>2. /\ q \in SandboxObj
          /\ q.phase = o.phase /\ q.alloc = o.alloc /\ q.release = o.release
          /\ q.released = o.released /\ q.fins = o.fins \cup {"task"}
      BY <1>0, <2>1, Zenon DEF SandboxObj
    <2>3. o.phase = "live" /\ SetSandbox(s, q)
      BY <1>4, <2>1, Zenon DEF AddTaskFinalizer, o
    <2>4. Outside(o, q)
      BY <1>0, <2>2, <2>3, Zenon DEF Outside, InPool
    <2> QED
      BY <2>2, <2>3, <2>4, Zenon DEF o
  <1>5. CASE ReleasePod(s)
    <2>1. PICK p \in o.alloc : SetSandbox(s, [o EXCEPT !.release = @ \cup {p}])
      BY <1>5, Zenon DEF ReleasePod, o
    <2>2. PICK q : q = [o EXCEPT !.release = @ \cup {p}]
      BY Zenon
    <2>3. /\ q \in SandboxObj
          /\ q.phase = o.phase /\ q.alloc = o.alloc
          /\ q.release = o.release \cup {p}
          /\ q.released = o.released /\ q.fins = o.fins
      BY <1>0, <2>2, Zenon DEF SandboxObj
    <2>4. InPool(o)
      BY <1>5, Zenon DEF ReleasePod, o
    <2>5. Outside(o, q)
      BY <1>0, <2>3, <2>4, Zenon DEF Outside, InPool
    <2> QED
      BY <2>1, <2>2, <2>3, <2>5, Zenon DEF o
  <1>6. CASE Detach(s)
    <2>1. PICK q : q = [o EXCEPT !.phase = "detached", !.release = {},
                                 !.fins = @ \ {"pool"}]
      BY Zenon
    <2>2. /\ q \in SandboxObj
          /\ q.phase = "detached" /\ q.alloc = o.alloc /\ q.release = {}
          /\ q.released = o.released
      BY <1>0, <2>1, DetachPatch, Zenon
    <2>3. o.phase = "live" /\ SetSandbox(s, q) /\ "detach" \in Env
      BY <1>6, <2>1, Zenon DEF Detach, o
    <2>4. Outside(o, q)
      BY <1>0, <2>2, <2>3, Zenon DEF Outside, InPool
    <2> QED
      BY <2>2, <2>3, <2>4, Zenon DEF o
  <1>7. CASE RemoveTaskFinalizer(s)
    <2>1. PICK r : r = [o EXCEPT !.fins = @ \ {"task"}]
      BY Zenon
    <2>2. /\ r \in SandboxObj
          /\ r.phase = o.phase /\ r.alloc = o.alloc /\ r.release = o.release
          /\ r.released = o.released /\ r.fins = o.fins \ {"task"}
      BY <1>0, <2>1, Zenon DEF SandboxObj
    <2>3. o.phase = "terminating" /\ SetSandbox(s, Reap(r))
      BY <1>7, <2>1, Zenon DEF RemoveTaskFinalizer, o
    <2>4. Outside(o, Reap(r)) /\ Reap(r) \in SandboxObj
      BY <1>0, <2>2, <2>3, ReapShape, ReapType DEF Outside, InPool
    <2> QED
      BY <2>3, <2>4, Zenon DEF o
  <1> QED
    BY <1>1, <1>2, <1>3, <1>4, <1>5, <1>6, <1>7, Zenon

LEMMA UserInv ==
    ASSUME AllocationInv, TypeOK', NEW s \in Sandboxes, NEW q \in SandboxObj,
           SetSandbox(s, q), Outside(sandbox[s], q)
    PROVE  AllocationInv'
  <1> USE DEF AllocationInv
  <1>1. /\ UNCHANGED <<pod, evicting, seen, store, recovered, pc>>
        /\ UNCHANGED <<listed, ready, schedulable, obj, toAllocate, toRelease,
                       succeed, toDelete, supplyCnt, failed>>
        /\ sandbox' = [sandbox EXCEPT ![s] = q]
    BY Zenon DEF SetSandbox, memVars, passVars
  <1>2. /\ sandbox'[s] = q
        /\ \A t \in Sandboxes : t # s => sandbox'[t] = sandbox[t]
    BY <1>1, Zenon DEF TypeOK
  <1>3. \A t \in Sandboxes : /\ sandbox'[t].alloc = sandbox[t].alloc
                             /\ sandbox'[t].released = sandbox[t].released
    BY <1>2, Zenon DEF Outside
  <1>4. SeenBehind'
    BY <1>1, Zenon DEF SeenBehind
  <1>5. ObjectsSane'
    BY <1>2, <1>3, Zenon DEF ObjectsSane, Outside
  <1>6. Guarded'
    BY <1>2, <1>3, Zenon DEF Guarded, Outside
  <1>7. FinalizerGuardsRelease'
    BY <1>2, <1>3, Zenon DEF FinalizerGuardsRelease, Outside, Guarded
  <1>8. NeverReused' /\ StoreIsBacked'
    BY <1>1, <1>3, <1>2 DEF NeverReused, StoreIsBacked, TypeOK
  <1>9. PodList' = PodList /\ \A p \in Pods : Retired(p)' <=> Retired(p)
    BY <1>1, Zenon DEF Retired, PodList
  <1>10. AllocatedSeen'
    BY <1>1, <1>3, <1>9, Zenon DEF AllocatedSeen, TypeOK, SandboxObj
  <1>11. Covered'
    BY <1>1, <1>2, <1>3, <1>9 DEF Covered, TypeOK, SandboxObj, Outside
  <1>12. Fresh'
    BY <1>1, <1>3, Zenon DEF Fresh
  <1>13. ListSane'
    <2>1. ASSUME pc # "idle", NEW t \in Sandboxes
          PROVE  /\ Synced(t)' \/ (pc = "allocate" /\ failed /\ toAllocate[t] = {})
                 /\ obj[t].phase = "terminating"
                       => sandbox'[t].phase \in {"terminating", "gone"}
                 /\ ~InPool(obj[t]) => ~InPool(sandbox'[t]) \/ sandbox'[t].alloc = {}
                 /\ InPool(sandbox'[t]) => obj[t].release \subseteq sandbox'[t].release
      <3>1. /\ Synced(t) \/ (pc = "allocate" /\ failed /\ toAllocate[t] = {})
            /\ obj[t].phase = "terminating"
                  => sandbox[t].phase \in {"terminating", "gone"}
            /\ ~InPool(obj[t]) => ~InPool(sandbox[t]) \/ sandbox[t].alloc = {}
            /\ InPool(sandbox[t]) => obj[t].release \subseteq sandbox[t].release
            /\ obj[t].release \subseteq sandbox[t].alloc
        BY <2>1, Zenon DEF ListSane
      <3>2. CASE t # s
        BY <1>1, <1>2, <3>1, <3>2, Zenon DEF Synced
      <3>3. CASE t = s
        <4>1. sandbox'[t] = q /\ obj'[t] = obj[t]
          BY <1>1, <1>2, <3>3, Zenon
        <4>2. Synced(t) => Synced(t)'
          BY <3>3, <4>1, Zenon DEF Synced, Outside, InPool
        <4>3. obj[t].phase = "terminating" => q.phase \in {"terminating", "gone"}
          BY <3>1, <3>3, Zenon DEF Outside, InPool
        <4>4. ~InPool(obj[t]) => ~InPool(q) \/ q.alloc = {}
          BY <3>1, <3>3, Zenon DEF Outside
        <4>5. InPool(q) => obj[t].release \subseteq q.release
          BY <3>1, <3>3, Zenon DEF Outside
        <4> QED
          BY <3>1, <4>1, <4>2, <4>3, <4>4, <4>5, Zenon
      <3> QED
        BY <3>2, <3>3, Zenon
    <2>2. ASSUME pc # "idle", NEW t \in Sandboxes
          PROVE  /\ sandbox'[t].released \subseteq obj[t].released
                 /\ obj[t].released \subseteq sandbox'[t].alloc
                 /\ \A p \in obj[t].released : Retired(p)'
                 /\ obj[t].release \subseteq sandbox'[t].alloc
      <3>1. obj[t].released \subseteq Pods
        BY Zenon DEF TypeOK, SandboxObj
      <3>2. /\ sandbox[t].released \subseteq obj[t].released
            /\ obj[t].released \subseteq sandbox[t].alloc
            /\ \A p \in obj[t].released : Retired(p)
            /\ obj[t].release \subseteq sandbox[t].alloc
        BY <2>2, Zenon DEF ListSane
      <3> QED
        BY <1>3, <1>9, <3>1, <3>2, Zenon
    <2> QED
      BY <1>1, <1>3, <1>9, <2>1, <2>2, Zenon DEF ListSane
  <1>14. PlanSane'
    <2>1. \A t \in Sandboxes, p \in Pods : GivenBack(t, p) => GivenBack(t, p)'
      BY <1>2, <1>3, Zenon DEF GivenBack, Outside, InPool
    <2> QED
      BY <1>1, <1>3, <1>9, <2>1 DEF PlanSane, TypeOK
  <1> QED
    BY <1>4, <1>5, <1>6, <1>7, <1>8, <1>10, <1>11, <1>12, <1>13, <1>14, Zenon

-----------------------------------------------------------------------------
(* The reconcile pass *)

(* Eviction never meets an allocated pod: the store has it, or nothing is  *)
(* labelled, or nothing is allocated.                                      *)
LEMMA EvictionSpares ==
    ASSUME Tame, AllocationInv, NEW s \in Sandboxes, NEW p \in sandbox[s].alloc,
           p \in evicting, store[p] = NoSandbox
    PROVE  Retired(p)
  <1>1. CASE recovered
    BY <1>1, ConstantsAssumption, Zenon DEF AllocationInv, Covered
  <1>2. CASE ~recovered
    BY <1>2, Zenon DEF AllocationInv, Fresh, Tame
  <1> QED
    BY <1>1, <1>2, Zenon

LEMMA BeginInv ==
    ASSUME Tame, AllocationInv, TypeOK', Begin
    PROVE  AllocationInv'
  <1> USE DEF AllocationInv
  <1>1. /\ UNCHANGED <<sandbox, evicting, seen, store, recovered, failed>>
        /\ obj' = sandbox /\ pc = "idle" /\ pc' = "schedule"
        /\ listed' = {p \in Pods : PodList[p] \in Live}
        /\ schedulable' = listed' \ {p \in listed' \cap evicting : store[p] = NoSandbox}
    BY Zenon DEF Begin, HandleEviction, SandboxList, Tame
  <1>2. PICK D : Terminate(D)
    BY EvictionShape, Zenon DEF Begin
  <1>3. Advance /\ SeenBehind'
    BY <1>1, <1>2, TerminateAdvances, PodsAdvance, Zenon
  <1>4. \A p \in Pods : Retired(p) => Retired(p)'
    BY <1>1, <1>3, StaysRetired, Zenon DEF Retired, Dead, Live
  <1>5. ObjectsSane' /\ Guarded' /\ NeverReused' /\ StoreIsBacked'
        /\ FinalizerGuardsRelease' /\ Fresh'
    BY <1>1, Zenon DEF ObjectsSane, Guarded, NeverReused, StoreIsBacked,
           FinalizerGuardsRelease, Fresh
  <1>6. \A s \in Sandboxes : sandbox[s].alloc \subseteq Pods
                             /\ sandbox[s].released \subseteq Pods
    BY Zenon DEF TypeOK, SandboxObj
  <1>7. AllocatedSeen'
    <2>1. ASSUME NEW s \in Sandboxes, NEW p \in sandbox[s].alloc
          PROVE  PodList'[p] # "none" /\ (p \in listed' \/ PodList'[p] \in Dead)
      <3>1. p \in Pods /\ PodList[p] # "none"
        BY <1>6, Zenon DEF AllocatedSeen
      <3>2. PodList[p] \in Live \/ PodList[p] \in Dead
        BY <3>1, Zenon DEF TypeOK, PodList, PodStates, Live, Dead
      <3> QED
        BY <1>1, <1>3, <3>1, <3>2, Zenon DEF Advance
    <2> QED
      BY <1>1, <1>4, <1>6, <2>1, Zenon DEF AllocatedSeen
  <1>8. Covered'
    BY <1>1, <1>4, <1>6, Zenon DEF Covered
  <1>9. ListSane'
    <2>1. \A p \in listed' : PodList'[p] # "none"
      BY <1>1, <1>3, Zenon DEF Advance, Live
    <2>2. \A s \in Sandboxes : sandbox[s].alloc \cap listed' \subseteq schedulable'
      BY <1>1, EvictionSpares, Zenon DEF Retired, Live, Dead
    <2>3. \A s \in Sandboxes : \A p \in sandbox[s].released : Retired(p)'
      BY <1>4, <1>6, Zenon DEF AllocatedSeen
    <2> QED
      BY <1>1, <2>1, <2>2, <2>3, Zenon DEF ListSane, Synced, ObjectsSane
  <1>10. PlanSane'
    BY <1>1, Zenon DEF PlanSane
  <1> QED
    BY <1>3, <1>5, <1>7, <1>8, <1>9, <1>10, Zenon

LEMMA RetryInv ==
    ASSUME Tame, AllocationInv, TypeOK', Retry
    PROVE  AllocationInv'
  <1> USE DEF AllocationInv
  <1>1. /\ UNCHANGED <<sandbox, evicting, seen, store, recovered, failed, listed,
                       obj, toAllocate, toRelease, succeed>>
        /\ pc = "conflict" /\ pc' = "schedule"
        /\ schedulable' = listed \ {p \in listed \cap evicting : store[p] = NoSandbox}
    BY Zenon DEF Retry, HandleEviction, memVars
  <1>2. PICK D : Terminate(D)
    BY EvictionShape, Zenon DEF Retry
  <1>3. Advance /\ SeenBehind'
    BY <1>1, <1>2, TerminateAdvances, PodsAdvance, Zenon
  <1>4. \A p \in Pods : Retired(p) => Retired(p)'
    BY <1>1, <1>3, StaysRetired, Zenon DEF Retired
  <1>5. ObjectsSane' /\ Guarded' /\ NeverReused' /\ StoreIsBacked'
        /\ FinalizerGuardsRelease' /\ Fresh'
    BY <1>1, Zenon DEF ObjectsSane, Guarded, NeverReused, StoreIsBacked,
           FinalizerGuardsRelease, Fresh
  <1>6. \A s \in Sandboxes : /\ sandbox[s].alloc \subseteq Pods
                             /\ sandbox[s].released \subseteq Pods
                             /\ obj[s].released \subseteq Pods
    BY Zenon DEF TypeOK, SandboxObj
  <1>7. AllocatedSeen' /\ Covered'
    BY <1>1, <1>3, <1>4, <1>6, Zenon DEF AllocatedSeen, Covered, Advance
  <1>8. ListSane'
    <2>1. \A p \in listed' : PodList'[p] # "none"
      BY <1>1, <1>3, Zenon DEF Advance, ListSane, TypeOK
    <2>2. \A s \in Sandboxes : sandbox[s].alloc \cap listed \subseteq schedulable'
      BY <1>1, EvictionSpares, Zenon DEF Retired
    <2>3. \A s \in Sandboxes : \A p \in obj[s].released : Retired(p)'
      BY <1>1, <1>4, <1>6, Zenon DEF ListSane
    <2> QED
      BY <1>1, <2>1, <2>2, <2>3, Zenon DEF ListSane, Synced
  <1>9. PlanSane'
    BY <1>1, Zenon DEF PlanSane
  <1> QED
    BY <1>3, <1>5, <1>7, <1>8, <1>9, Zenon

(* Recovery rebuilds the store from the annotations: an allocated pod is   *)
(* found again under its sandbox, unless it is retired.                    *)
LEMMA RecoverSound ==
    ASSUME Tame, AllocationInv, ~recovered, NEW m \in Recover(sandbox)
    PROVE  /\ \A p \in Pods : m[p] # NoSandbox => p \in sandbox[m[p]].alloc
           /\ \A s \in Sandboxes : \A p \in sandbox[s].alloc :
                 \/ m[p] = s
                 \/ /\ Retired(p)
                    /\ p \in sandbox[s].released \/ ~InPool(sandbox[s])
  <1> DEFINE claims(p) == {s \in Sandboxes : InPool(sandbox[s])
                                             /\ p \in sandbox[s].alloc}
  <1>1. ASSUME NEW p \in Pods
        PROVE  IF claims(p) = {} THEN m[p] = NoSandbox
               ELSE \E last \in claims(p) :
                       m[p] = IF p \in sandbox[last].released
                              THEN NoSandbox ELSE last
    BY Zenon DEF Recover
  <1>2. ASSUME NEW p \in Pods, m[p] # NoSandbox
        PROVE  p \in sandbox[m[p]].alloc
    BY <1>1, <1>2, Zenon
  <1>3. ASSUME NEW s \in Sandboxes, NEW p \in sandbox[s].alloc
        PROVE  \/ m[p] = s
               \/ /\ Retired(p)
                  /\ p \in sandbox[s].released \/ ~InPool(sandbox[s])
    <2>1. p \in Pods
      BY Zenon DEF AllocationInv, TypeOK, SandboxObj
    <2>2. CASE InPool(sandbox[s])
      <3>1. claims(p) = {s}
        BY <2>2, Zenon DEF AllocationInv, NeverReused
      <3>2. m[p] = IF p \in sandbox[s].released THEN NoSandbox ELSE s
        BY <1>1, <2>1, <3>1, Zenon
      <3> QED
        BY <3>2, Zenon DEF AllocationInv, AllocatedSeen
    <2>3. CASE ~InPool(sandbox[s])
      <3>1. sandbox[s].phase \in {"none", "detached", "gone"}
        BY <2>3, Zenon DEF AllocationInv, TypeOK, SandboxObj, InPool
      <3>2. sandbox[s].phase = "gone"
        BY <3>1, Zenon DEF AllocationInv, ObjectsSane, Fresh, Tame
      <3>3. p \in sandbox[s].released
        BY <3>2, Zenon DEF AllocationInv, FinalizerGuardsRelease
      <3> QED
        BY <2>3, <3>3, Zenon DEF AllocationInv, AllocatedSeen
    <2> QED
      BY <2>2, <2>3, Zenon
  <1> QED
    BY <1>2, <1>3, Zenon

LEMMA ScheduleInv ==
    ASSUME Tame, AllocationInv, TypeOK', Schedule
    PROVE  AllocationInv'
  <1> USE DEF AllocationInv
  <1>1. /\ UNCHANGED <<pod, sandbox, evicting, seen, failed, listed, ready,
                       schedulable, obj>>
        /\ pc = "schedule" /\ pc' = "allocate" /\ recovered' = TRUE
        /\ store' \in IF recovered THEN {store} ELSE Recover(sandbox)
        /\ toRelease' = ReleaseRequests(store')
    BY Zenon DEF Schedule, apiVars, SandboxList, Tame
  <1> DEFINE need == [s \in Sandboxes |-> Supplement(obj[s])]
  <1>2. toAllocate' \in PackedSchedules(AvailablePods(store'), need)
    BY Zenon DEF Schedule
  <1>3. PodList' = PodList /\ \A p \in Pods : Retired(p)' <=> Retired(p)
    BY <1>1, Zenon DEF Retired, PodList
  <1>4. /\ \A p \in Pods : store'[p] # NoSandbox => p \in sandbox[store'[p]].alloc
        /\ \A s \in Sandboxes : \A p \in sandbox[s].alloc :
              \/ store'[p] = s
              \/ /\ Retired(p)
                 /\ p \in sandbox[s].released \/ ~InPool(sandbox[s])
    <2>1. CASE recovered
      BY <1>1, <2>1, Zenon DEF Covered, StoreIsBacked
    <2>2. CASE ~recovered
      BY <1>1, <2>2, RecoverSound, Zenon
    <2> QED
      BY <2>1, <2>2, Zenon
  <1>5. \A s \in Sandboxes : sandbox[s].alloc \subseteq Pods
                             /\ sandbox[s].released \subseteq Pods
                             /\ obj[s].released \subseteq Pods
    BY Zenon DEF TypeOK, SandboxObj
  <1>6. StoreIsBacked' /\ Covered'
    BY <1>1, <1>3, <1>4, <1>5, Zenon DEF StoreIsBacked, Covered
  <1>7. SeenBehind' /\ ObjectsSane' /\ Guarded' /\ NeverReused'
        /\ FinalizerGuardsRelease' /\ Fresh'
    BY <1>1, Zenon DEF SeenBehind, ObjectsSane, Guarded, NeverReused,
           FinalizerGuardsRelease, Fresh
  <1>8. AllocatedSeen'
    BY <1>1, <1>3, <1>5, Zenon DEF AllocatedSeen
  <1>9. \A s \in Sandboxes : Synced(s)
    BY <1>1, Zenon DEF ListSane
  <1>10. ListSane'
    <2>1. \A s \in Sandboxes : Synced(s)'
      BY <1>1, <1>9, Zenon DEF Synced
    <2>2. \A s \in Sandboxes : \A p \in obj'[s].released : Retired(p)'
      BY <1>1, <1>3, <1>5, Zenon DEF ListSane
    <2> QED
      BY <1>1, <1>3, <2>1, <2>2, Zenon DEF ListSane
  <1>11. PlanSane'
    <2>1. ASSUME NEW s \in Sandboxes, NEW p \in toAllocate'[s]
          PROVE  /\ p \in schedulable /\ store'[p] = NoSandbox
                 /\ \A t \in Sandboxes : p \notin sandbox[t].alloc
                 /\ \A t \in Sandboxes : t # s => p \notin toAllocate'[t]
      <3>1. p \in AvailablePods(store')
        BY <1>2, Zenon DEF PackedSchedules
      <3>2. p \in schedulable /\ p \in listed /\ p \in Pods
            /\ store'[p] = NoSandbox
        BY <3>1, Zenon DEF AvailablePods, Allocated, TypeOK
      <3>3. \A t \in Sandboxes : p \notin sandbox[t].alloc
        BY <1>4, <3>2, ConstantsAssumption, Zenon DEF Retired
      <3>4. \A t \in Sandboxes : t # s => p \notin toAllocate'[t]
        BY <1>2, Zenon DEF PackedSchedules
      <3> QED
        BY <3>2, <3>3, <3>4, Zenon
    <2>2. ASSUME NEW s \in Sandboxes, NEW p \in toRelease'[s]
          PROVE  GivenBack(s, p)
      <3>1. /\ obj[s].alloc = sandbox[s].alloc
            /\ obj[s].phase = "terminating"
                  => sandbox[s].phase \in {"terminating", "gone"}
            /\ ~InPool(obj[s]) => ~InPool(sandbox[s]) \/ sandbox[s].alloc = {}
            /\ InPool(sandbox[s]) => obj[s].release \subseteq sandbox[s].release
            /\ obj[s].release \subseteq sandbox[s].alloc
        BY <1>1, <1>9, Zenon DEF ListSane, Synced
      <3>2. CASE InPool(obj[s])
        <4>1. p \in ToRelease(obj[s])
          BY <1>1, <3>2, Zenon DEF ReleaseRequests
        <4> QED
          BY <3>1, <4>1, Zenon DEF ToRelease, GivenBack, InPool
      <3>3. CASE ~InPool(obj[s])
        <4>1. store'[p] = s /\ p \in Pods
          BY <1>1, <3>3, Zenon DEF ReleaseRequests
        <4>2. p \in sandbox[s].alloc
          BY <1>4, <4>1, ConstantsAssumption, Zenon
        <4> QED
          BY <3>1, <3>3, <4>2, Zenon DEF GivenBack
      <3> QED
        BY <3>2, <3>3, Zenon
    <2>3. \A s \in Sandboxes, p \in Pods : GivenBack(s, p)' <=> GivenBack(s, p)
      BY <1>1, Zenon DEF GivenBack
    <2>4. \A s \in Sandboxes : toRelease'[s] \subseteq Pods
      BY Zenon DEF TypeOK
    <2>5. ASSUME NEW s \in Sandboxes, obj[s].phase # "live"
          PROVE  toAllocate'[s] = {}
      <3>1. toAllocate'[s] \in SUBSET Pods
        BY Zenon DEF TypeOK
      <3>2. IsFiniteSet(toAllocate'[s]) /\ Cardinality(toAllocate'[s]) \in Nat
        BY <3>1, PodSetsFinite, Zenon
      <3>3. need[s] = 0
        BY <2>5, Zenon DEF Supplement
      <3>4. Cardinality(toAllocate'[s]) <= need[s]
        BY <1>2, Zenon DEF PackedSchedules
      <3>5. Cardinality(toAllocate'[s]) = 0
        BY <3>2, <3>3, <3>4
      <3> QED
        BY <3>2, <3>5, FS_EmptySet, Zenon
    <2> QED
      BY <1>1, <2>1, <2>2, <2>3, <2>4, <2>5, Zenon DEF PlanSane
  <1> QED
    BY <1>6, <1>7, <1>8, <1>10, <1>11, Zenon

-----------------------------------------------------------------------------
(* Writing the allocation of one sandbox, its annotation, its finalizer    *)
(* and the in-memory store, preserves the inductive invariant of the       *)
(* allocation, whether the patch is applied or rolled back.                *)

(* One sandbox is synced: either its annotation, its finalizers and the    *)
(* store all have the new pods, or the store is as before for them.        *)
LEMMA SyncAllocationShape ==
    ASSUME Tame, AllocationInv, NEW s \in Sandboxes, SyncSandboxAllocation(s)
    PROVE  /\ pc = "allocate"
           /\ obj[s].alloc = sandbox[s].alloc
           /\ \E new \in SandboxObj :
                 /\ obj' = [obj EXCEPT ![s] = new]
                 /\ new.phase = obj[s].phase
                 /\ new.alloc = sandbox[s].alloc \cup toAllocate[s]
                 /\ new.release = obj[s].release /\ new.released = obj[s].released
           /\ toAllocate' = [toAllocate EXCEPT ![s] = {}] /\ toAllocate[s] # {}
           /\ UNCHANGED <<pod, evicting, seen, recovered, pc, listed, ready,
                          schedulable, toRelease, succeed, toDelete>>
           /\ \/ /\ failed' = TRUE /\ UNCHANGED sandbox
                 /\ store' = UpdateAllocation(
                                UpdateAllocation(store, s, sandbox[s].alloc
                                                           \cup toAllocate[s]),
                                s, sandbox[s].alloc)
              \/ /\ failed' = failed
                 /\ store' = UpdateAllocation(store, s, sandbox[s].alloc
                                                        \cup toAllocate[s])
                 /\ sandbox[s].phase \in {"live", "terminating", "detached"}
                 /\ \E q \in SandboxObj :
                       /\ sandbox' = [sandbox EXCEPT ![s] = q]
                       /\ q.phase = sandbox[s].phase
                       /\ q.alloc = sandbox[s].alloc \cup toAllocate[s]
                       /\ q.release = sandbox[s].release
                       /\ q.released = sandbox[s].released
                       /\ InPool(q) => "pool" \in q.fins
  <1> DEFINE old   == obj[s]
             new   == PatchAllocation(old, LatestAllocated(old, toAllocate[s]),
                                      old.len + Cardinality(toAllocate[s]),
                                      WithPoolFinalizer(old.fins))
             fins  == IF "pool" \in old.fins THEN sandbox[s].fins ELSE new.fins
             kept  == UpdateAllocation(store, s, new.alloc)
             q     == PatchAllocation(sandbox[s], new.alloc, new.len, fins)
  <1>1. /\ pc = "allocate" /\ toAllocate[s] # {}
        /\ obj' = [obj EXCEPT ![s] = new]
        /\ toAllocate' = [toAllocate EXCEPT ![s] = {}]
        /\ \/ /\ failed' = TRUE /\ UNCHANGED sandbox
              /\ store' = RollBack(kept, s, old.alloc)
           \/ /\ failed' = failed /\ Accepts(sandbox[s], fins)
              /\ store' = kept /\ sandbox' = [sandbox EXCEPT ![s] = q]
        /\ UNCHANGED <<pod, evicting, seen, recovered, pc, listed, ready,
                       schedulable, toRelease, succeed, toDelete>>
    BY Zenon DEF SyncSandboxAllocation, Tame
  <1>2. /\ old \in SandboxObj /\ sandbox[s] \in SandboxObj
        /\ toAllocate[s] \in SUBSET Pods
    BY Zenon DEF AllocationInv, TypeOK
  <1>3. Synced(s)
    BY <1>1, Zenon DEF AllocationInv, ListSane
  <1>4. /\ new \in SandboxObj
        /\ new.phase = old.phase /\ new.alloc = old.alloc \cup toAllocate[s]
        /\ new.release = old.release /\ new.released = old.released
        /\ new.fins = old.fins \cup {"pool"}
    <2>1. /\ old.alloc \cup toAllocate[s] \in SUBSET Pods
          /\ old.len + Cardinality(toAllocate[s]) \in Nat
          /\ old.fins \cup {"pool"} \in SUBSET {"pool", "task"}
      BY <1>2, PodSetsFinite DEF SandboxObj
    <2>2. new = PatchAllocation(old, old.alloc \cup toAllocate[s],
                                old.len + Cardinality(toAllocate[s]),
                                old.fins \cup {"pool"})
      BY Zenon DEF LatestAllocated, WithPoolFinalizer
    <2> HIDE DEF old, new
    <2> QED
      BY <1>2, <2>1, <2>2, AllocPatch
  <1> HIDE DEF new
  <1>5. /\ new.alloc \in SUBSET Pods /\ new.len \in Nat
        /\ fins \in SUBSET {"pool", "task"}
    BY <1>2, <1>4, Zenon DEF SandboxObj
  <1>6. /\ q \in SandboxObj /\ q.phase = sandbox[s].phase
        /\ q.alloc = new.alloc /\ q.release = sandbox[s].release
        /\ q.released = sandbox[s].released /\ q.fins = fins
    <2> DEFINE o == sandbox[s]
    <2>1. q = PatchAllocation(o, new.alloc, new.len, fins)
      BY Zenon
    <2>2. o \in SandboxObj
      BY <1>2, Zenon
    <2> HIDE DEF fins, q, o
    <2>3. /\ q \in SandboxObj /\ q.phase = o.phase
          /\ q.alloc = new.alloc /\ q.release = o.release
          /\ q.released = o.released /\ q.fins = fins
      BY <1>5, <2>1, <2>2, AllocPatch
    <2> QED
      BY <2>3, Zenon DEF o
  <1> HIDE DEF q
  <1>7. new.alloc = sandbox[s].alloc \cup toAllocate[s]
    BY <1>3, <1>4, Zenon DEF Synced
  <1>8. InPool(q) => "pool" \in q.fins
    BY <1>3, <1>4, <1>6, Zenon DEF Synced, InPool
  <1>9. Accepts(sandbox[s], fins)
          => sandbox[s].phase \in {"live", "terminating", "detached"}
    BY Zenon DEF Accepts, Exists
  <1>10. RollBack(kept, s, old.alloc)
           = UpdateAllocation(UpdateAllocation(store, s, sandbox[s].alloc
                                                         \cup toAllocate[s]),
                              s, sandbox[s].alloc)
    BY <1>3, <1>7, Zenon DEF RollBack, Synced
  <1> HIDE DEF fins
  <1>11. \E r \in SandboxObj :
            /\ obj' = [obj EXCEPT ![s] = r]
            /\ r.phase = obj[s].phase
            /\ r.alloc = sandbox[s].alloc \cup toAllocate[s]
            /\ r.release = obj[s].release /\ r.released = obj[s].released
    BY <1>1, <1>4, <1>7, Zenon
  <1>12. CASE failed' = TRUE /\ UNCHANGED sandbox
              /\ store' = RollBack(kept, s, old.alloc)
    BY <1>1, <1>3, <1>10, <1>11, <1>12, Zenon DEF Synced
  <1>13. CASE /\ failed' = failed /\ Accepts(sandbox[s], fins)
              /\ store' = kept /\ sandbox' = [sandbox EXCEPT ![s] = q]
    BY <1>1, <1>3, <1>6, <1>7, <1>8, <1>9, <1>11, <1>13, Zenon DEF Synced
  <1> QED
    BY <1>1, <1>12, <1>13, Zenon

LEMMA SyncAllocationInv ==
    ASSUME Tame, AllocationInv, TypeOK', NEW s \in Sandboxes,
           SyncSandboxAllocation(s)
    PROVE  AllocationInv'
  <1> USE DEF AllocationInv
  <1> DEFINE A == sandbox[s].alloc
             N == sandbox[s].alloc \cup toAllocate[s]
  <1>1. /\ pc = "allocate" /\ obj[s].alloc = A
        /\ toAllocate' = [toAllocate EXCEPT ![s] = {}] /\ toAllocate[s] # {}
        /\ UNCHANGED <<pod, evicting, seen, recovered, pc, listed, ready,
                       schedulable, toRelease, succeed, toDelete>>
    BY SyncAllocationShape, Zenon
  <1>2. PICK new \in SandboxObj :
                 /\ obj' = [obj EXCEPT ![s] = new]
                 /\ new.phase = obj[s].phase /\ new.alloc = N
                 /\ new.release = obj[s].release /\ new.released = obj[s].released
    BY SyncAllocationShape, Zenon
  <1>3. /\ obj'[s] = new /\ toAllocate'[s] = {}
        /\ \A t \in Sandboxes : t # s => /\ obj'[t] = obj[t]
                                         /\ toAllocate'[t] = toAllocate[t]
    BY <1>1, <1>2, Zenon DEF TypeOK
  <1>4. PodList' = PodList /\ \A p \in Pods : Retired(p)' <=> Retired(p)
    BY <1>1, Zenon DEF Retired, PodList
  <1>5. \A t \in Sandboxes : /\ sandbox[t].alloc \subseteq Pods
                             /\ sandbox[t].released \subseteq Pods
                             /\ obj[t].released \subseteq Pods
                             /\ toAllocate[t] \subseteq Pods
                             /\ toRelease[t] \subseteq Pods
    BY Zenon DEF TypeOK, SandboxObj
  <1>6. ASSUME NEW p \in N, NEW t \in Sandboxes, t # s
        PROVE  p \notin sandbox[t].alloc /\ store[p] # t /\ p \notin toAllocate[t]
    <2>1. CASE p \in A
      BY <1>1, <1>5, <1>6, <2>1, ConstantsAssumption
         DEF NeverReused, StoreIsBacked, PlanSane
    <2>2. CASE p \in toAllocate[s]
      BY <1>1, <1>6, <2>2, ConstantsAssumption, Zenon DEF PlanSane
    <2> QED
      BY <2>1, <2>2, Zenon
  <1>7. recovered
    BY <1>1, Zenon DEF PlanSane
  <1>8. CASE /\ failed' = TRUE /\ UNCHANGED sandbox
             /\ store' = UpdateAllocation(UpdateAllocation(store, s, N), s, A)
    <2>1. \A p \in Pods : store'[p] = IF p \in A THEN s
                                      ELSE IF p \in N \/ store[p] = s
                                      THEN NoSandbox ELSE store[p]
      BY <1>8, ConstantsAssumption, Zenon DEF UpdateAllocation
    <2>2. SeenBehind' /\ ObjectsSane' /\ Guarded' /\ NeverReused'
          /\ FinalizerGuardsRelease' /\ Fresh'
      BY <1>1, <1>8, Zenon DEF SeenBehind, ObjectsSane, Guarded, NeverReused,
           FinalizerGuardsRelease, Fresh
    <2>3. StoreIsBacked'
      BY <1>8, <2>1, Zenon DEF StoreIsBacked
    <2>4. Covered'
      <3>1. ASSUME NEW t \in Sandboxes, NEW p \in sandbox[t].alloc
            PROVE  \/ store'[p] = t
                   \/ /\ Retired(p)
                      /\ p \in sandbox[t].released \/ ~InPool(sandbox[t])
        <4>1. CASE t = s
          BY <1>5, <2>1, <4>1, Zenon
        <4>2. CASE t # s
          <5>1. p \notin N
            BY <1>6, <4>2, Zenon
          <5> QED
            BY <1>5, <1>7, <2>1, <4>2, <5>1, Zenon DEF Covered
        <4> QED
          BY <4>1, <4>2, Zenon
      <3> QED
        BY <1>4, <1>5, <1>8, <3>1, Zenon DEF Covered
    <2>5. AllocatedSeen'
      BY <1>1, <1>4, <1>5, <1>8, Zenon DEF AllocatedSeen
    <2>6. ListSane'
      <3>1. ASSUME NEW t \in Sandboxes
            PROVE  /\ Synced(t)' \/ toAllocate'[t] = {}
                   /\ sandbox'[t].released \subseteq obj'[t].released
                   /\ obj'[t].released \subseteq sandbox'[t].alloc
                   /\ \A p \in obj'[t].released : Retired(p)'
                   /\ obj'[t].phase = "terminating"
                         => sandbox'[t].phase \in {"terminating", "gone"}
                   /\ ~InPool(obj'[t]) => ~InPool(sandbox'[t]) \/ sandbox'[t].alloc = {}
                   /\ InPool(sandbox'[t]) => obj'[t].release \subseteq sandbox'[t].release
                   /\ obj'[t].release \subseteq sandbox'[t].alloc
        <4>1. /\ Synced(t) \/ toAllocate[t] = {}
              /\ sandbox[t].released \subseteq obj[t].released
              /\ obj[t].released \subseteq sandbox[t].alloc
              /\ \A p \in obj[t].released : Retired(p)
              /\ obj[t].phase = "terminating"
                    => sandbox[t].phase \in {"terminating", "gone"}
              /\ ~InPool(obj[t]) => ~InPool(sandbox[t]) \/ sandbox[t].alloc = {}
              /\ InPool(sandbox[t]) => obj[t].release \subseteq sandbox[t].release
              /\ obj[t].release \subseteq sandbox[t].alloc
          BY <1>1, Zenon DEF ListSane
        <4>2. CASE t # s
          BY <1>3, <1>4, <1>5, <1>8, <4>1, <4>2, Zenon DEF Synced
        <4>3. CASE t = s
          BY <1>2, <1>3, <1>4, <1>5, <1>8, <4>1, <4>3 DEF InPool
        <4> QED
          BY <4>2, <4>3, Zenon
      <3> QED
        BY <1>1, <1>4, <1>8, <3>1 DEF ListSane
    <2>7. PlanSane'
      <3>1. ASSUME NEW t \in Sandboxes, NEW p \in toAllocate'[t]
            PROVE  t # s /\ p \in toAllocate[t] /\ p \notin N /\ p \in Pods
        BY <1>3, <1>5, <1>6, <3>1
      <3>2. \A t \in Sandboxes, p \in Pods : GivenBack(t, p)' <=> GivenBack(t, p)
        BY <1>8, Zenon DEF GivenBack
      <3>3. ASSUME NEW t \in Sandboxes, NEW p \in toAllocate'[t]
            PROVE  /\ p \in schedulable' /\ store'[p] = NoSandbox
                   /\ \A u \in Sandboxes : p \notin sandbox'[u].alloc
                   /\ \A u \in Sandboxes : u # t => p \notin toAllocate'[u]
                   /\ obj'[t].phase = "live"
        <4>1. /\ p \in schedulable /\ store[p] = NoSandbox
              /\ \A u \in Sandboxes : p \notin sandbox[u].alloc
              /\ \A u \in Sandboxes : u # t => p \notin toAllocate[u]
              /\ obj[t].phase = "live"
          BY <1>1, <3>1, Zenon DEF PlanSane
        <4> QED
          BY <1>1, <1>3, <1>8, <2>1, <3>1, <4>1, Zenon
      <3> QED
        BY <1>1, <1>5, <3>2, <3>3 DEF PlanSane
    <2> QED
      BY <2>2, <2>3, <2>4, <2>5, <2>6, <2>7, Zenon
  <1>9. CASE /\ failed' = failed
             /\ store' = UpdateAllocation(store, s, N)
             /\ sandbox[s].phase \in {"live", "terminating", "detached"}
             /\ \E q \in SandboxObj :
                   /\ sandbox' = [sandbox EXCEPT ![s] = q]
                   /\ q.phase = sandbox[s].phase /\ q.alloc = N
                   /\ q.release = sandbox[s].release
                   /\ q.released = sandbox[s].released
                   /\ InPool(q) => "pool" \in q.fins
    <2>0. PICK q \in SandboxObj :
                   /\ sandbox' = [sandbox EXCEPT ![s] = q]
                   /\ q.phase = sandbox[s].phase /\ q.alloc = N
                   /\ q.release = sandbox[s].release
                   /\ q.released = sandbox[s].released
                   /\ InPool(q) => "pool" \in q.fins
      BY <1>9, Zenon
    <2>1. \A p \in Pods : store'[p] = IF p \in N THEN s
                                      ELSE IF store[p] = s
                                      THEN NoSandbox ELSE store[p]
      BY <1>9, ConstantsAssumption, Zenon DEF UpdateAllocation
    <2>2. /\ sandbox'[s] = q
          /\ \A t \in Sandboxes : t # s => sandbox'[t] = sandbox[t]
      BY <2>0, Zenon DEF TypeOK
    <2>3. \A t \in Sandboxes : /\ sandbox[t].alloc \subseteq sandbox'[t].alloc
                               /\ sandbox'[t].released = sandbox[t].released
                               /\ sandbox'[t].release = sandbox[t].release
                               /\ sandbox'[t].phase = sandbox[t].phase
      BY <2>0, <2>2, Zenon
    <2>4. SeenBehind' /\ Fresh'
      BY <1>1, <1>7, Zenon DEF SeenBehind, Fresh
    <2>5. ObjectsSane'
      BY <1>9, <2>0, <2>2, <2>3 DEF ObjectsSane
    <2>6. Guarded' /\ FinalizerGuardsRelease'
      BY <1>9, <2>0, <2>2, Zenon DEF Guarded, FinalizerGuardsRelease
    <2>7. NeverReused'
      BY <1>6, <2>0, <2>2 DEF NeverReused
    <2>8. StoreIsBacked'
      BY <2>0, <2>1, <2>2 DEF StoreIsBacked, TypeOK
    <2>9. Covered'
      <3>1. ASSUME NEW t \in Sandboxes, NEW p \in sandbox'[t].alloc
            PROVE  \/ store'[p] = t
                   \/ /\ Retired(p)
                      /\ p \in sandbox[t].released \/ ~InPool(sandbox[t])
        <4>1. CASE t = s
          BY <1>5, <2>0, <2>1, <2>2, <4>1, Zenon
        <4>2. CASE t # s
          <5>1. p \notin N /\ p \in sandbox[t].alloc
            BY <1>6, <2>2, <3>1, <4>2, Zenon
          <5> QED
            BY <1>5, <1>7, <2>1, <4>2, <5>1, Zenon DEF Covered
        <4> QED
          BY <4>1, <4>2, Zenon
      <3>2. \A t \in Sandboxes : sandbox'[t].alloc \subseteq Pods
        BY <1>5, <2>0, <2>2, Zenon
      <3> QED
        BY <1>4, <2>3, <3>1, <3>2, Zenon DEF Covered, InPool
    <2>10. \A p \in toAllocate[s] : p \in schedulable /\ p \in listed
      BY <1>1, Zenon DEF PlanSane, TypeOK
    <2>11. AllocatedSeen'
      <3>1. ASSUME NEW t \in Sandboxes, NEW p \in sandbox'[t].alloc
            PROVE  /\ PodList[p] # "none"
                   /\ pc # "idle" => p \in listed \/ PodList[p] \in Dead
        <4>1. CASE p \in sandbox[t].alloc
          BY <4>1, Zenon DEF AllocatedSeen
        <4>2. CASE p \notin sandbox[t].alloc
          <5>1. p \in toAllocate[s]
            BY <2>0, <2>2, <3>1, <4>2, Zenon
          <5> QED
            BY <2>10, <5>1, Zenon DEF ListSane
        <4> QED
          BY <4>1, <4>2, Zenon
      <3> QED
        BY <1>1, <1>4, <1>5, <2>3, <3>1, Zenon DEF AllocatedSeen
    <2>12. ListSane'
      <3>1. ASSUME NEW t \in Sandboxes
            PROVE  /\ Synced(t)' \/ (failed' /\ toAllocate'[t] = {})
                   /\ sandbox'[t].released \subseteq obj'[t].released
                   /\ obj'[t].released \subseteq sandbox'[t].alloc
                   /\ \A p \in obj'[t].released : Retired(p)'
                   /\ obj'[t].phase = "terminating"
                         => sandbox'[t].phase \in {"terminating", "gone"}
                   /\ ~InPool(obj'[t]) => ~InPool(sandbox'[t]) \/ sandbox'[t].alloc = {}
                   /\ InPool(sandbox'[t]) => obj'[t].release \subseteq sandbox'[t].release
                   /\ obj'[t].release \subseteq sandbox'[t].alloc
        <4>1. /\ Synced(t) \/ (failed /\ toAllocate[t] = {})
              /\ sandbox[t].released \subseteq obj[t].released
              /\ obj[t].released \subseteq sandbox[t].alloc
              /\ \A p \in obj[t].released : Retired(p)
              /\ obj[t].phase = "terminating"
                    => sandbox[t].phase \in {"terminating", "gone"}
              /\ ~InPool(obj[t]) => ~InPool(sandbox[t]) \/ sandbox[t].alloc = {}
              /\ InPool(sandbox[t]) => obj[t].release \subseteq sandbox[t].release
              /\ obj[t].release \subseteq sandbox[t].alloc
          BY <1>1, Zenon DEF ListSane
        <4>2. CASE t # s
          BY <1>3, <1>4, <1>5, <1>9, <2>2, <4>1, <4>2, Zenon DEF Synced
        <4>3. CASE t = s
          <5>1. Synced(t)'
            <6>1. /\ obj'[t].alloc = sandbox'[t].alloc
                  /\ sandbox'[t].phase \in {"live", "terminating", "detached"}
                  /\ InPool(sandbox'[t]) => "pool" \in sandbox'[t].fins
              <7>1. sandbox'[t] = q /\ obj'[t] = new
                BY <1>3, <2>2, <4>3, Zenon
              <7>2. q.phase \in {"live", "terminating", "detached"}
                BY <1>9, <2>0, Zenon
              <7>3. new.alloc = q.alloc /\ (InPool(q) => "pool" \in q.fins)
                BY <1>2, <2>0, Zenon
              <7> QED
                BY <7>1, <7>2, <7>3, Zenon
            <6> QED
              BY <6>1, Zenon DEF Synced, InPool
          <5>2. InPool(obj'[t])
            BY <1>1, <1>2, <1>3, <4>3 DEF PlanSane, InPool
          <5> QED
            BY <1>2, <1>3, <1>4, <1>5, <2>0, <2>2, <4>1, <4>3, <5>1, <5>2
               DEF InPool
        <4> QED
          BY <4>2, <4>3, Zenon
      <3>2. \A t \in Sandboxes : sandbox'[t].alloc \cap listed \subseteq schedulable
        BY <1>1, <2>0, <2>2, <2>10 DEF ListSane
      <3> QED
        BY <1>1, <1>4, <1>9, <3>1, <3>2 DEF ListSane
    <2>13. PlanSane'
      <3>1. ASSUME NEW t \in Sandboxes, NEW p \in toAllocate'[t]
            PROVE  t # s /\ p \in toAllocate[t] /\ p \notin N /\ p \in Pods
        BY <1>3, <1>5, <1>6, <3>1
      <3>2. \A t \in Sandboxes, p \in Pods : GivenBack(t, p) => GivenBack(t, p)'
        BY <2>3, Zenon DEF GivenBack, InPool
      <3>3. ASSUME NEW t \in Sandboxes, NEW p \in toAllocate'[t]
            PROVE  /\ p \in schedulable' /\ store'[p] = NoSandbox
                   /\ \A u \in Sandboxes : p \notin sandbox'[u].alloc
                   /\ \A u \in Sandboxes : u # t => p \notin toAllocate'[u]
                   /\ obj'[t].phase = "live"
        <4>1. /\ p \in schedulable /\ store[p] = NoSandbox
              /\ \A u \in Sandboxes : p \notin sandbox[u].alloc
              /\ \A u \in Sandboxes : u # t => p \notin toAllocate[u]
              /\ obj[t].phase = "live"
          BY <1>1, <3>1, Zenon DEF PlanSane
        <4> QED
          BY <1>1, <1>3, <2>0, <2>1, <2>2, <3>1, <4>1, ConstantsAssumption
      <3> QED
        BY <1>1, <1>5, <3>2, <3>3, Zenon DEF PlanSane
    <2> QED
      BY <2>4, <2>5, <2>6, <2>7, <2>8, <2>9, <2>11, <2>12, <2>13, Zenon
  <1> QED
    BY <1>8, <1>9, SyncAllocationShape, Zenon

=============================================================================
