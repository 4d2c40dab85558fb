--------------------------- MODULE PoolTheorems ---------------------------
(***************************************************************************)
(* The second half of the pass, from recycling to scaling, preserves the   *)
(* inductive invariant of the allocation, and with it the safety           *)
(* properties of the pool controller hold for any number of pods and       *)
(* sandboxes under the conditions of Tame.                                 *)
(***************************************************************************)
EXTENDS PoolSafetyProofs

(* Under the Delete policy only a pod the pass did not list is recycled    *)
(* with success; the others are to be deleted.                             *)
LEMMA RecycleInv ==
    ASSUME Tame, AllocationInv, TypeOK', DoRecycle
    PROVE  AllocationInv'
  <1> USE DEF AllocationInv
  <1>1. /\ UNCHANGED <<pod, evicting, sandbox, seen, store, recovered>>
        /\ pc = "allocate"
    BY Zenon DEF DoRecycle, apiVars, memVars
  <1>2. SeenBehind' /\ Advance
    BY <1>1, PodsAdvance, Zenon
  <1>3. PodList' = PodList
    BY <1>1, Zenon DEF PodList
  <1>4. StoreIsBacked' /\ Fresh'
    BY <1>1, Zenon DEF StoreIsBacked, Fresh
  <1>5. CASE failed
    <2>1. EndPass
      BY <1>5, Zenon DEF DoRecycle
    <2>2. \A p \in Pods : Retired(p) => Retired(p)'
      BY <1>2, <2>1, StaysRetired, Zenon DEF EndPass
    <2>3. Covered'
      BY <1>1, <2>2 DEF Covered, TypeOK, SandboxObj
    <2> QED
      BY <1>1, <1>2, <1>4, <2>1, <2>3, EndPassInv, Zenon
  <1>6. CASE ~failed
    <2>1. PICK res \in [UNION {toRelease[s] : s \in Sandboxes} ->
                          {"succeeded", "recycling", "delete", "error"}] :
            /\ \A p \in DOMAIN res : res[p] \in RecycleResults(p)
            /\ succeed' = [s \in Sandboxes |->
                             {p \in toRelease[s] : res[p] = "succeeded"}]
            /\ toDelete' = {p \in DOMAIN res : res[p] = "delete"}
      BY <1>6, Zenon DEF DoRecycle
    <2>2. /\ pc' = "release" /\ toRelease' = NoPods
          /\ UNCHANGED <<listed, ready, schedulable, obj, toAllocate>>
      BY <1>6, Zenon DEF DoRecycle
    <2>3. \A p \in Pods : Retired(p)' <=> Retired(p)
      BY <1>3, <2>2, Zenon DEF Retired
    <2>4. \A t \in Sandboxes, p \in Pods : GivenBack(t, p)' <=> GivenBack(t, p)
      BY <1>1, Zenon DEF GivenBack
    <2>5. \A t \in Sandboxes : \A p \in toRelease[t] : GivenBack(t, p) /\ p \in Pods
      BY <1>1, Zenon DEF PlanSane, TypeOK
    <2>6. ObjectsSane' /\ Guarded' /\ NeverReused' /\ FinalizerGuardsRelease'
      BY <1>1, Zenon DEF ObjectsSane, Guarded, NeverReused, FinalizerGuardsRelease
    <2>7. AllocatedSeen'
      BY <1>1, <1>3, <2>2, <2>3 DEF AllocatedSeen, TypeOK, SandboxObj
    <2>8. Covered'
      BY <1>1, <2>3 DEF Covered, TypeOK, SandboxObj
    <2>9. ListSane'
      BY <1>1, <1>3, <1>6, <2>2, <2>3 DEF ListSane, Synced, TypeOK, SandboxObj
    <2>10. PlanSane'
      <3>1. ASSUME NEW t \in Sandboxes, NEW p \in succeed'[t]
            PROVE  Retired(p) /\ GivenBack(t, p) /\ p \in Pods
        <4>1. p \in toRelease[t] /\ res[p] = "succeeded" /\ p \in DOMAIN res
          BY <2>1, Zenon
        <4>2. p \notin schedulable
          BY <2>1, <4>1, Zenon DEF RecycleResults, Tame
        <4>3. p \in sandbox[t].alloc
          BY <2>5, <4>1, Zenon DEF GivenBack
        <4>4. p \notin listed
          BY <1>1, <4>2, <4>3, Zenon DEF ListSane
        <4> QED
          BY <1>1, <2>5, <4>1, <4>3, <4>4, Zenon DEF AllocatedSeen, Retired
      <3>2. ASSUME NEW p \in toDelete'
            PROVE  \E t \in Sandboxes : GivenBack(t, p) /\ p \in Pods
        BY <2>1, <2>5, Zenon
      <3> QED
        BY <1>1, <2>2, <2>3, <2>4, <3>1, <3>2 DEF PlanSane
    <2> QED
      BY <1>2, <1>4, <2>6, <2>7, <2>8, <2>9, <2>10, Zenon
  <1> QED
    BY <1>5, <1>6, Zenon

(* The end of doRelease: the pods left in succeed belong to sandboxes that *)
(* are not in the pool any more.                                           *)
LEMMA ReleaseDoneInv ==
    ASSUME Tame, AllocationInv, TypeOK', ReleaseDone
    PROVE  AllocationInv'
  <1> USE DEF AllocationInv
  <1> DEFINE freed == UNION {succeed[s] : s \in Sandboxes}
  <1>1. /\ UNCHANGED <<pod, evicting, sandbox, seen, recovered>>
        /\ pc = "release" /\ recovered
        /\ store' = ReleaseAllocation(store, freed)
    BY Zenon DEF ReleaseDone, apiVars, PlanSane
  <1>2. SeenBehind' /\ Advance
    BY <1>1, PodsAdvance, Zenon
  <1>3. PodList' = PodList
    BY <1>1, Zenon DEF PodList
  <1>4. \A p \in Pods : store'[p] = IF p \in freed THEN NoSandbox ELSE store[p]
    BY <1>1, Zenon DEF ReleaseAllocation
  <1>5. StoreIsBacked' /\ Fresh'
    BY <1>1, <1>4, Zenon DEF StoreIsBacked, Fresh
  <1>6. ASSUME NEW p \in freed, NEW t \in Sandboxes, p \in sandbox[t].alloc
        PROVE  Retired(p) /\ ~InPool(sandbox[t])
    <2>1. PICK s \in Sandboxes : p \in succeed[s]
      BY Zenon
    <2>2. Retired(p) /\ p \in sandbox[s].alloc
      BY <1>1, <2>1, Zenon DEF PlanSane, GivenBack
    <2>3. s = t
      BY <1>6, <2>2, Zenon DEF NeverReused
    <2>4. ~InPool(obj[s])
      BY <2>1, Zenon DEF ReleaseDone
    <2> QED
      BY <1>1, <2>2, <2>3, <2>4, Zenon DEF ListSane
  <1>7. ASSUME NEW t \in Sandboxes, NEW p \in sandbox[t].alloc
        PROVE  \/ store'[p] = t
               \/ /\ Retired(p)
                  /\ p \in sandbox[t].released \/ ~InPool(sandbox[t])
    <2>1. p \in Pods
      BY Zenon DEF TypeOK, SandboxObj
    <2>2. CASE p \in freed
      BY <1>6, <2>2, Zenon
    <2>3. CASE p \notin freed
      BY <1>1, <1>4, <2>1, <2>3, Zenon DEF Covered
    <2> QED
      BY <2>2, <2>3, Zenon
  <1>8. CASE failed
    <2>1. EndPass
      BY <1>8, Zenon DEF ReleaseDone
    <2>2. \A p \in Pods : Retired(p) => Retired(p)'
      BY <1>2, <2>1, StaysRetired, Zenon DEF EndPass
    <2>3. Covered'
      BY <1>1, <1>7, <2>2, ZenonT(30) DEF Covered, TypeOK, SandboxObj
    <2> QED
      BY <1>1, <1>2, <1>5, <2>1, <2>3, EndPassInv, Zenon
  <1>9. CASE ~failed
    <2>1. /\ pc' = "scale" /\ succeed' = NoPods
          /\ UNCHANGED <<listed, ready, schedulable, obj, toAllocate,
                         toRelease, toDelete, failed>>
      BY <1>9, Zenon DEF ReleaseDone
    <2>2. \A p \in Pods : Retired(p)' <=> Retired(p)
      BY <1>3, <2>1, Zenon DEF Retired
    <2>3. ObjectsSane' /\ Guarded' /\ NeverReused' /\ FinalizerGuardsRelease'
      BY <1>1, Zenon DEF ObjectsSane, Guarded, NeverReused, FinalizerGuardsRelease
    <2>4. AllocatedSeen'
      BY <1>1, <1>3, <2>1, <2>2 DEF AllocatedSeen, TypeOK, SandboxObj
    <2>5. Covered'
      BY <1>1, <1>7, <2>2, ZenonT(30) DEF Covered, TypeOK, SandboxObj
    <2>6. ListSane'
      BY <1>1, <1>3, <1>9, <2>1, <2>2 DEF ListSane, Synced, TypeOK, SandboxObj
    <2>7. PlanSane'
      BY <1>1, <2>1, Zenon DEF PlanSane, GivenBack
    <2> QED
      BY <1>2, <1>5, <2>3, <2>4, <2>5, <2>6, <2>7, Zenon
  <1> QED
    BY <1>8, <1>9, Zenon

(* One sandbox is synced after recycling: either its annotation names all  *)
(* its released pods and the store has none of them, or neither changed.   *)
LEMMA SyncReleasedShape ==
    ASSUME Tame, AllocationInv, NEW s \in Sandboxes, SyncSandboxReleased(s)
    PROVE  LET all == obj[s].released \cup succeed[s] IN
           /\ pc = "release" /\ InPool(obj[s])
           /\ \E new \in SandboxObj :
                 /\ obj' = [obj EXCEPT ![s] = new]
                 /\ new.phase = obj[s].phase /\ new.alloc = obj[s].alloc
                 /\ new.release = obj[s].release /\ new.released = all
                 /\ "pool" \in new.fins =>
                       /\ "pool" \in obj[s].fins
                       /\ ~(obj[s].phase = "terminating" /\ obj[s].alloc \subseteq all)
           /\ succeed' = [succeed EXCEPT ![s] = {}]
           /\ UNCHANGED <<pod, evicting, seen, recovered, pc, listed, ready,
                          schedulable, toAllocate, toRelease, toDelete>>
           /\ \/ UNCHANGED <<sandbox, store>>
              \/ /\ store' = ReleaseAllocation(store, all)
                 /\ Exists(sandbox[s])
                 /\ \E q \in SandboxObj :
                       /\ sandbox' = [sandbox EXCEPT ![s] = Reap(q)]
                       /\ q.phase = sandbox[s].phase /\ q.alloc = sandbox[s].alloc
                       /\ q.release = sandbox[s].release /\ q.released = all
                       /\ \/ q.fins = sandbox[s].fins
                          \/ /\ obj[s].phase = "terminating"
                             /\ obj[s].alloc \subseteq all
  <1> DEFINE old  == obj[s]
             all  == old.released \cup succeed[s]
             drop == old.phase = "terminating" /\ old.alloc \subseteq all
             kept == IF drop THEN old.fins \ {"pool"} ELSE old.fins
             new  == PatchReleased(old, all, kept)
             fins == IF drop /\ "pool" \in old.fins THEN new.fins
                     ELSE sandbox[s].fins
             q    == PatchReleased(sandbox[s], all, fins)
  <1>1. /\ pc = "release" /\ InPool(old)
        /\ obj' = [obj EXCEPT ![s] = new]
        /\ succeed' = [succeed EXCEPT ![s] = {}]
        /\ \/ UNCHANGED <<sandbox, store>>
           \/ /\ Accepts(sandbox[s], fins)
              /\ store' = ReleaseAllocation(store, all)
              /\ sandbox' = [sandbox EXCEPT ![s] = Reap(q)]
        /\ UNCHANGED <<pod, evicting, seen, recovered, pc, listed, ready,
                       schedulable, toAllocate, toRelease, toDelete>>
    BY Zenon DEF SyncSandboxReleased, Tame
  <1>2. /\ old \in SandboxObj /\ sandbox[s] \in SandboxObj /\ all \in SUBSET Pods
    BY Zenon DEF AllocationInv, TypeOK, SandboxObj
  <1>3. kept \in SUBSET {"pool", "task"}
    BY <1>2, Zenon DEF SandboxObj
  <1>4. /\ new \in SandboxObj /\ new.phase = old.phase /\ new.alloc = old.alloc
        /\ new.release = old.release /\ new.released = all /\ new.fins = kept
    <2> HIDE DEF old, all, kept
    <2> QED
      BY <1>2, <1>3, ReleasePatch
  <1> HIDE DEF new
  <1>5. fins \in SUBSET {"pool", "task"}
    BY <1>2, <1>4, Zenon DEF SandboxObj
  <1>6. /\ q \in SandboxObj /\ q.phase = sandbox[s].phase
        /\ q.alloc = sandbox[s].alloc /\ q.release = sandbox[s].release
        /\ q.released = all /\ q.fins = fins
    <2> DEFINE o == sandbox[s]
    <2>1. q = PatchReleased(o, all, fins)
      BY Zenon
    <2>2. o \in SandboxObj
      BY <1>2, Zenon
    <2> HIDE DEF q, o, fins, all
    <2>3. /\ q \in SandboxObj /\ q.phase = o.phase /\ q.alloc = o.alloc
          /\ q.release = o.release /\ q.released = all /\ q.fins = fins
      BY <1>2, <1>5, <2>1, <2>2, ReleasePatch
    <2> QED
      BY <2>3, Zenon DEF o
  <1>7. q.fins = sandbox[s].fins \/ drop
    BY <1>6, Zenon
  <1>8. "pool" \in new.fins => "pool" \in old.fins /\ ~drop
    BY <1>4, Zenon
  <1> HIDE DEF q, fins
  <1>9. Accepts(sandbox[s], fins) => Exists(sandbox[s])
    BY Zenon DEF Accepts
  <1> QED
    BY <1>1, <1>4, <1>6, <1>7, <1>8, <1>9, Zenon

LEMMA SyncReleasedInv ==
    ASSUME Tame, AllocationInv, TypeOK', NEW s \in Sandboxes,
           SyncSandboxReleased(s)
    PROVE  AllocationInv'
  <1> USE DEF AllocationInv
  <1> DEFINE all == obj[s].released \cup succeed[s]
  <1>1. /\ pc = "release" /\ InPool(obj[s])
        /\ succeed' = [succeed EXCEPT ![s] = {}]
        /\ UNCHANGED <<pod, evicting, seen, recovered, pc, listed, ready,
                       schedulable, toAllocate, toRelease, toDelete>>
    BY SyncReleasedShape, Zenon
  <1>2. PICK new \in SandboxObj :
                 /\ obj' = [obj EXCEPT ![s] = new]
                 /\ new.phase = obj[s].phase /\ new.alloc = obj[s].alloc
                 /\ new.release = obj[s].release /\ new.released = all
                 /\ "pool" \in new.fins =>
                       /\ "pool" \in obj[s].fins
                       /\ ~(obj[s].phase = "terminating" /\ obj[s].alloc \subseteq all)
    BY SyncReleasedShape, Zenon
  <1>3. /\ obj'[s] = new /\ succeed'[s] = {}
        /\ \A t \in Sandboxes : t # s => /\ obj'[t] = obj[t]
                                         /\ succeed'[t] = succeed[t]
    BY <1>1, <1>2, Zenon DEF TypeOK
  <1>4. PodList' = PodList /\ \A p \in Pods : Retired(p)' <=> Retired(p)
    BY <1>1, Zenon DEF Retired, PodList
  <1>5. \A t \in Sandboxes : /\ sandbox[t].alloc \subseteq Pods
                             /\ sandbox[t].released \subseteq Pods
                             /\ obj[t].released \subseteq Pods
                             /\ succeed[t] \subseteq Pods
    BY Zenon DEF TypeOK, SandboxObj
  <1>6. /\ all \subseteq sandbox[s].alloc /\ all \subseteq Pods
        /\ \A p \in all : Retired(p)
        /\ sandbox[s].released \subseteq all
    BY <1>1, <1>5, ZenonT(30) DEF ListSane, PlanSane, GivenBack
  <1>7. recovered /\ Synced(s) /\ obj[s].alloc = sandbox[s].alloc
    BY <1>1, Zenon DEF PlanSane, ListSane, Synced
  <1>8. SeenBehind' /\ Fresh'
    BY <1>1, <1>7, Zenon DEF SeenBehind, Fresh
  (* What the pass has planned and listed, given what became of sandbox. *)
  <1>9. ASSUME \A t \in Sandboxes :
                  /\ sandbox'[t].alloc = sandbox[t].alloc
                  /\ sandbox'[t].released = sandbox[t].released
                     \/ (t = s /\ sandbox'[t].released = all)
                  /\ \/ /\ sandbox'[t].phase = sandbox[t].phase
                        /\ sandbox'[t].release = sandbox[t].release
                     \/ /\ sandbox'[t].phase = "gone"
                        /\ sandbox[t].phase = "terminating"
                        /\ sandbox'[t].release = {}
                  /\ t # s => sandbox'[t] = sandbox[t],
               sandbox'[s].fins = sandbox[s].fins
                  \/ (obj[s].phase = "terminating" /\ obj[s].alloc \subseteq all)
        PROVE  AllocatedSeen' /\ ListSane' /\ PlanSane'
    <2>1. AllocatedSeen'
      BY <1>1, <1>4, <1>5, <1>6, <1>9, Zenon DEF AllocatedSeen
    <2>2. \A t \in Sandboxes, p \in Pods : GivenBack(t, p) => GivenBack(t, p)'
      BY <1>9, Zenon DEF GivenBack, InPool
    <2>3. PlanSane'
      <3>1. ASSUME NEW t \in Sandboxes, NEW p \in succeed'[t]
            PROVE  Retired(p) /\ GivenBack(t, p) /\ p \in Pods
        BY <1>1, <1>3, <1>5, Zenon DEF PlanSane
      <3>2. toDelete \subseteq Pods
        BY Zenon DEF TypeOK
      <3> QED
        BY <1>1, <1>4, <2>2, <3>1, <3>2 DEF PlanSane
    <2>4. ASSUME NEW t \in Sandboxes
          PROVE  /\ Synced(t)'
                 /\ sandbox'[t].released \subseteq obj'[t].released
                 /\ obj'[t].released \subseteq sandbox'[t].alloc
                 /\ \A p \in obj'[t].released : Retired(p)'
                 /\ obj'[t].phase = "terminating"
                       => sandbox'[t].phase \in {"terminating", "gone"}
                 /\ ~InPool(obj'[t]) => ~InPool(sandbox'[t]) \/ sandbox'[t].alloc = {}
                 /\ InPool(sandbox'[t]) => obj'[t].release \subseteq sandbox'[t].release
                 /\ obj'[t].release \subseteq sandbox'[t].alloc
      <3>1. /\ Synced(t)
            /\ sandbox[t].released \subseteq obj[t].released
            /\ obj[t].released \subseteq sandbox[t].alloc
            /\ \A p \in obj[t].released : Retired(p)
            /\ obj[t].phase = "terminating"
                  => sandbox[t].phase \in {"terminating", "gone"}
            /\ ~InPool(obj[t]) => ~InPool(sandbox[t]) \/ sandbox[t].alloc = {}
            /\ InPool(sandbox[t]) => obj[t].release \subseteq sandbox[t].release
            /\ obj[t].release \subseteq sandbox[t].alloc
        BY <1>1, Zenon DEF ListSane
      <3>2. CASE t # s
        BY <1>3, <1>4, <1>5, <1>9, <3>1, <3>2, Zenon DEF Synced
      <3>3. CASE t = s
        <4>1. Synced(t)'
          <5>1. obj'[t] = new
            BY <1>3, <3>3, Zenon
          <5>2. obj'[t].alloc = sandbox'[t].alloc
            BY <1>2, <1>7, <1>9, <3>3, <5>1, Zenon
          <5>3. ASSUME "pool" \in new.fins,
                       sandbox'[t].phase \in {"none", "live", "terminating"}
                PROVE  "pool" \in sandbox'[t].fins
            BY <1>2, <1>7, <1>9, <3>3, <5>3, Zenon DEF Synced
          <5> QED
            BY <5>1, <5>2, <5>3, Zenon DEF Synced
        <4>2. /\ obj'[t].released = all /\ obj'[t].release = obj[t].release
              /\ obj'[t].phase = obj[t].phase
          BY <1>2, <1>3, <3>3, Zenon
        <4>3. InPool(sandbox'[t]) => InPool(sandbox[t])
                                     /\ sandbox'[t].release = sandbox[t].release
          BY <1>9, Zenon DEF InPool
        <4> QED
          BY <1>4, <1>5, <1>6, <1>9, <3>1, <3>3, <4>1, <4>2, <4>3 DEF InPool
      <3> QED
        BY <3>2, <3>3, Zenon
    <2>5. \A t \in Sandboxes : sandbox'[t].alloc \cap listed' \subseteq schedulable'
      BY <1>1, <1>9, Zenon DEF ListSane
    <2>6. ListSane'
      BY <1>1, <1>4, <2>4, <2>5, Zenon DEF ListSane
    <2> QED
      BY <2>1, <2>3, <2>6, Zenon
  <1>10. CASE UNCHANGED <<sandbox, store>>
    <2>1. ObjectsSane' /\ Guarded' /\ NeverReused' /\ FinalizerGuardsRelease'
          /\ StoreIsBacked'
      BY <1>10, Zenon DEF ObjectsSane, Guarded, NeverReused, FinalizerGuardsRelease,
           StoreIsBacked
    <2>2. Covered'
      BY <1>1, <1>4, <1>5, <1>10, Zenon DEF Covered
    <2>3. AllocatedSeen' /\ ListSane' /\ PlanSane'
      BY <1>9, <1>10, Zenon
    <2> QED
      BY <1>8, <2>1, <2>2, <2>3, Zenon
  <1>11. CASE /\ store' = ReleaseAllocation(store, all)
              /\ Exists(sandbox[s])
              /\ \E q \in SandboxObj :
                    /\ sandbox' = [sandbox EXCEPT ![s] = Reap(q)]
                    /\ q.phase = sandbox[s].phase /\ q.alloc = sandbox[s].alloc
                    /\ q.release = sandbox[s].release /\ q.released = all
                    /\ \/ q.fins = sandbox[s].fins
                       \/ /\ obj[s].phase = "terminating"
                          /\ obj[s].alloc \subseteq all
    <2>0. PICK q \in SandboxObj :
                    /\ sandbox' = [sandbox EXCEPT ![s] = Reap(q)]
                    /\ q.phase = sandbox[s].phase /\ q.alloc = sandbox[s].alloc
                    /\ q.release = sandbox[s].release /\ q.released = all
                    /\ \/ q.fins = sandbox[s].fins
                       \/ /\ obj[s].phase = "terminating"
                          /\ obj[s].alloc \subseteq all
      BY <1>11, Zenon
    <2>1. /\ sandbox'[s] = Reap(q)
          /\ \A t \in Sandboxes : t # s => sandbox'[t] = sandbox[t]
      BY <2>0, Zenon DEF TypeOK
    <2>2. /\ sandbox'[s].alloc = sandbox[s].alloc /\ sandbox'[s].released = all
          /\ sandbox'[s].fins = q.fins
          /\ \/ /\ sandbox'[s].phase = sandbox[s].phase
                /\ sandbox'[s].release = sandbox[s].release
             \/ /\ sandbox'[s].phase = "gone" /\ sandbox'[s].release = {}
                /\ sandbox[s].phase = "terminating" /\ q.fins = {}
      BY <2>0, <2>1, ReapShape
    <2>3. \A p \in Pods : store'[p] = IF p \in all THEN NoSandbox ELSE store[p]
      BY <1>11, Zenon DEF ReleaseAllocation
    <2>4. "pool" \in q.fins \/ sandbox[s].alloc \subseteq all \/ ~InPool(sandbox[s])
      BY <1>6, <1>7, <2>0, Zenon DEF Guarded
    <2>5. ObjectsSane'
      BY <1>6, <1>11, <2>1, <2>2, ZenonT(30) DEF ObjectsSane, Exists
    <2>6. Guarded'
      BY <2>1, <2>2, <2>4, Zenon DEF Guarded, InPool
    <2>7. FinalizerGuardsRelease'
      <3>1. sandbox'[s].phase = "gone" => sandbox[s].alloc \subseteq all
        BY <1>11, <2>2, <2>4, Zenon DEF Exists, InPool
      <3> QED
        BY <2>1, <2>2, <3>1, Zenon DEF FinalizerGuardsRelease
    <2>8. NeverReused'
      BY <2>1, <2>2, Zenon DEF NeverReused
    <2>9. StoreIsBacked'
      BY <2>1, <2>2, <2>3 DEF StoreIsBacked, TypeOK
    <2>10. Covered'
      <3>1. ASSUME NEW t \in Sandboxes, NEW p \in sandbox[t].alloc
            PROVE  \/ store'[p] = t
                   \/ /\ Retired(p)
                      /\ p \in sandbox'[t].released \/ ~InPool(sandbox'[t])
        <4>1. CASE t # s
          <5>1. p \notin all
            BY <1>6, <4>1, Zenon DEF NeverReused
          <5> QED
            BY <1>5, <1>7, <2>1, <2>3, <4>1, <5>1, Zenon DEF Covered
        <4>2. CASE t = s
          BY <1>5, <1>6, <1>7, <2>2, <2>3, <4>2, Zenon DEF Covered, InPool
        <4> QED
          BY <4>1, <4>2, Zenon
      <3> QED
        BY <1>4, <1>5, <2>1, <2>2, <3>1, Zenon DEF Covered
    <2>11. AllocatedSeen' /\ ListSane' /\ PlanSane'
      BY <1>9, <2>0, <2>1, <2>2, Zenon
    <2> QED
      BY <1>8, <2>5, <2>6, <2>7, <2>8, <2>9, <2>10, <2>11
  <1> QED
    BY <1>10, <1>11, SyncReleasedShape, Zenon

(* Scaling creates and deletes pods, and touches nothing else that lasts. *)
LEMMA ScalingInv ==
    ASSUME AllocationInv, TypeOK', Scale
    PROVE  AllocationInv'
  <1> USE DEF AllocationInv
  <1>1. /\ UNCHANGED <<evicting, sandbox, seen, store, recovered>>
        /\ pc = "scale"
    BY Zenon DEF Scale
  <1>2. PICK C \in SUBSET {p \in Pods : pod[p] = "none"}, D \in SUBSET Pods,
             lost \in SUBSET Pods :
          /\ pod' = [p \in Pods |-> IF p \in C THEN "pending"
                                    ELSE IF p \in D /\ pod[p] \in Live
                                    THEN "terminating" ELSE pod[p]]
          /\ EndPass \/ StatusConflict
    BY ScaleShape, Zenon
  <1>3. SeenBehind' /\ Advance
    <2>1. \A p \in Pods : /\ pod[p] \in Dead => pod'[p] \in Dead
                          /\ pod[p] # "none" => pod'[p] # "none"
      BY <1>2, Zenon DEF Dead, Live
    <2> QED
      BY <1>1, <2>1, PodsAdvance, Zenon
  <1>4. StoreIsBacked' /\ Fresh'
    BY <1>1, Zenon DEF StoreIsBacked, Fresh
  <1>5. listed' = {} \/ listed' = listed
    BY <1>2, Zenon DEF EndPass, StatusConflict
  <1>6. \A p \in Pods : Retired(p) => Retired(p)'
    BY <1>3, <1>5, StaysRetired, Zenon DEF Retired
  <1>7. Covered'
    BY <1>1, <1>6 DEF Covered, TypeOK, SandboxObj
  <1>8. CASE EndPass
    BY <1>1, <1>3, <1>4, <1>7, <1>8, EndPassInv, Zenon
  <1>9. CASE StatusConflict
    <2>1. /\ pc' = "conflict" /\ UNCHANGED <<listed, obj, failed>>
      BY <1>9, Zenon DEF StatusConflict
    <2>2. ObjectsSane' /\ Guarded' /\ NeverReused' /\ FinalizerGuardsRelease'
      BY <1>1, Zenon DEF ObjectsSane, Guarded, NeverReused, FinalizerGuardsRelease
    <2>3. AllocatedSeen'
      BY <1>1, <1>3, <1>6, <2>1 DEF AllocatedSeen, TypeOK, SandboxObj, Advance
    <2>4. ListSane'
      BY <1>1, <1>3, <1>6, <2>1, ZenonT(30)
         DEF ListSane, Synced, TypeOK, SandboxObj, Advance
    <2>5. PlanSane'
      BY <1>1, <2>1, Zenon DEF PlanSane
    <2> QED
      BY <1>3, <1>4, <1>7, <2>2, <2>3, <2>4, <2>5, Zenon
  <1> QED
    BY <1>2, <1>8, <1>9, Zenon

(* A restart, and the passes that end before scaling. *)
LEMMA StopInv ==
    ASSUME AllocationInv, TypeOK', ScaleNotReady \/ Crash
    PROVE  AllocationInv'
  <1> USE DEF AllocationInv
  <1>1. UNCHANGED <<pod, evicting, sandbox>> /\ EndPass
    BY Zenon DEF ScaleNotReady, Crash, apiVars
  <1>2. CASE ScaleNotReady
    <2>1. UNCHANGED <<seen, store, recovered>>
      BY <1>2, Zenon DEF ScaleNotReady, memVars
    <2>2. SeenBehind' /\ Advance
      BY <1>1, <2>1, PodsAdvance, Zenon
    <2>3. \A p \in Pods : Retired(p) => Retired(p)'
      BY <1>1, <2>2, StaysRetired, Zenon DEF EndPass
    <2>4. StoreIsBacked' /\ Covered' /\ Fresh'
      BY <1>1, <2>1, <2>3 DEF StoreIsBacked, Covered, Fresh, TypeOK, SandboxObj
    <2> QED
      BY <1>1, <2>2, <2>4, EndPassInv, Zenon
  <1>3. CASE Crash
    <2>1. /\ seen' = pod /\ recovered' = FALSE /\ "crash" \in Env
          /\ \A p \in Pods : store'[p] = NoSandbox
      BY <1>3, Zenon DEF Crash, EmptyStore
    <2>2. SeenBehind' /\ Advance
      BY <1>1, <2>1, Zenon DEF SeenBehind, Advance, PodList
    <2>3. StoreIsBacked' /\ Covered' /\ Fresh'
      BY <1>1, <2>1, Zenon DEF StoreIsBacked, Covered, Fresh
    <2> QED
      BY <1>1, <2>2, <2>3, EndPassInv, Zenon
  <1> QED
    BY <1>2, <1>3, Zenon

(* The kubelet, operators, informers and the clock. *)
LEMMA EnvironmentInv ==
    ASSUME Tame, AllocationInv, TypeOK',
           \/ ExpectationsExpire \/ UpdateTemplate
           \/ \E s \in Sandboxes : DeliverSandbox(s)
           \/ \E p \in Pods : \/ PodReady(p) \/ PodGone(p) \/ DeliverPod(p)
                              \/ KillPod(p) \/ LabelEvict(p)
    PROVE  AllocationInv'
  <1>0. TypeOK /\ SeenBehind /\ Fresh
    BY Zenon DEF AllocationInv
  <1>1. CASE ExpectationsExpire \/ UpdateTemplate
    <2>1. /\ UNCHANGED <<pod, evicting, seen, sandbox, store, recovered, pc,
                         passVars>>
      BY <1>1, Zenon DEF ExpectationsExpire, UpdateTemplate, apiVars, memVars
    <2>2. SeenBehind' /\ Advance
      BY <1>0, <2>1, PodsAdvance, Zenon
    <2> QED
      BY <2>1, <2>2, WorldInv, Zenon
  <1>2. CASE \E s \in Sandboxes : DeliverSandbox(s)
    BY <1>2, Zenon DEF DeliverSandbox, Tame
  <1>3. ASSUME NEW p \in Pods, PodReady(p) \/ PodGone(p) \/ KillPod(p)
        PROVE  AllocationInv'
    <2>1. /\ UNCHANGED <<seen, sandbox, store, recovered, pc, passVars>>
          /\ "evict" \notin Env => UNCHANGED evicting
      <3>1. evicting' = evicting \/ evicting' = evicting \ {p}
        BY <1>3, Zenon DEF PodReady, PodGone, KillPod
      <3>2. "evict" \notin Env => evicting = {}
        BY <1>0, Zenon DEF Fresh
      <3> QED
        BY <1>3, <3>1, <3>2, Zenon DEF PodReady, PodGone, KillPod, memVars
    <2>2. \A r \in Pods : /\ pod[r] \in Dead => pod'[r] \in Dead
                          /\ pod[r] # "none" => pod'[r] # "none"
      BY <1>0, <1>3, Zenon DEF PodReady, PodGone, KillPod, Dead, Live, TypeOK
    <2>3. SeenBehind' /\ Advance
      BY <1>0, <2>1, <2>2, PodsAdvance, Zenon
    <2> QED
      BY <2>1, <2>3, WorldInv, Zenon
  <1>4. ASSUME NEW p \in Pods, DeliverPod(p)
        PROVE  AllocationInv'
    <2>1. /\ UNCHANGED <<pod, evicting, sandbox, store, recovered, pc, passVars>>
          /\ seen' = [seen EXCEPT ![p] = pod[p]]
      BY <1>4, Zenon DEF DeliverPod, apiVars, memVars
    <2>2. SeenBehind' /\ Advance
      BY <1>0, <2>1, Zenon DEF SeenBehind, Advance, PodList, TypeOK
    <2> QED
      BY <2>1, <2>2, WorldInv, Zenon
  <1>5. ASSUME NEW p \in Pods, LabelEvict(p)
        PROVE  AllocationInv'
    <2>1. /\ UNCHANGED <<pod, seen, sandbox, store, recovered, pc, passVars>>
          /\ "evict" \in Env
      BY <1>5, Zenon DEF LabelEvict, memVars
    <2>2. SeenBehind' /\ Advance
      BY <1>0, <2>1, PodsAdvance, Zenon
    <2> QED
      BY <2>1, <2>2, WorldInv, Zenon
  <1> QED
    BY <1>1, <1>2, <1>3, <1>4, <1>5, Zenon

LEMMA NextAllocationInv ==
    ASSUME Tame, AllocationInv, [Next]_vars
    PROVE  AllocationInv'
  <1>1. TypeOK'
    BY NextTypeOK, Zenon DEF AllocationInv
  <1>2. CASE Pass
    BY <1>1, <1>2, BeginInv, RetryInv, ScheduleInv, SyncAllocationInv,
       RecycleInv, SyncReleasedInv, ReleaseDoneInv, ScalingInv, StopInv,
       EnvironmentInv, Zenon DEF Pass
  <1>3. CASE Crash
    BY <1>1, <1>3, StopInv, Zenon
  <1>4. CASE Users \/ \E s \in Sandboxes : RemoveTaskFinalizer(s)
    <2>1. PICK s \in Sandboxes :
             \/ CreateSandbox(s) \/ ScaleSandbox(s) \/ DeleteSandbox(s)
             \/ AddTaskFinalizer(s) \/ ReleasePod(s) \/ Detach(s)
             \/ RemoveTaskFinalizer(s)
      BY <1>4, Zenon DEF Users
    <2>2. PICK q \in SandboxObj : SetSandbox(s, q) /\ Outside(sandbox[s], q)
      BY <2>1, UserShape, Zenon DEF AllocationInv
    <2> QED
      BY <1>1, <2>2, UserInv, Zenon
  <1>5. CASE \/ UpdateTemplate \/ \E s \in Sandboxes : DeliverSandbox(s)
             \/ \E p \in Pods : \/ PodReady(p) \/ PodGone(p) \/ DeliverPod(p)
                                \/ KillPod(p) \/ LabelEvict(p)
    BY <1>1, <1>5, EnvironmentInv, Zenon
  <1>6. CASE UNCHANGED vars
    <2>1. /\ UNCHANGED <<pod, evicting, seen, sandbox, store, recovered, pc,
                         passVars>>
      BY <1>6, Zenon DEF vars, apiVars, memVars
    <2>2. SeenBehind' /\ Advance
      BY <2>1, PodsAdvance, Zenon DEF AllocationInv
    <2> QED
      BY <1>1, <2>1, <2>2, WorldInv, Zenon
  <1> QED
    BY <1>2, <1>3, <1>4, <1>5, <1>6, Zenon DEF Next

-----------------------------------------------------------------------------
(* What follows for every state *)

(* AllocationInv is an invariant of the pool controller, under Tame. *)
THEOREM AllocationInvHolds == ASSUME Tame PROVE Spec => []AllocationInv
  <1>1. Init => AllocationInv
    BY InitAllocationInv, Zenon
  <1>2. AllocationInv /\ [Next]_vars => AllocationInv'
    BY NextAllocationInv, Zenon
  <1> QED
    BY <1>1, <1>2, PTL DEF Spec

(***************************************************************************)
(* The theorems.                                                           *)
(***************************************************************************)
(* A retired pod is being deleted at the API server too. *)
LEMMA RetiredIsDead ==
    ASSUME SeenBehind, NEW p \in Pods, Retired(p)
    PROVE  pod[p] \in Dead
  BY Zenon DEF SeenBehind, Retired, PodList

(* Under the Delete policy no pod is ever given to a second sandbox, and   *)
(* so no two sandboxes hold one pod, whatever crashes, failed patches,     *)
(* status conflicts and deletions the passes meet.                         *)
THEOREM NeverReusedHolds == ASSUME Tame PROVE Spec => []NeverReused
  <1>1. AllocationInv => NeverReused
    BY Zenon DEF AllocationInv
  <1> QED
    BY <1>1, AllocationInvHolds, PTL

(* No pod is held by two sandboxes. *)
THEOREM OneSandboxPerPodHolds == ASSUME Tame PROVE Spec => []OneSandboxPerPod
  <1>1. AllocationInv => OneSandboxPerPod
    BY Zenon DEF AllocationInv, NeverReused, OneSandboxPerPod, Holds
  <1> QED
    BY <1>1, AllocationInvHolds, PTL

(* The pool's store names no pod that the annotations do not. *)
THEOREM StoreIsBackedHolds == ASSUME Tame PROVE Spec => []StoreIsBacked
  <1>1. AllocationInv => StoreIsBacked
    BY Zenon DEF AllocationInv
  <1> QED
    BY <1>1, AllocationInvHolds, PTL

(* Between passes the store of a recovered controller has every held pod. *)
THEOREM StoreCoversHolds == ASSUME Tame PROVE Spec => []StoreCoversAnnotations
  <1>1. AllocationInv => StoreCoversAnnotations
    BY Zenon DEF AllocationInv, Covered, StoreCoversAnnotations, Holds
  <1> QED
    BY <1>1, AllocationInvHolds, PTL

(* A sandbox leaves the API server only after all its pods were released. *)
THEOREM FinalizerGuardsHolds == ASSUME Tame PROVE Spec => []FinalizerGuardsRelease
  <1>1. AllocationInv => FinalizerGuardsRelease
    BY Zenon DEF AllocationInv
  <1> QED
    BY <1>1, AllocationInvHolds, PTL

(* A pod is recorded as released only once it is being deleted. *)
THEOREM ReleasedMeansDeletedHolds ==
    ASSUME Tame PROVE Spec => []ReleasedMeansDeleted
  <1>1. ASSUME AllocationInv, NEW s \in Sandboxes, NEW p \in sandbox[s].released
        PROVE  pod[p] \in Dead
    <2>1. p \in Pods
      BY <1>1 DEF AllocationInv, TypeOK, SandboxObj
    <2>2. Retired(p) /\ SeenBehind
      BY <1>1, Zenon DEF AllocationInv, AllocatedSeen
    <2> QED
      BY <2>1, <2>2, RetiredIsDead, Zenon
  <1>2. AllocationInv => ReleasedMeansDeleted
    BY <1>1, Zenon DEF ReleasedMeansDeleted, Dead
  <1> QED
    BY <1>2, AllocationInvHolds, PTL

-----------------------------------------------------------------------------
(* Action properties *)

(* The pods a pass deletes by eviction. *)
LEMMA EvictionDeletesFree ==
    ASSUME Tame, AllocationInv, Begin \/ Retry, NEW p \in Pods, pod[p] \in Live,
           pod'[p] = "terminating", NEW s \in Sandboxes
    PROVE  p \notin sandbox[s].alloc
  <1>1. PICK P : HandleEviction(P)
    BY Zenon DEF Begin, Retry
  <1>2. PICK D \in SUBSET {r \in P \cap evicting : store[r] = NoSandbox} :
               Terminate(D)
    BY <1>1, EvictionShape, Zenon
  <1>3. p \in evicting /\ store[p] = NoSandbox
    BY <1>2, Zenon DEF Terminate, Live
  <1>4. ASSUME p \in sandbox[s].alloc PROVE FALSE
    <2>1. Retired(p) /\ SeenBehind
      BY <1>3, <1>4, EvictionSpares, Zenon DEF AllocationInv
    <2> QED
      BY <2>1, RetiredIsDead, Zenon DEF Dead, Live
  <1> QED
    BY <1>4, Zenon

(* The pods a pass deletes by scaling, rolling update and recycling. *)
LEMMA ScalingDeletesFree ==
    ASSUME AllocationInv, Scale, NEW p \in Pods, pod[p] \in Live,
           pod'[p] = "terminating", NEW s \in Sandboxes, p \in Holds(s)
    PROVE  sandbox[s].phase = "terminating" \/ p \in sandbox[s].release
  <1>1. TypeOK /\ SeenBehind /\ pc = "scale"
    BY Zenon DEF AllocationInv, Scale
  <1>2. PICK C \in SUBSET {r \in Pods : pod[r] = "none"}, D \in SUBSET Pods,
             lost \in SUBSET Pods :
          /\ D \subseteq toDelete \cup IdlePods
          /\ pod' = [r \in Pods |-> IF r \in C THEN "pending"
                                    ELSE IF r \in D /\ pod[r] \in Live
                                    THEN "terminating" ELSE pod[r]]
    BY <1>1, ScaleShape, Zenon
  <1>3. p \in toDelete \/ p \in IdlePods
    BY <1>2, Zenon DEF Live
  <1>4. InPool(sandbox[s]) /\ p \in sandbox[s].alloc
    BY Zenon DEF Holds
  <1>5. CASE p \in toDelete
    <2>1. PICK t \in Sandboxes : GivenBack(t, p)
      BY <1>1, <1>5, Zenon DEF AllocationInv, PlanSane
    <2>2. t = s
      BY <1>4, <2>1, Zenon DEF AllocationInv, NeverReused, GivenBack
    <2> QED
      BY <1>4, <2>1, <2>2, Zenon DEF GivenBack
  <1>6. CASE p \in IdlePods
    <2>1. store[p] = NoSandbox /\ recovered
      BY <1>1, <1>6, Zenon DEF IdlePods, Allocated, AllocationInv, PlanSane
    <2>2. Retired(p)
      BY <1>4, <2>1, ConstantsAssumption, Zenon DEF AllocationInv, Covered
    <2> QED
      BY <1>1, <2>2, RetiredIsDead, Zenon DEF Dead, Live
  <1> QED
    BY <1>3, <1>5, <1>6, Zenon

(* Eviction, rolling update, scale-in and recycling delete no pod that a   *)
(* live sandbox holds and has not handed back.                             *)
THEOREM DeletesOnlyFreePodsHolds ==
    ASSUME Tame PROVE Spec => DeletesOnlyFreePods
  <1> DEFINE Spares(p) ==
               pod[p] \in Live /\ pod'[p] = "terminating" =>
                 \A s \in Sandboxes : p \in Holds(s) =>
                    sandbox[s].phase = "terminating" \/ p \in sandbox[s].release
             Act == Pass => \A p \in Pods : Spares(p)
  <1>1. ASSUME AllocationInv, Pass, NEW p \in Pods
        PROVE  Spares(p)
    <2>1. CASE Begin \/ Retry
      BY <1>1, <2>1, EvictionDeletesFree, Zenon DEF Holds
    <2>2. CASE Scale
      BY <1>1, <2>2, ScalingDeletesFree, Zenon
    <2>3. CASE pod' = pod
      BY <2>3, Zenon DEF Live
    <2>4. \/ Begin \/ Retry \/ Scale \/ pod' = pod
      BY <1>1, Zenon DEF Pass, Schedule, SyncSandboxAllocation, DoRecycle,
           SyncSandboxReleased, ReleaseDone, ScaleNotReady,
           ExpectationsExpire, apiVars
    <2> QED
      BY <2>1, <2>2, <2>3, <2>4, Zenon
  <1>2. AllocationInv /\ [Next]_vars => [Act]_vars
    BY <1>1, Zenon
  <1> QED
    BY <1>2, AllocationInvHolds, PTL DEF Spec, DeletesOnlyFreePods

(* The allocation record of a sandbox only grows. *)
THEOREM AllocationsAccumulateHolds ==
    ASSUME Tame PROVE Spec => AllocationsAccumulate
  <1> DEFINE Act == \A s \in Sandboxes : sandbox[s].alloc \subseteq sandbox'[s].alloc
  <1>1. ASSUME AllocationInv, Next
        PROVE  Act
    <2>0. TypeOK /\ ObjectsSane
      BY <1>1, Zenon DEF AllocationInv
    <2>1. ASSUME NEW s \in Sandboxes, SyncSandboxAllocation(s)
          PROVE  Act
      <3>1. \/ UNCHANGED sandbox
            \/ \E q \in SandboxObj :
                  /\ sandbox' = [sandbox EXCEPT ![s] = q]
                  /\ q.alloc = sandbox[s].alloc \cup toAllocate[s]
        BY <1>1, <2>1, SyncAllocationShape, Zenon
      <3> QED
        BY <2>0, <3>1, Zenon DEF TypeOK
    <2>2. ASSUME NEW s \in Sandboxes, SyncSandboxReleased(s)
          PROVE  Act
      <3>1. \/ UNCHANGED sandbox
            \/ \E q \in SandboxObj : /\ sandbox' = [sandbox EXCEPT ![s] = Reap(q)]
                                     /\ q.alloc = sandbox[s].alloc
        BY <1>1, <2>2, SyncReleasedShape, Zenon
      <3> QED
        BY <2>0, <3>1, ReapShape DEF TypeOK
    <2>3. ASSUME NEW s \in Sandboxes,
                 \/ CreateSandbox(s) \/ ScaleSandbox(s) \/ DeleteSandbox(s)
                 \/ AddTaskFinalizer(s) \/ ReleasePod(s) \/ Detach(s)
                 \/ RemoveTaskFinalizer(s)
          PROVE  Act
      <3>1. PICK q \in SandboxObj : SetSandbox(s, q) /\ Outside(sandbox[s], q)
        BY <2>0, <2>3, UserShape, Zenon
      <3> QED
        BY <2>0, <3>1, Zenon DEF SetSandbox, Outside, TypeOK
    <2>4. CASE UNCHANGED sandbox
      BY <2>4, Zenon
    <2>5. \/ UNCHANGED sandbox
          \/ \E s \in Sandboxes : \/ SyncSandboxAllocation(s)
                                  \/ SyncSandboxReleased(s)
          \/ \E s \in Sandboxes :
                 \/ CreateSandbox(s) \/ ScaleSandbox(s) \/ DeleteSandbox(s)
                 \/ AddTaskFinalizer(s) \/ ReleasePod(s) \/ Detach(s)
                 \/ RemoveTaskFinalizer(s)
      <3>1. CASE Pass
        BY <3>1, Zenon DEF Pass, Begin, Retry, Schedule, DoRecycle, ReleaseDone, Scale,
             ScaleNotReady, ExpectationsExpire, apiVars
      <3>2. CASE Crash \/ UpdateTemplate
        BY <3>2, Zenon DEF Crash, UpdateTemplate, apiVars
      <3>3. CASE \E s \in Sandboxes : DeliverSandbox(s)
        BY <3>3, Zenon DEF DeliverSandbox, apiVars
      <3>4. CASE \E p \in Pods : \/ PodReady(p) \/ PodGone(p) \/ DeliverPod(p)
                                 \/ KillPod(p) \/ LabelEvict(p)
        BY <3>4, Zenon DEF PodReady, PodGone, DeliverPod, KillPod, LabelEvict, apiVars
      <3> QED
        BY <1>1, <3>1, <3>2, <3>3, <3>4, Zenon DEF Next, Users
    <2> QED
      BY <2>1, <2>2, <2>3, <2>4, <2>5, Zenon
  <1>2. AllocationInv /\ [Next]_vars => [Act]_vars
    BY <1>1, Zenon
  <1> QED
    BY <1>2, AllocationInvHolds, PTL DEF Spec, AllocationsAccumulate

=============================================================================
