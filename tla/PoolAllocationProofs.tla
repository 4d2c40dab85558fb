----------------------- MODULE PoolAllocationProofs -----------------------
(***************************************************************************)
(* Proofs about the pool controller, for every set of pods and sandboxes   *)
(* and every capacity.                                                     *)
(***************************************************************************)
EXTENDS PoolAllocationInv, FiniteSetTheorems, TLAPS

-----------------------------------------------------------------------------
(* Type correctness *)

(* Sets of pods are finite: their cardinalities are numbers. *)
LEMMA PodSetsFinite ==
    ASSUME NEW P \in SUBSET Pods
    PROVE  IsFiniteSet(P) /\ Cardinality(P) \in Nat
  BY FS_Subset, FS_CardinalityType, ConstantsAssumption, Zenon

(* Reap keeps an object an object. *)
LEMMA ReapType ==
    ASSUME NEW o \in SandboxObj
    PROVE  Reap(o) \in SandboxObj
  <1>1. CASE o.phase = "terminating" /\ o.fins = {}
    <2>1. Reap(o) = [phase |-> "gone", replicas |-> 0, alloc |-> o.alloc,
                     len |-> o.len, release |-> {}, released |-> o.released,
                     fins |-> o.fins]
      BY <1>1, Zenon DEF Reap, SandboxObj
    <2> QED
      BY <2>1, ConstantsAssumption DEF SandboxObj
  <1>2. CASE ~(o.phase = "terminating" /\ o.fins = {})
    BY <1>2, Zenon DEF Reap
  <1> QED
    BY <1>1, <1>2, Zenon

(* The two patches of the pool controller, field by field. *)
LEMMA AllocPatch ==
    ASSUME NEW o \in SandboxObj, NEW P \in SUBSET Pods, NEW n \in Nat,
           NEW F \in SUBSET {"pool", "task"}
    PROVE  LET q == PatchAllocation(o, P, n, F) IN
           /\ q \in SandboxObj
           /\ q.phase = o.phase /\ q.replicas = o.replicas
           /\ q.alloc = P /\ q.len = n /\ q.release = o.release
           /\ q.released = o.released /\ q.fins = F
  <1> SUFFICES ASSUME NEW q, q = PatchAllocation(o, P, n, F)
               PROVE  /\ q \in SandboxObj
                      /\ q.phase = o.phase /\ q.replicas = o.replicas
                      /\ q.alloc = P /\ q.len = n /\ q.release = o.release
                      /\ q.released = o.released /\ q.fins = F
    BY Zenon
  <1>1. q = [phase |-> o.phase, replicas |-> o.replicas, alloc |-> P, len |-> n,
             release |-> o.release, released |-> o.released, fins |-> F]
    BY Zenon DEF SandboxObj, PatchAllocation
  <1> QED
    BY <1>1 DEF SandboxObj

LEMMA ReleasePatch ==
    ASSUME NEW o \in SandboxObj, NEW P \in SUBSET Pods,
           NEW F \in SUBSET {"pool", "task"}
    PROVE  LET q == PatchReleased(o, P, F) IN
           /\ q \in SandboxObj
           /\ q.phase = o.phase /\ q.replicas = o.replicas
           /\ q.alloc = o.alloc /\ q.len = o.len /\ q.release = o.release
           /\ q.released = P /\ q.fins = F
  <1> SUFFICES ASSUME NEW q, q = PatchReleased(o, P, F)
               PROVE  /\ q \in SandboxObj
                      /\ q.phase = o.phase /\ q.replicas = o.replicas
                      /\ q.alloc = o.alloc /\ q.len = o.len /\ q.release = o.release
                      /\ q.released = P /\ q.fins = F
    BY Zenon
  <1>1. q = [phase |-> o.phase, replicas |-> o.replicas, alloc |-> o.alloc,
             len |-> o.len, release |-> o.release, released |-> P, fins |-> F]
    BY Zenon DEF SandboxObj, PatchReleased
  <1> QED
    BY <1>1 DEF SandboxObj

(* What creating and detaching a sandbox make of it. *)
LEMMA CreatePatch ==
    ASSUME NEW n \in 1..MaxReplicas
    PROVE  LET q == [NoObj EXCEPT !.phase = "live", !.replicas = n] IN
           /\ q \in SandboxObj
           /\ q.phase = "live" /\ q.alloc = {} /\ q.release = {}
           /\ q.released = {} /\ q.fins = {}
  <1>0. SUFFICES ASSUME NEW q,
                        q = [NoObj EXCEPT !.phase = "live", !.replicas = n]
                 PROVE  /\ q \in SandboxObj
                        /\ q.phase = "live" /\ q.alloc = {} /\ q.release = {}
                        /\ q.released = {} /\ q.fins = {}
    BY Zenon
  <1>1. q = [phase |-> "live", replicas |-> n, alloc |-> {}, len |-> 0,
             release |-> {}, released |-> {}, fins |-> {}]
    BY <1>0, Zenon DEF NoObj
  <1>2. n \in 0..MaxReplicas
    BY ConstantsAssumption
  <1>3. q \in SandboxObj
    BY <1>1, <1>2, Zenon DEF SandboxObj
  <1>4. /\ q.phase = "live" /\ q.alloc = {} /\ q.release = {}
        /\ q.released = {} /\ q.fins = {}
    BY <1>1, Zenon
  <1> QED
    BY <1>3, <1>4, Zenon

LEMMA DetachPatch ==
    ASSUME NEW o \in SandboxObj
    PROVE  LET q == [o EXCEPT !.phase = "detached", !.release = {},
                              !.fins = @ \ {"pool"}] IN
           /\ q \in SandboxObj
           /\ q.phase = "detached" /\ q.alloc = o.alloc /\ q.release = {}
           /\ q.released = o.released
  <1> SUFFICES ASSUME NEW q, q = [o EXCEPT !.phase = "detached", !.release = {},
                                           !.fins = @ \ {"pool"}]
               PROVE  /\ q \in SandboxObj
                      /\ q.phase = "detached" /\ q.alloc = o.alloc
                      /\ q.release = {} /\ q.released = o.released
    BY Zenon
  <1>1. q = [phase |-> "detached", replicas |-> o.replicas, alloc |-> o.alloc,
             len |-> o.len, release |-> {}, released |-> o.released,
             fins |-> o.fins \ {"pool"}]
    BY Zenon DEF SandboxObj
  <1> QED
    BY <1>1 DEF SandboxObj

LEMMA NoObjType == NoObj \in SandboxObj
  BY ConstantsAssumption DEF NoObj, SandboxObj

LEMMA InitTypeOK == Init => TypeOK
  <1> SUFFICES ASSUME Init PROVE TypeOK
    BY Zenon
  <1>1. sandbox \in [Sandboxes -> SandboxObj] /\ obj \in [Sandboxes -> SandboxObj]
    BY NoObjType, Zenon DEF Init
  <1>2. store \in [Pods -> Sandboxes \cup {NoSandbox}]
    BY Zenon DEF Init, EmptyStore
  <1>3. /\ toAllocate \in [Sandboxes -> SUBSET Pods]
        /\ toRelease \in [Sandboxes -> SUBSET Pods]
        /\ succeed \in [Sandboxes -> SUBSET Pods]
    BY Zenon DEF Init, NoPods
  <1>4. faults \in 0..MaxFaults
    BY ConstantsAssumption DEF Init
  <1> QED
    BY <1>1, <1>2, <1>3, <1>4, Zenon DEF Init, TypeOK, PodStates, PassSteps

(* The locals of a pass that has returned. *)
LEMMA EndPassType ==
    ASSUME EndPass
    PROVE  /\ pc' \in PassSteps
           /\ listed' \subseteq Pods /\ ready' \subseteq listed'
           /\ schedulable' \subseteq listed'
           /\ obj' \in [Sandboxes -> SandboxObj]
           /\ toAllocate' \in [Sandboxes -> SUBSET Pods]
           /\ toRelease' \in [Sandboxes -> SUBSET Pods]
           /\ succeed' \in [Sandboxes -> SUBSET Pods]
           /\ toDelete' \subseteq Pods
           /\ supplyCnt' \in Nat
           /\ failed' \in BOOLEAN
  BY NoObjType, Zenon DEF EndPass, PassSteps, NoPods

LEMMA FaultType ==
    ASSUME TypeOK, Fault \/ UNCHANGED faults
    PROVE  faults' \in 0..MaxFaults
  BY ConstantsAssumption DEF TypeOK, Fault

(* Handing an object to SetSandbox. *)
LEMMA SetSandboxType ==
    ASSUME TypeOK, NEW s \in Sandboxes, NEW o \in SandboxObj, SetSandbox(s, o)
    PROVE  TypeOK'
  BY Zenon DEF TypeOK, SetSandbox, memVars, passVars

LEMMA EvictionType ==
    ASSUME TypeOK, NEW P \in SUBSET Pods, HandleEviction(P)
    PROVE  /\ pc' \in PassSteps /\ schedulable' \subseteq P
           /\ pod' \in [Pods -> PodStates]
           /\ faults' \in 0..MaxFaults
  <1>1. faults' \in 0..MaxFaults
    BY FaultType, Zenon DEF HandleEviction
  <1> QED
    BY <1>1, Zenon DEF TypeOK, HandleEviction, Terminate, PodStates, Live, PassSteps

LEMMA BeginType == ASSUME TypeOK, Begin PROVE TypeOK'
  <1>1. /\ listed' \subseteq Pods /\ ready' \subseteq listed'
        /\ expected' \subseteq Pods
    BY Zenon DEF TypeOK, Begin, Live
  <1>2. /\ pc' \in PassSteps /\ schedulable' \subseteq listed'
        /\ pod' \in [Pods -> PodStates] /\ faults' \in 0..MaxFaults
    BY <1>1, EvictionType, Zenon DEF Begin
  <1>3. obj' \in [Sandboxes -> SandboxObj]
    BY Zenon DEF TypeOK, Begin, SandboxList
  <1> QED
    BY <1>1, <1>2, <1>3, Zenon DEF TypeOK, Begin

LEMMA RetryType == ASSUME TypeOK, Retry PROVE TypeOK'
  <1>1. /\ pc' \in PassSteps /\ schedulable' \subseteq listed
        /\ pod' \in [Pods -> PodStates] /\ faults' \in 0..MaxFaults
    BY EvictionType, Zenon DEF Retry, TypeOK
  <1> QED
    BY <1>1, Zenon DEF TypeOK, Retry, memVars

LEMMA ScheduleType == ASSUME TypeOK, Schedule PROVE TypeOK'
  <1>1. store' \in [Pods -> Sandboxes \cup {NoSandbox}]
    BY Zenon DEF Schedule, Recover, TypeOK
  <1>2. toRelease' \in [Sandboxes -> SUBSET Pods]
    <2>1. ASSUME NEW s \in Sandboxes PROVE ToRelease(obj[s]) \subseteq Pods
      BY Zenon DEF TypeOK, SandboxObj, ToRelease
    <2> QED
      BY <2>1, Zenon DEF Schedule, ReleaseRequests
  <1>3. /\ toAllocate' \in [Sandboxes -> SUBSET Pods]
        /\ supplyCnt' \in Nat
    <2> DEFINE need == [s \in Sandboxes |-> Supplement(obj[s])]
    <2>1. toAllocate' \in [Sandboxes -> SUBSET AvailablePods(store')]
      BY Zenon DEF Schedule, PackedSchedules
    <2>2. AvailablePods(store') \subseteq Pods
      BY Zenon DEF AvailablePods, TypeOK
    <2>3. IsFiniteSet(Sandboxes \X (1..MaxReplicas))
      <3>1. IsFiniteSet(1..MaxReplicas)
        <4>1. 1 \in Int /\ MaxReplicas \in Int
          BY ConstantsAssumption
        <4> QED
          BY <4>1, FS_Interval, Zenon
      <3> QED
        BY <3>1, FS_Product, ConstantsAssumption, Zenon
    <2>4. Requested(need) \in Nat /\ Cardinality(AvailablePods(store')) \in Nat
      BY <2>2, <2>3, ConstantsAssumption, FS_Subset, FS_CardinalityType, Zenon DEF Requested
    <2>5. supplyCnt' = Unmet(AvailablePods(store'), need)
      BY Zenon DEF Schedule
    <2> HIDE DEF need
    <2>6. supplyCnt' \in Nat
      BY <2>4, <2>5 DEF Unmet, max
    <2> QED
      BY <2>1, <2>2, <2>6, Zenon
  <1> QED
    BY <1>1, <1>2, <1>3, Zenon DEF TypeOK, Schedule, apiVars, PassSteps

(* The object and the store that a patch of s leaves behind. *)
LEMMA UpdateAllocationType ==
    ASSUME NEW st \in [Pods -> Sandboxes \cup {NoSandbox}],
           NEW s \in Sandboxes, NEW P
    PROVE  UpdateAllocation(st, s, P) \in [Pods -> Sandboxes \cup {NoSandbox}]
  BY Zenon DEF UpdateAllocation

LEMMA SyncAllocationType ==
    ASSUME TypeOK, NEW s \in Sandboxes, SyncSandboxAllocation(s)
    PROVE  TypeOK'
  <1> DEFINE old == obj[s]
             new == PatchAllocation(old, LatestAllocated(old, toAllocate[s]),
                                    old.len + Cardinality(toAllocate[s]),
                                    WithPoolFinalizer(old.fins))
             fins == IF "pool" \in old.fins THEN sandbox[s].fins ELSE new.fins
  <1>1. /\ old \in SandboxObj /\ sandbox[s] \in SandboxObj
        /\ toAllocate[s] \in SUBSET Pods
    BY Zenon DEF TypeOK
  <1>2. new \in SandboxObj
    <2>1. /\ old.alloc \cup toAllocate[s] \in SUBSET Pods
          /\ old.len + Cardinality(toAllocate[s]) \in Nat
          /\ old.fins \cup {"pool"} \in SUBSET {"pool", "task"}
      BY <1>1, PodSetsFinite DEF SandboxObj
    <2> QED
      BY <1>1, <2>1, AllocPatch, Zenon DEF LatestAllocated, WithPoolFinalizer
  <1>3. fins \subseteq {"pool", "task"}
    BY <1>2, Zenon DEF TypeOK, SandboxObj
  <1>4. sandbox' \in [Sandboxes -> SandboxObj]
    <2>1. CASE UNCHANGED sandbox
      BY <2>1, Zenon DEF TypeOK
    <2>2. CASE sandbox' = [sandbox EXCEPT
                      ![s] = PatchAllocation(@, new.alloc, new.len, fins)]
      <3>1. /\ new.alloc \in SUBSET Pods /\ new.len \in Nat
        BY <1>2, Zenon DEF SandboxObj
      <3> HIDE DEF new, fins, old
      <3>2. PatchAllocation(sandbox[s], new.alloc, new.len, fins) \in SandboxObj
        BY <1>1, <1>3, <3>1, AllocPatch, Zenon
      <3> QED
        BY <2>2, <3>2, Zenon DEF TypeOK
    <2> QED
      BY <2>1, <2>2, Zenon DEF SyncSandboxAllocation
  <1>5. store' \in [Pods -> Sandboxes \cup {NoSandbox}]
    BY UpdateAllocationType DEF SyncSandboxAllocation, TypeOK, RollBack
  <1>6. faults' \in 0..MaxFaults
    BY FaultType, Zenon DEF SyncSandboxAllocation
  <1>7. /\ obj' = [obj EXCEPT ![s] = new]
        /\ toAllocate' = [toAllocate EXCEPT ![s] = {}]
        /\ failed' \in BOOLEAN
        /\ UNCHANGED <<pod, podRev, evicting, poolRev, seen, cache, recovered,
                       expected, pc, listed, ready, schedulable, toRelease,
                       succeed, toDelete, supplyCnt>>
    BY Zenon DEF SyncSandboxAllocation, TypeOK
  <1> HIDE DEF new
  <1> QED
    BY <1>2, <1>4, <1>5, <1>6, <1>7, Zenon DEF TypeOK

LEMMA RecycleType == ASSUME TypeOK, DoRecycle PROVE TypeOK'
  <1>1. CASE failed
    BY <1>1, EndPassType, Zenon DEF TypeOK, DoRecycle, apiVars, memVars
  <1>2. CASE ~failed
    <2> PICK res \in [UNION {toRelease[s] : s \in Sandboxes} ->
                        {"succeeded", "recycling", "delete", "error"}] :
          /\ succeed' = [s \in Sandboxes |->
                           {p \in toRelease[s] : res[p] = "succeeded"}]
          /\ toDelete' = {p \in DOMAIN res : res[p] = "delete"}
          /\ failed' = \E p \in DOMAIN res : res[p] = "error"
      BY <1>2, Zenon DEF DoRecycle
    <2>1. DOMAIN res \subseteq Pods
      BY DEF TypeOK
    <2>2. succeed' \in [Sandboxes -> SUBSET Pods] /\ toDelete' \subseteq Pods
      BY <2>1, Zenon DEF TypeOK
    <2>3. failed' \in BOOLEAN
      BY Zenon
    <2>4. toRelease' \in [Sandboxes -> SUBSET Pods] /\ pc' \in PassSteps
      BY <1>2, Zenon DEF DoRecycle, NoPods, PassSteps
    <2> QED
      BY <1>2, <2>2, <2>3, <2>4 DEF TypeOK, DoRecycle, apiVars, memVars
  <1> QED
    BY <1>1, <1>2, Zenon DEF TypeOK

LEMMA ReleaseAllocationType ==
    ASSUME NEW st \in [Pods -> Sandboxes \cup {NoSandbox}], NEW P
    PROVE  ReleaseAllocation(st, P) \in [Pods -> Sandboxes \cup {NoSandbox}]
  BY Zenon DEF ReleaseAllocation

LEMMA SyncReleasedType ==
    ASSUME TypeOK, NEW s \in Sandboxes, SyncSandboxReleased(s)
    PROVE  TypeOK'
  <1> DEFINE old  == obj[s]
             all  == old.released \cup succeed[s]
             drop == old.phase = "terminating" /\ old.alloc \subseteq all
             new  == PatchReleased(old, all, IF drop THEN old.fins \ {"pool"}
                                             ELSE old.fins)
             fins == IF drop /\ "pool" \in old.fins THEN new.fins
                     ELSE sandbox[s].fins
             q    == PatchReleased(sandbox[s], all, fins)
  <1>1. /\ old \in SandboxObj /\ sandbox[s] \in SandboxObj
        /\ all \in SUBSET Pods
    BY Zenon DEF TypeOK, SandboxObj
  <1>2. new \in SandboxObj
    <2>1. (IF drop THEN old.fins \ {"pool"} ELSE old.fins)
             \in SUBSET {"pool", "task"}
      BY <1>1, Zenon DEF SandboxObj
    <2> HIDE DEF old, all, drop
    <2> QED
      BY <1>1, <2>1, ReleasePatch, Zenon
  <1>3. fins \in SUBSET {"pool", "task"}
    BY <1>1, <1>2, Zenon DEF SandboxObj
  <1>4. Reap(q) \in SandboxObj
    <2> HIDE DEF fins, all
    <2> QED
      BY <1>1, <1>3, ReleasePatch, ReapType, Zenon
  <1>5. /\ obj' = [obj EXCEPT ![s] = new]
        /\ succeed' = [succeed EXCEPT ![s] = {}]
        /\ failed' \in BOOLEAN
        /\ UNCHANGED sandbox \/ sandbox' = [sandbox EXCEPT ![s] = Reap(q)]
        /\ UNCHANGED store \/ store' = ReleaseAllocation(store, all)
        /\ UNCHANGED <<pod, podRev, evicting, poolRev, seen, cache, recovered,
                       expected, pc, listed, ready, schedulable, toAllocate,
                       toRelease, toDelete, supplyCnt>>
    BY Zenon DEF SyncSandboxReleased, TypeOK
  <1>6. faults' \in 0..MaxFaults
    BY FaultType, Zenon DEF SyncSandboxReleased
  <1> HIDE DEF new, q, all
  <1>7. /\ sandbox' \in [Sandboxes -> SandboxObj]
        /\ store' \in [Pods -> Sandboxes \cup {NoSandbox}]
    BY <1>4, <1>5, ReleaseAllocationType DEF TypeOK
  <1> QED
    BY <1>2, <1>5, <1>6, <1>7, Zenon DEF TypeOK

LEMMA ReleaseDoneType == ASSUME TypeOK, ReleaseDone PROVE TypeOK'
  <1>1. store' \in [Pods -> Sandboxes \cup {NoSandbox}]
    BY ReleaseAllocationType, Zenon DEF ReleaseDone, TypeOK
  <1>2. CASE failed
    BY <1>1, <1>2, EndPassType, Zenon DEF TypeOK, ReleaseDone, apiVars
  <1>3. CASE ~failed
    BY <1>1, <1>3, Zenon DEF TypeOK, ReleaseDone, apiVars, NoPods, PassSteps
  <1> QED
    BY <1>2, <1>3, Zenon DEF TypeOK

LEMMA MaxUnavailableType ==
    ASSUME NEW c \in 0..100, NEW n \in Int
    PROVE  MaxUnavailable(c, n) \in Int
  BY DEF MaxUnavailable, max

(* scalePool creates no more pods than poolMax leaves room for. *)
LEMMA CreateBound ==
    ASSUME TypeOK, NEW d \in Int
    PROVE  /\ CreateCnt(d) \in Nat
           /\ CreateCnt(d) <= max(PoolMax - Cardinality(listed), 0)
  <1>1. /\ Cardinality(schedulable) \in Nat /\ Cardinality(listed) \in Nat
        /\ Cardinality(NotReady) \in Nat
    <2>1. schedulable \in SUBSET Pods /\ listed \in SUBSET Pods
      BY Zenon DEF TypeOK
    <2> QED
      BY <2>1, PodSetsFinite, Zenon DEF NotReady
  <1>2. MaxUnavailable(ScalePercent, d) \in Int
    BY MaxUnavailableType, ConstantsAssumption, Zenon
  <1> QED
    BY <1>1, <1>2, ConstantsAssumption DEF CreateCnt, min, max

(* A rolling update deletes unallocated pods only. *)
LEMMA UpdatesIdle ==
    ASSUME NEW U \in Updates
    PROVE  U \subseteq IdlePods
  BY Zenon DEF Updates, kSubset

(* A scaling step creates pods C, of which it loses track of `lost', and   *)
(* deletes pods D of the schedule: unallocated ones or recycled ones.      *)
LEMMA ScaleShape ==
    ASSUME TypeOK, Scale
    PROVE  \E C \in SUBSET {p \in Pods : pod[p] = "none"},
              D \in SUBSET Pods, lost \in SUBSET Pods :
             /\ D \subseteq toDelete \cup IdlePods
             /\ Cardinality(C) <= max(PoolMax - Cardinality(listed), 0)
             /\ "lost" \notin Env => lost = {}
             /\ pod' = [p \in Pods |-> IF p \in C THEN "pending"
                                       ELSE IF p \in D /\ pod[p] \in Live
                                       THEN "terminating" ELSE pod[p]]
             /\ podRev' = [p \in Pods |-> IF p \in C THEN poolRev ELSE podRev[p]]
             /\ expected' = C \ lost
             /\ \/ EndPass /\ UNCHANGED faults
                \/ StatusConflict
                \/ EndPass /\ Fault
  <1> DEFINE unborn == {p \in Pods : pod[p] = "none"}
             desired(U) == DesiredSchedulable(supplyCnt + Cardinality(U))
             create(U) == min(CreateCnt(desired(U)), Cardinality(unborn))
             doomed(U, I) == ((U \cup toDelete) \cap schedulable) \cup I
             Step(U, I, D, C, lost) ==
                     /\ Cardinality(C) <= create(U)
                     /\ pod' = [p \in Pods |->
                                  IF p \in C THEN "pending"
                                  ELSE IF p \in D /\ pod[p] \in Live
                                  THEN "terminating" ELSE pod[p]]
                     /\ podRev' = [p \in Pods |->
                                     IF p \in C THEN poolRev ELSE podRev[p]]
                     /\ expected' = C \ lost
                     /\ IF D = doomed(U, I) /\ Cardinality(C) = create(U) /\ lost = {}
                        THEN \/ EndPass /\ UNCHANGED faults
                             \/ /\ \A p \in D : pod[p] # "gone"
                                /\ StatusConflict
                        ELSE EndPass /\ Fault
  <1>1. PICK U \in Updates :
          \E I \in SUBSET (IdlePods \ U) :
          \E D \in SUBSET doomed(U, I), C \in SUBSET unborn :
          \E lost \in SUBSET IF "lost" \in Env THEN C ELSE {} :
             Step(U, I, D, C, lost)
    BY Zenon DEF Scale, kSubset
  <1>2. PICK I \in SUBSET (IdlePods \ U) :
          \E D \in SUBSET doomed(U, I), C \in SUBSET unborn :
          \E lost \in SUBSET IF "lost" \in Env THEN C ELSE {} :
             Step(U, I, D, C, lost)
    BY <1>1, Zenon
  <1>3. PICK D \in SUBSET doomed(U, I), C \in SUBSET unborn,
             lost \in SUBSET Pods :
          ("lost" \notin Env => lost = {}) /\ Step(U, I, D, C, lost)
    <2> HIDE DEF Step
    <2> QED
      BY <1>2, Zenon
  <1>4. D \subseteq toDelete \cup IdlePods /\ D \subseteq Pods
    BY UpdatesIdle, Zenon DEF IdlePods, TypeOK
  <1>5. Cardinality(C) <= max(PoolMax - Cardinality(listed), 0)
    <2>1. /\ Cardinality(C) \in Nat /\ Cardinality(unborn) \in Nat
          /\ Cardinality(listed) \in Nat /\ Cardinality(schedulable) \in Nat
          /\ Cardinality(U) \in Nat /\ Cardinality(Allocated(store)) \in Nat
      <3>1. U \in SUBSET Pods /\ listed \in SUBSET Pods
            /\ schedulable \in SUBSET Pods
        BY UpdatesIdle, Zenon DEF IdlePods, TypeOK
      <3> QED
        BY <3>1, PodSetsFinite, Zenon DEF Allocated
    <2>2. desired(U) \in Int
      BY <2>1, ConstantsAssumption DEF DesiredSchedulable, max, TypeOK
    <2>3. /\ CreateCnt(desired(U)) \in Nat
          /\ CreateCnt(desired(U)) <= max(PoolMax - Cardinality(listed), 0)
      BY <2>2, CreateBound, Zenon
    <2>4. Cardinality(C) <= min(CreateCnt(desired(U)), Cardinality(unborn))
      BY <1>3, Zenon
    <2> HIDE DEF desired, unborn
    <2> QED
      BY <2>1, <2>3, <2>4, ConstantsAssumption DEF min, max
  <1> HIDE DEF create, doomed
  <1> QED
    BY <1>3, <1>4, <1>5, Zenon

LEMMA ScaleType == ASSUME TypeOK, Scale PROVE TypeOK'
  <1>1. PICK C \in SUBSET {p \in Pods : pod[p] = "none"},
             D \in SUBSET Pods, lost \in SUBSET Pods :
          /\ pod' = [p \in Pods |-> IF p \in C THEN "pending"
                                    ELSE IF p \in D /\ pod[p] \in Live
                                    THEN "terminating" ELSE pod[p]]
          /\ podRev' = [p \in Pods |-> IF p \in C THEN poolRev ELSE podRev[p]]
          /\ expected' = C \ lost
          /\ \/ EndPass /\ UNCHANGED faults
             \/ StatusConflict
             \/ EndPass /\ Fault
    BY ScaleShape, Zenon
  <1>2. /\ pod' \in [Pods -> PodStates] /\ podRev' \in [Pods -> Nat]
        /\ expected' \subseteq Pods
    BY <1>1, Zenon DEF TypeOK, PodStates
  <1>3. faults' \in 0..MaxFaults
    BY <1>1, FaultType, Zenon DEF StatusConflict
  <1>4. UNCHANGED <<evicting, sandbox, poolRev, seen, cache, store, recovered>>
    BY Zenon DEF Scale
  <1>5. CASE EndPass
    BY <1>2, <1>3, <1>4, <1>5, EndPassType, Zenon DEF TypeOK
  <1>6. CASE StatusConflict
    BY <1>2, <1>3, <1>4, <1>6, Zenon DEF TypeOK, StatusConflict, PassSteps
  <1> QED
    BY <1>1, <1>5, <1>6, Zenon

LEMMA CrashType == ASSUME TypeOK, Crash PROVE TypeOK'
  <1>1. faults' \in 0..MaxFaults
    BY FaultType, Zenon DEF Crash
  <1> QED
    BY <1>1, EndPassType, ZenonT(30) DEF TypeOK, Crash, apiVars, EmptyStore

(* What users and the BatchSandbox controller write. *)
LEMMA UserType ==
    ASSUME TypeOK, NEW s \in Sandboxes,
           \/ CreateSandbox(s) \/ ScaleSandbox(s) \/ DeleteSandbox(s)
           \/ AddTaskFinalizer(s) \/ ReleasePod(s) \/ Detach(s)
           \/ RemoveTaskFinalizer(s)
    PROVE  TypeOK'
  <1>0. sandbox[s] \in SandboxObj
    BY Zenon DEF TypeOK
  <1>1. CASE CreateSandbox(s)
    <2> PICK n \in 1..MaxReplicas :
              SetSandbox(s, [NoObj EXCEPT !.phase = "live", !.replicas = n])
      BY <1>1, Zenon DEF CreateSandbox
    <2> QED
      BY CreatePatch, SetSandboxType, Zenon
  <1>2. CASE ScaleSandbox(s)
    <2> PICK n \in 0..MaxReplicas : SetSandbox(s, [sandbox[s] EXCEPT !.replicas = n])
      BY <1>2, Zenon DEF ScaleSandbox
    <2>1. [sandbox[s] EXCEPT !.replicas = n] \in SandboxObj
      BY <1>0, Zenon DEF SandboxObj
    <2> QED
      BY <2>1, SetSandboxType, Zenon
  <1>3. CASE DeleteSandbox(s)
    <2>1. [sandbox[s] EXCEPT !.phase = "terminating"] \in SandboxObj
      BY <1>0, Zenon DEF SandboxObj
    <2> QED
      BY <1>3, <2>1, ReapType, SetSandboxType, Zenon DEF DeleteSandbox
  <1>4. CASE AddTaskFinalizer(s)
    <2>1. [sandbox[s] EXCEPT !.fins = @ \cup {"task"}] \in SandboxObj
      BY <1>0, Zenon DEF SandboxObj
    <2> QED
      BY <1>4, <2>1, SetSandboxType, Zenon DEF AddTaskFinalizer
  <1>5. CASE ReleasePod(s)
    <2> PICK p \in sandbox[s].alloc :
              SetSandbox(s, [sandbox[s] EXCEPT !.release = @ \cup {p}])
      BY <1>5, Zenon DEF ReleasePod
    <2>1. [sandbox[s] EXCEPT !.release = @ \cup {p}] \in SandboxObj
      BY <1>0 DEF SandboxObj
    <2> QED
      BY <2>1, SetSandboxType, Zenon
  <1>6. CASE Detach(s)
    <2> QED
      BY <1>0, <1>6, DetachPatch, SetSandboxType, Zenon DEF Detach
  <1>7. CASE RemoveTaskFinalizer(s)
    <2>1. [sandbox[s] EXCEPT !.fins = @ \ {"task"}] \in SandboxObj
      BY <1>0, Zenon DEF SandboxObj
    <2> QED
      BY <1>7, <2>1, ReapType, SetSandboxType, Zenon DEF RemoveTaskFinalizer
  <1> QED
    BY <1>1, <1>2, <1>3, <1>4, <1>5, <1>6, <1>7

(* The kubelet, the operators and the informers. *)
LEMMA WorldType ==
    ASSUME TypeOK,
           \/ UpdateTemplate
           \/ \E s \in Sandboxes : DeliverSandbox(s)
           \/ \E p \in Pods : \/ PodReady(p) \/ PodGone(p) \/ DeliverPod(p)
                              \/ KillPod(p) \/ LabelEvict(p)
    PROVE  TypeOK'
  <1>1. CASE UpdateTemplate
    BY <1>1, Zenon DEF TypeOK, UpdateTemplate, memVars, passVars
  <1>2. CASE \E s \in Sandboxes : DeliverSandbox(s)
    BY <1>2 DEF TypeOK, DeliverSandbox, apiVars, memVars, passVars
  <1>3. ASSUME NEW p \in Pods, PodReady(p) \/ KillPod(p) PROVE TypeOK'
    BY <1>3, Zenon DEF TypeOK, PodReady, KillPod, memVars, passVars, PodStates
  <1>4. ASSUME NEW p \in Pods, PodGone(p) \/ LabelEvict(p) PROVE TypeOK'
    BY <1>4 DEF TypeOK, PodGone, LabelEvict, memVars, passVars, PodStates
  <1>5. ASSUME NEW p \in Pods, DeliverPod(p) PROVE TypeOK'
    BY <1>5, Zenon DEF TypeOK, DeliverPod, apiVars, memVars, passVars
  <1> QED
    BY <1>1, <1>2, <1>3, <1>4, <1>5

LEMMA NextTypeOK == TypeOK /\ [Next]_vars => TypeOK'
  <1> SUFFICES ASSUME TypeOK, [Next]_vars PROVE TypeOK'
    BY Zenon
  <1>1. CASE Pass
    <2>1. CASE ScaleNotReady
      BY <2>1, EndPassType, Zenon DEF ScaleNotReady, TypeOK, apiVars, memVars
    <2>2. CASE ExpectationsExpire
      BY <2>2, Zenon DEF ExpectationsExpire, TypeOK, apiVars, passVars
    <2> QED
      BY <1>1, <2>1, <2>2, BeginType, RetryType, ScheduleType,
         SyncAllocationType, RecycleType, SyncReleasedType, ReleaseDoneType,
         ScaleType, Zenon DEF Pass
  <1>2. CASE UNCHANGED vars
    BY <1>2, Zenon DEF TypeOK, vars, apiVars, memVars, passVars
  <1> QED
    BY <1>1, <1>2, CrashType, UserType, WorldType, Zenon DEF Next, Users

(* Every variable of the pool controller keeps its type: in particular the *)
(* store maps every pod to one sandbox or to none, after any interleaving  *)
(* of UpdateAllocation, ReleaseAllocation and Recover.                     *)
THEOREM TypeCorrect == Spec => []TypeOK
  BY InitTypeOK, NextTypeOK, PTL DEF Spec

(***************************************************************************)
(* The pool never outgrows capacitySpec.poolMax, for every capacity, every *)
(* lag of the pod informer and any crashes, provided that no create call   *)
(* is applied without a reply.                                             *)
(***************************************************************************)
(* The pod informer stays behind when pods move on and it does not. *)
LEMMA SeenBehindKept ==
    ASSUME TypeOK, SeenBehind,
           \A p \in Pods : /\ pod[p] \in Dead => pod'[p] \in Dead
                           /\ pod[p] # "none" => pod'[p] # "none",
           UNCHANGED seen
    PROVE  SeenBehind'
  BY Zenon DEF SeenBehind

(* Deleting pods moves them on. *)
LEMMA TerminateAdvances ==
    ASSUME TypeOK, NEW D, Terminate(D)
    PROVE  /\ \A p \in Pods : /\ pod[p] \in Dead => pod'[p] \in Dead
                              /\ pod[p] # "none" => pod'[p] # "none"
           /\ LivePods' \subseteq LivePods
  BY Zenon DEF Terminate, Dead, Live, LivePods, TypeOK

(* A live pod that the informer knows is live for the informer too. *)
LEMMA KnownLive ==
    ASSUME TypeOK, SeenBehind, NEW p \in LivePods, PodList[p] # "none"
    PROVE  PodList[p] \in Live
  BY Zenon DEF TypeOK, SeenBehind, LivePods, PodList, Live, Dead, PodStates

(* Fewer live pods respect poolMax as well. *)
LEMMA FewerLive ==
    ASSUME TypeOK, PoolMaxRespected, TypeOK', LivePods' \subseteq LivePods
    PROVE  PoolMaxRespected'
  <1>1. /\ LivePods \in SUBSET Pods /\ LivePods' \in SUBSET Pods
        /\ LivePods' \in SUBSET LivePods
    BY Zenon DEF LivePods
  <1>2. IsFiniteSet(LivePods) /\ Cardinality(LivePods) \in Nat
        /\ Cardinality(LivePods') \in Nat
    BY <1>1, PodSetsFinite, Zenon
  <1>3. Cardinality(LivePods') <= Cardinality(LivePods)
    BY <1>1, <1>2, FS_Subset, Zenon
  <1>4. Cardinality(LivePods) <= PoolMax
    BY Zenon DEF PoolMaxRespected, LivePods
  <1>5. Cardinality(LivePods') <= PoolMax
    BY <1>2, <1>3, <1>4, ConstantsAssumption
  <1> QED
    BY <1>5, Zenon DEF PoolMaxRespected, LivePods

LEMMA InitScaleInv == Init => ScaleInv
  <1> SUFFICES ASSUME Init PROVE ScaleInv
    BY Zenon
  <1>1. TypeOK
    BY InitTypeOK, Zenon
  <1>2. LivePods = {}
    BY Zenon DEF Init, LivePods, Live
  <1>3. PoolMaxRespected
    BY <1>2, FS_EmptySet, ConstantsAssumption DEF PoolMaxRespected, LivePods
  <1>4. SeenBehind
    BY Zenon DEF Init, SeenBehind, Dead
  <1> QED
    BY <1>1, <1>2, <1>3, <1>4 DEF ScaleInv

(* Steps that create no pod and leave the expectations and the list alone, *)
(* or end the pass.                                                        *)
LEMMA NoCreation ==
    ASSUME ScaleInv, TypeOK', SeenBehind', LivePods' \subseteq LivePods,
           UNCHANGED <<seen, expected>>,
           \/ pc' = "idle"
           \/ UNCHANGED listed /\ pc # "idle"
           \/ UNCHANGED <<listed, pc>>
    PROVE  ScaleInv'
  <1>1. PoolMaxRespected'
    BY FewerLive, Zenon DEF ScaleInv
  <1>2. \A p \in LivePods' : p \in expected' \/ PodList'[p] \in Live
    BY Zenon DEF ScaleInv, PodList, LivePods
  <1>3. pc' # "idle" => \A p \in LivePods' : p \in expected' \/ p \in listed'
    BY Zenon DEF ScaleInv
  <1> QED
    BY <1>1, <1>2, <1>3, Zenon DEF ScaleInv

LEMMA EvictionShape ==
    ASSUME NEW P, HandleEviction(P)
    PROVE  \E D \in SUBSET {p \in P \cap evicting : store[p] = NoSandbox} :
              Terminate(D)
  BY Zenon DEF HandleEviction

LEMMA NextScaleInv ==
    ASSUME "lost" \notin Env, "slow" \notin Env, ScaleInv, [Next]_vars
    PROVE  ScaleInv'
  <1> TypeOK /\ TypeOK' /\ SeenBehind
    BY NextTypeOK, Zenon DEF ScaleInv
  <1>1. CASE Begin
    <2>1. PICK D : Terminate(D)
      BY <1>1, EvictionShape, Zenon DEF Begin
    <2>2. SeenBehind' /\ LivePods' \subseteq LivePods
      BY <1>1, <2>1, TerminateAdvances, SeenBehindKept DEF Begin
    <2>3. ASSUME NEW p \in LivePods'
          PROVE  /\ p \in expected' \/ PodList'[p] \in Live
                 /\ p \in expected' \/ p \in listed'
      <3>1. p \in LivePods /\ p \in Pods /\ pod[p] \in Live
        BY <2>2, Zenon DEF LivePods
      <3>2. CASE PodList[p] = "none"
        BY <1>1, <3>1, <3>2, Zenon DEF ScaleInv, Begin, Live
      <3>3. CASE PodList[p] # "none"
        <4>1. PodList[p] \in Live
          BY <3>1, <3>3, KnownLive, Zenon
        <4>2. p \in listed'
          BY <1>1, <3>1, <4>1, Zenon DEF Begin
        <4>3. PodList'[p] \in Live
          BY <1>1, <2>3, <4>1, Zenon DEF Begin, PodList, LivePods
        <4> QED
          BY <4>2, <4>3, Zenon
      <3> QED
        BY <3>2, <3>3, Zenon
    <2>4. PoolMaxRespected'
      BY <2>2, FewerLive, Zenon DEF ScaleInv
    <2> QED
      BY <2>2, <2>3, <2>4 DEF ScaleInv
  <1>2. CASE Retry
    <2>1. PICK D : Terminate(D)
      BY <1>2, EvictionShape, Zenon DEF Retry
    <2>2. SeenBehind' /\ LivePods' \subseteq LivePods
      BY <1>2, <2>1, TerminateAdvances, SeenBehindKept DEF Retry
    <2> QED
      BY <1>2, <2>2, NoCreation, Zenon DEF Retry, memVars
  <1>3. CASE Scale
    <2>1. PICK C \in SUBSET {p \in Pods : pod[p] = "none"},
               D \in SUBSET Pods :
             /\ Cardinality(C) <= max(PoolMax - Cardinality(listed), 0)
             /\ pod' = [p \in Pods |-> IF p \in C THEN "pending"
                                       ELSE IF p \in D /\ pod[p] \in Live
                                       THEN "terminating" ELSE pod[p]]
             /\ expected' = C
             /\ pc' = "idle" \/ UNCHANGED listed
      <3>1. PICK C \in SUBSET {p \in Pods : pod[p] = "none"},
                 D \in SUBSET Pods, lost \in SUBSET Pods :
             /\ Cardinality(C) <= max(PoolMax - Cardinality(listed), 0)
             /\ "lost" \notin Env => lost = {}
             /\ pod' = [p \in Pods |-> IF p \in C THEN "pending"
                                       ELSE IF p \in D /\ pod[p] \in Live
                                       THEN "terminating" ELSE pod[p]]
             /\ expected' = C \ lost
             /\ EndPass \/ StatusConflict
        BY <1>3, ScaleShape
      <3>2. expected' = C
        BY <3>1, Zenon
      <3>3. pc' = "idle" \/ UNCHANGED listed
        BY <3>1, Zenon DEF EndPass, StatusConflict
      <3> QED
        BY <3>1, <3>2, <3>3, Zenon
    <2>2. expected = {} /\ pc = "scale" /\ UNCHANGED seen
      BY <1>3, Zenon DEF Scale, ExpectationsSatisfied
    <2>3. SeenBehind'
      BY <2>1, <2>2, SeenBehindKept DEF TypeOK, Dead, Live
    <2>4. LivePods \subseteq listed /\ LivePods' \subseteq LivePods \cup C
      BY <2>1, <2>2, Zenon DEF ScaleInv, LivePods, Live
    <2>5. \A p \in LivePods' : p \in expected' \/ PodList'[p] \in Live
      BY <2>1, <2>2, <2>4, Zenon DEF ScaleInv, PodList, LivePods
    <2>6. pc' # "idle" => \A p \in LivePods' : p \in expected' \/ p \in listed'
      BY <2>1, <2>4, Zenon
    <2>7. PoolMaxRespected'
      <3>1. CASE PoolMax >= Cardinality(listed)
        <4>1. /\ IsFiniteSet(listed) /\ Cardinality(listed) \in Nat
              /\ IsFiniteSet(C) /\ Cardinality(C) \in Nat
          <5>1. listed \in SUBSET Pods /\ C \in SUBSET Pods
            BY Zenon DEF TypeOK
          <5> QED
            BY <5>1, PodSetsFinite
        <4>2. /\ IsFiniteSet(listed \cup C)
              /\ Cardinality(listed \cup C)
                  = Cardinality(listed) + Cardinality(C) - Cardinality(listed \cap C)
          BY <4>1, FS_Union, Zenon
        <4>3. Cardinality(listed \cap C) \in Nat
          <5>1. listed \cap C \in SUBSET Pods
            BY Zenon DEF TypeOK
          <5> QED
            BY <5>1, PodSetsFinite
        <4>4. Cardinality(listed \cup C) \in Nat
              /\ Cardinality(listed \cup C) <= PoolMax
          <5>1. Cardinality(C) <= PoolMax - Cardinality(listed)
            BY <2>1, <3>1, <4>1, ConstantsAssumption DEF max
          <5>2. Cardinality(listed \cup C) \in Nat
            BY <4>2, FS_CardinalityType, Zenon
          <5> QED
            BY <4>1, <4>2, <4>3, <5>1, <5>2, ConstantsAssumption
        <4>5. LivePods' \in SUBSET (listed \cup C)
          BY <2>4, Zenon
        <4>6. /\ Cardinality(LivePods') \in Nat
              /\ Cardinality(LivePods') <= Cardinality(listed \cup C)
          BY <4>2, <4>5, FS_Subset, FS_CardinalityType
        <4>7. Cardinality(LivePods') <= PoolMax
          BY <4>4, <4>6, ConstantsAssumption
        <4> QED
          BY <4>7, Zenon DEF PoolMaxRespected, LivePods
      <3>2. CASE ~(PoolMax >= Cardinality(listed))
        <4>1. /\ Cardinality(listed) \in Nat
              /\ IsFiniteSet(C) /\ Cardinality(C) \in Nat
          <5>1. listed \in SUBSET Pods /\ C \in SUBSET Pods
            BY Zenon DEF TypeOK
          <5> QED
            BY <5>1, PodSetsFinite
        <4>2. Cardinality(C) = 0
          BY <2>1, <3>2, <4>1, ConstantsAssumption DEF max
        <4>3. C = {}
          BY <4>1, <4>2, FS_EmptySet, Zenon
        <4> QED
          BY <2>4, <4>3, FewerLive, Zenon DEF ScaleInv
      <3> QED
        BY <3>1, <3>2, Zenon
    <2> QED
      BY <2>3, <2>5, <2>6, <2>7 DEF ScaleInv
  <1>4. CASE ExpectationsExpire
    <2>1. UNCHANGED <<pod, seen, listed, pc>> /\ expected' = {} 
          /\ \A p \in expected : PodList[p] = "gone"
      BY <1>4, Zenon DEF ExpectationsExpire, apiVars, passVars
    <2>2. \A p \in LivePods : p \notin expected
      BY <2>1, Zenon DEF SeenBehind, LivePods, PodList, Live, Dead
    <2>3. LivePods' = LivePods /\ PodList' = PodList
      BY <2>1, Zenon DEF LivePods, PodList
    <2>4. SeenBehind'
      BY <2>1, Zenon DEF SeenBehind
    <2> QED
      BY <2>1, <2>2, <2>3, <2>4, FewerLive DEF ScaleInv
  <1>5. CASE Crash
    <2>1. UNCHANGED pod /\ seen' = pod /\ pc' = "idle"
      BY <1>5, Zenon DEF Crash, EndPass, apiVars
    <2>2. LivePods' = LivePods /\ PodList' = pod'
      BY <2>1, Zenon DEF LivePods, PodList
    <2>3. SeenBehind'
      BY <2>1, Zenon DEF SeenBehind
    <2>4. \A p \in LivePods' : PodList'[p] \in Live
      BY <2>1, <2>2, Zenon DEF LivePods
    <2> QED
      BY <2>1, <2>2, <2>3, <2>4, FewerLive DEF ScaleInv
  <1>6. ASSUME NEW p \in Pods, DeliverPod(p) PROVE ScaleInv'
    <2>1. UNCHANGED <<pod, expected, listed, pc>>
          /\ seen' = [seen EXCEPT ![p] = pod[p]]
      BY <1>6, Zenon DEF DeliverPod, apiVars, memVars, passVars
    <2>2. LivePods' = LivePods
      BY <2>1, Zenon DEF LivePods
    <2>3. SeenBehind'
      BY <2>1 DEF SeenBehind, TypeOK
    <2>4. \A q \in LivePods' : q \in expected' \/ PodList'[q] \in Live
      BY <2>1, <2>2 DEF LivePods, PodList, ScaleInv, TypeOK
    <2> QED
      BY <2>1, <2>2, <2>3, <2>4, FewerLive DEF ScaleInv
  <1>7. ASSUME NEW p \in Pods, PodReady(p) \/ PodGone(p) \/ KillPod(p)
        PROVE  ScaleInv'
    <2>1. UNCHANGED <<seen, expected, listed, pc>>
      BY <1>7, Zenon DEF PodReady, PodGone, KillPod, memVars, passVars
    <2>2. SeenBehind' /\ LivePods' \subseteq LivePods
      BY <1>7, <2>1, SeenBehindKept
         DEF PodReady, PodGone, KillPod, TypeOK, Dead, Live, LivePods
    <2> QED
      BY <2>1, <2>2, NoCreation, Zenon
  <1>8. ASSUME UNCHANGED <<pod, seen, expected>>,
               \/ pc' = "idle"
               \/ UNCHANGED listed /\ pc # "idle"
               \/ UNCHANGED <<listed, pc>>
        PROVE  ScaleInv'
    <2>1. SeenBehind' /\ LivePods' = LivePods
      BY <1>8, Zenon DEF SeenBehind, LivePods
    <2> QED
      BY <1>8, <2>1, NoCreation, Zenon
  <1>9. CASE Schedule
    BY <1>8, <1>9, Zenon DEF Schedule, apiVars
  <1>10. ASSUME NEW s \in Sandboxes,
                SyncSandboxAllocation(s) \/ SyncSandboxReleased(s)
         PROVE  ScaleInv'
    <2>1. UNCHANGED <<pod, seen, expected, listed, pc>>
      BY <1>10, Zenon DEF SyncSandboxAllocation, SyncSandboxReleased
    <2> QED
      BY <1>8, <2>1, Zenon
  <1>11. CASE DoRecycle
    BY <1>8, <1>11, Zenon DEF DoRecycle, EndPass, apiVars, memVars
  <1>12. CASE ReleaseDone
    BY <1>8, <1>12, Zenon DEF ReleaseDone, EndPass, apiVars
  <1>13. CASE ScaleNotReady
    BY <1>8, <1>13, Zenon DEF ScaleNotReady, EndPass, apiVars, memVars
  <1>14. CASE Users \/ (\E s \in Sandboxes : RemoveTaskFinalizer(s))
    <2>1. UNCHANGED <<pod, seen, expected, listed, pc>>
      BY <1>14, Zenon DEF Users, CreateSandbox, ScaleSandbox, DeleteSandbox,
         AddTaskFinalizer, ReleasePod, Detach, RemoveTaskFinalizer, SetSandbox,
         memVars, passVars
    <2> QED
      BY <1>8, <2>1, Zenon
  <1>15. CASE \/ UpdateTemplate \/ UNCHANGED vars
              \/ \E s \in Sandboxes : DeliverSandbox(s)
              \/ \E p \in Pods : LabelEvict(p)
    <2>1. UNCHANGED <<pod, seen, expected, listed, pc>>
      BY <1>15, Zenon DEF UpdateTemplate, DeliverSandbox, LabelEvict, vars, apiVars,
         memVars, passVars
    <2> QED
      BY <1>8, <2>1, Zenon
  <1> QED
    BY <1>1, <1>2, <1>3, <1>4, <1>5, <1>6, <1>7, <1>9, <1>10, <1>11, <1>12,
       <1>13, <1>14, <1>15, Zenon DEF Next, Pass

(* scalePool's use of the scale expectations is sound: the live pods never *)
(* outnumber poolMax, wherever the controller crashes, as long as the pod  *)
(* informer lags by less than ExpectationTimeout and no create call is     *)
(* applied while its reply is lost.                                        *)
THEOREM PoolMaxHolds ==
    ASSUME "lost" \notin Env, "slow" \notin Env
    PROVE  Spec => []PoolMaxRespected
  <1>1. Init => ScaleInv
    BY InitScaleInv, Zenon
  <1>2. ScaleInv /\ [Next]_vars => ScaleInv'
    BY NextScaleInv, Zenon
  <1>3. ScaleInv => PoolMaxRespected
    BY Zenon DEF ScaleInv
  <1> QED
    BY <1>1, <1>2, <1>3, PTL DEF Spec

-----------------------------------------------------------------------------
(* Releases in any environment without eviction *)

(* What the pool controller can see of the pods moves forward only. *)
Advance ==
    \A p \in Pods : /\ PodList[p] \in Dead => PodList'[p] \in Dead
                    /\ PodList[p] # "none" => PodList'[p] # "none"

(* Pods that move forward are seen to, when the informer stands still. *)
LEMMA PodsAdvance ==
    ASSUME TypeOK, SeenBehind, UNCHANGED seen,
           \A p \in Pods : /\ pod[p] \in Dead => pod'[p] \in Dead
                           /\ pod[p] # "none" => pod'[p] # "none"
    PROVE  Advance /\ SeenBehind'
  <1>1. SeenBehind'
    BY SeenBehindKept, Zenon
  <1>2. Advance
    BY Zenon DEF Advance, PodList
  <1> QED
    BY <1>1, <1>2, Zenon

(* Reap only changes the phase, the replicas and the release request. *)
LEMMA ReapShape ==
    ASSUME NEW o \in SandboxObj
    PROVE  /\ Reap(o).alloc = o.alloc /\ Reap(o).released = o.released
           /\ Reap(o).fins = o.fins
           /\ \/ Reap(o) = o
              \/ /\ o.phase = "terminating" /\ o.fins = {}
                 /\ Reap(o).phase = "gone" /\ Reap(o).release = {}
  <1>1. CASE o.phase = "terminating" /\ o.fins = {}
    <2>1. Reap(o) = [phase |-> "gone", replicas |-> 0, alloc |-> o.alloc,
                     len |-> o.len, release |-> {}, released |-> o.released,
                     fins |-> o.fins]
      BY <1>1, Zenon DEF Reap, SandboxObj
    <2> HIDE DEF Reap
    <2> QED
      BY <1>1, <2>1
  <1>2. CASE ~(o.phase = "terminating" /\ o.fins = {})
    BY <1>2, Zenon DEF Reap
  <1> QED
    BY <1>1, <1>2, Zenon

AllSound(f) == \A s \in Sandboxes : Sound(f[s])

(* What a step may do to the pods and to the list of the pass ... *)
Onward ==
    /\ SeenBehind' /\ evicting' = {}
    /\ \A p \in Pods : /\ Listable(p) => Listable(p)'
                       /\ pod[p] \in Dead => pod'[p] \in Dead
    /\ \A p \in listed' : PodList'[p] # "none"

(* ... and to the plan of the pass *)
PlanFollows ==
    /\ \A p \in Pods : store'[p] # NoSandbox => Listable(p)
    /\ pc' \in {"schedule", "allocate", "release", "scale"} => schedulable' = listed'
    /\ pc' = "allocate" => \A s \in Sandboxes : /\ toAllocate'[s] \subseteq listed'
                                                /\ \A p \in toRelease'[s] : Listable(p)
    /\ \A s \in Sandboxes : \A p \in succeed'[s] : pod[p] \in Dead

(* A step that writes only what was sound before preserves ReleaseInv. *)
LEMMA ReleaseFrame ==
    ASSUME TypeOK', Onward, PlanFollows,
           AllSound(sandbox'), AllSound(cache'), AllSound(obj')
    PROVE  ReleaseInv'
  <1>1. ASSUME NEW o \in SandboxObj, Sound(o) PROVE Sound(o)'
    BY <1>1, Zenon DEF Sound, Onward, SandboxObj
  <1>2. ASSUME NEW f \in [Sandboxes -> SandboxObj], AllSound(f)
        PROVE  \A s \in Sandboxes : Sound(f[s])'
    BY <1>1, <1>2, Zenon DEF AllSound
  <1>3. \A s \in Sandboxes : Sound(sandbox[s])' /\ Sound(cache[s])' /\ Sound(obj[s])'
    BY <1>2 DEF TypeOK, Sound
  <1> QED
    BY <1>3 DEF ReleaseInv, Onward, PlanFollows, TypeOK

(* The pass goes on with its list, or ends. *)
LEMMA OnwardStep ==
    ASSUME ReleaseInv, SeenBehind', Advance, evicting' = {},
           \A p \in Pods : pod[p] \in Dead => pod'[p] \in Dead,
           \/ pc' = "idle" /\ listed' = {}
           \/ UNCHANGED listed /\ (pc # "idle" \/ UNCHANGED pc)
    PROVE  Onward
  <1>1. listed \subseteq Pods /\ \A p \in listed : PodList[p] # "none"
    BY Zenon DEF ReleaseInv, TypeOK
  <1>2. \A p \in listed' : PodList'[p] # "none"
    BY <1>1, Zenon DEF Advance
  <1>3. ASSUME NEW p \in Pods, Listable(p) PROVE Listable(p)'
    BY <1>3, Zenon DEF Advance, Listable
  <1> QED
    BY <1>2, <1>3, Zenon DEF Onward

(* A step that moves no pod. *)
LEMMA OnwardStill ==
    ASSUME ReleaseInv, UNCHANGED <<pod, seen>>, evicting' = {},
           \/ pc' = "idle" /\ listed' = {}
           \/ UNCHANGED listed /\ (pc # "idle" \/ UNCHANGED pc)
    PROVE  Onward
  <1>1. TypeOK /\ SeenBehind
    BY Zenon DEF ReleaseInv
  <1>2. SeenBehind' /\ Advance
    BY <1>1, PodsAdvance, Zenon
  <1> QED
    BY <1>2, OnwardStep, Zenon

(* The kubelet, operators, informers and the clock. *)
LEMMA WorldRelease ==
    ASSUME "evict" \notin Env, ReleaseInv, TypeOK',
           \/ ExpectationsExpire \/ UpdateTemplate
           \/ \E s \in Sandboxes : DeliverSandbox(s)
           \/ \E p \in Pods : \/ PodReady(p) \/ PodGone(p) \/ DeliverPod(p)
                              \/ KillPod(p) \/ LabelEvict(p)
    PROVE  ReleaseInv'
  <1>0. TypeOK /\ SeenBehind /\ evicting = {}
    BY Zenon DEF ReleaseInv
  <1>1. UNCHANGED <<sandbox, store, pc, listed, schedulable, obj, toAllocate, toRelease, succeed>>
    BY Zenon DEF ExpectationsExpire, UpdateTemplate, DeliverSandbox, PodReady, PodGone, DeliverPod,
                 KillPod, LabelEvict, apiVars, memVars, passVars
  <1>2. Onward
    <2>1. ASSUME NEW p \in Pods, PodReady(p) \/ PodGone(p) \/ KillPod(p) PROVE Onward
      <3>1. seen' = seen /\ evicting' = {}
        BY <1>0, <2>1, Zenon DEF PodReady, PodGone, KillPod
      <3>2. \A r \in Pods : /\ pod[r] \in Dead => pod'[r] \in Dead
                            /\ pod[r] # "none" => pod'[r] # "none"
        BY <1>0, <2>1, Zenon DEF PodReady, PodGone, KillPod, Dead, Live, TypeOK
      <3>3. SeenBehind' /\ Advance
        BY <1>0, <3>1, <3>2, PodsAdvance, Zenon
      <3> QED
        BY <1>1, <3>1, <3>2, <3>3, OnwardStep, Zenon
    <2>2. ASSUME NEW p \in Pods, DeliverPod(p) PROVE Onward
      <3>1. UNCHANGED <<pod, evicting>> /\ seen' = [seen EXCEPT ![p] = pod[p]]
        BY <2>2, Zenon DEF DeliverPod, apiVars
      <3>2. SeenBehind' /\ Advance
        BY <1>0, <3>1, Zenon DEF SeenBehind, Advance, PodList, TypeOK
      <3> QED
        BY <1>0, <1>1, <3>1, <3>2, OnwardStep, Zenon
    <2>3. CASE ExpectationsExpire \/ UpdateTemplate \/ \E s \in Sandboxes : DeliverSandbox(s)
      <3>1. UNCHANGED <<pod, seen>> /\ evicting' = {}
        BY <1>0, <2>3, Zenon DEF ExpectationsExpire, UpdateTemplate, DeliverSandbox, apiVars
      <3> QED
        BY <1>1, <3>1, OnwardStill, Zenon
    <2>4. \A p \in Pods : ~LabelEvict(p)
      BY Zenon DEF LabelEvict
    <2> QED
      BY <2>1, <2>2, <2>3, <2>4, Zenon
  <1>3. AllSound(cache')
    <2>1. cache' = cache \/ \E s \in Sandboxes : cache' = [cache EXCEPT ![s] = sandbox[s]]
      BY Zenon DEF ExpectationsExpire, UpdateTemplate, DeliverSandbox, PodReady, PodGone, DeliverPod,
                   KillPod, LabelEvict
    <2> QED
      BY <1>0, <2>1, Zenon DEF ReleaseInv, AllSound, TypeOK
  <1>4. AllSound(sandbox') /\ AllSound(obj') /\ PlanFollows
    BY <1>1, Zenon DEF ReleaseInv, AllSound, PlanFollows
  <1> QED
    BY <1>2, <1>3, <1>4, ReleaseFrame, Zenon

(* What is built from a sound object is sound. *)
LEMMA SoundPart ==
    ASSUME NEW o, NEW q, Sound(o), q.alloc \subseteq o.alloc,
           q.release \subseteq o.alloc \cup o.release, q.released \subseteq o.released
    PROVE  Sound(q)
  BY Zenon DEF Sound

(* Users and the BatchSandbox controller. *)
LEMMA UserRelease ==
    ASSUME ReleaseInv, TypeOK', NEW s \in Sandboxes,
           \/ CreateSandbox(s) \/ ScaleSandbox(s) \/ DeleteSandbox(s)
           \/ AddTaskFinalizer(s) \/ ReleasePod(s) \/ Detach(s)
           \/ RemoveTaskFinalizer(s)
    PROVE  ReleaseInv'
  <1> DEFINE o == sandbox[s]
  <1>0. TypeOK /\ o \in SandboxObj /\ evicting = {}
    BY Zenon DEF ReleaseInv, TypeOK
  <1>1. PICK q : SetSandbox(s, q) /\ q.alloc \subseteq o.alloc /\ q.released \subseteq o.released
                 /\ q.release \subseteq o.alloc \cup o.release
    <2>1. CASE CreateSandbox(s)
      BY <2>1, CreatePatch DEF CreateSandbox
    <2>2. CASE ScaleSandbox(s)
      BY <1>0, <2>2 DEF ScaleSandbox, SandboxObj
    <2>3. CASE DeleteSandbox(s)
      <3>1. PICK r : r = [o EXCEPT !.phase = "terminating"]
        BY Zenon
      <3>2. r \in SandboxObj /\ r.alloc = o.alloc /\ r.release = o.release /\ r.released = o.released
        BY <1>0, <3>1, Zenon DEF SandboxObj
      <3>3. SetSandbox(s, Reap(r))
        BY <2>3, <3>1, Zenon DEF DeleteSandbox
      <3> QED
        BY <3>2, <3>3, ReapShape
    <2>4. CASE AddTaskFinalizer(s)
      BY <1>0, <2>4 DEF AddTaskFinalizer, SandboxObj
    <2>5. CASE ReleasePod(s)
      BY <1>0, <2>5 DEF ReleasePod, SandboxObj
    <2>6. CASE Detach(s)
      BY <1>0, <2>6, DetachPatch DEF Detach
    <2>7. CASE RemoveTaskFinalizer(s)
      <3>1. PICK r : r = [o EXCEPT !.fins = @ \ {"task"}]
        BY Zenon
      <3>2. r \in SandboxObj /\ r.alloc = o.alloc /\ r.release = o.release /\ r.released = o.released
        BY <1>0, <3>1, Zenon DEF SandboxObj
      <3>3. SetSandbox(s, Reap(r))
        BY <2>7, <3>1, Zenon DEF RemoveTaskFinalizer
      <3> QED
        BY <3>2, <3>3, ReapShape
    <2> QED
      BY <2>1, <2>2, <2>3, <2>4, <2>5, <2>6, <2>7, Zenon
  <1>2. /\ UNCHANGED <<store, cache, pc, listed, schedulable, obj, toAllocate, toRelease, succeed>>
        /\ UNCHANGED <<pod, seen>> /\ evicting' = {}
        /\ sandbox' = [sandbox EXCEPT ![s] = q]
    BY <1>0, <1>1, Zenon DEF SetSandbox, memVars, passVars
  <1>3. Sound(q)
    BY <1>1, SoundPart, Zenon DEF ReleaseInv
  <1>4. AllSound(sandbox')
    BY <1>0, <1>2, <1>3, Zenon DEF ReleaseInv, AllSound, TypeOK
  <1>5. AllSound(cache') /\ AllSound(obj') /\ PlanFollows
    BY <1>2, Zenon DEF ReleaseInv, AllSound, PlanFollows
  <1>6. Onward
    BY <1>2, OnwardStill, Zenon
  <1> QED
    BY <1>4, <1>5, <1>6, ReleaseFrame, Zenon

(* A list call, and the body of the pass over the same list. *)
LEMMA BeginRelease ==
    ASSUME ReleaseInv, TypeOK', Begin \/ Retry
    PROVE  ReleaseInv'
  <1>0. TypeOK /\ SeenBehind /\ evicting = {}
    BY Zenon DEF ReleaseInv
  <1>1. PICK P : HandleEviction(P) /\ listed' = P
    BY Zenon DEF Begin, Retry
  <1>2. schedulable' = listed' /\ pod' = pod /\ pc' = "schedule"
    <2>1. {p \in P \cap evicting : store[p] = NoSandbox} = {}
      BY <1>0, Zenon
    <2>2. Terminate({}) /\ schedulable' = P \ {} /\ pc' = "schedule"
      BY <1>1, <2>1, Zenon DEF HandleEviction
    <2> QED
      BY <1>0, <1>1, <2>2 DEF Terminate, TypeOK
  <1>3. UNCHANGED <<sandbox, cache, seen, store, succeed>> /\ evicting' = {}
    BY <1>0, Zenon DEF Begin, Retry, memVars
  <1>4. Onward
    <2>1. CASE Begin
      <3>1. PodList' = PodList /\ listed' = {p \in Pods : PodList[p] \in Live}
        BY <1>2, <1>3, <2>1, Zenon DEF Begin, PodList
      <3>2. \A p \in Pods : PodList[p] \in PodStates
        BY <1>0, Zenon DEF PodList, TypeOK
      <3>3. \A p \in Pods : Listable(p) => Listable(p)'
        BY <3>1, <3>2, Zenon DEF Listable, PodStates, Live, Dead
      <3>4. SeenBehind'
        BY <1>0, <1>2, <1>3, Zenon DEF SeenBehind
      <3>5. \A p \in listed' : PodList'[p] # "none"
        BY <3>1, Zenon DEF Live
      <3> QED
        BY <1>2, <1>3, <3>3, <3>4, <3>5, Zenon DEF Onward
    <2>2. CASE Retry
      <3>1. listed' = listed /\ pc # "idle"
        BY <2>2, Zenon DEF Retry
      <3> QED
        BY <1>2, <1>3, <3>1, OnwardStill, Zenon
    <2> QED
      BY <2>1, <2>2, Zenon
  <1>5. obj' = obj \/ obj' = sandbox \/ obj' = cache
    BY Zenon DEF Begin, Retry, SandboxList
  <1>6. AllSound(sandbox') /\ AllSound(cache') /\ AllSound(obj')
    BY <1>3, <1>5, Zenon DEF ReleaseInv, AllSound
  <1>7. PlanFollows
    BY <1>2, <1>3, Zenon DEF ReleaseInv, PlanFollows
  <1> QED
    BY <1>4, <1>6, <1>7, ReleaseFrame, Zenon

(* Scheduling, with or without the recovery of the store: both take pods   *)
(* from the list, from the objects and from the store.                     *)
LEMMA ScheduleRelease ==
    ASSUME ReleaseInv, TypeOK', Schedule
    PROVE  ReleaseInv'
  <1>0. TypeOK /\ evicting = {}
    BY Zenon DEF ReleaseInv
  <1>1. /\ UNCHANGED <<pod, seen>> /\ UNCHANGED <<sandbox, cache, obj, listed, schedulable, succeed>>
        /\ evicting' = {} /\ pc = "schedule" /\ pc' = "allocate"
        /\ store' \in IF recovered THEN {store} ELSE Recover(SandboxList)
        /\ toRelease' = ReleaseRequests(store')
    BY <1>0, Zenon DEF Schedule, apiVars
  <1>2. \A p \in Pods : store'[p] # NoSandbox => Listable(p)
    <2>1. CASE recovered
      BY <1>1, <2>1, Zenon DEF ReleaseInv
    <2>2. CASE ~recovered
      <3> SUFFICES ASSUME NEW p \in Pods, store'[p] # NoSandbox PROVE Listable(p)
        BY Zenon
      <3> DEFINE claims == {s \in Sandboxes : InPool(SandboxList[s]) /\ p \in SandboxList[s].alloc}
      <3>1. claims # {}
        BY <1>1, <2>2, Zenon DEF Recover
      <3>2. PICK s \in Sandboxes : p \in SandboxList[s].alloc
        BY <3>1, Zenon
      <3>3. Sound(SandboxList[s])
        BY Zenon DEF ReleaseInv, SandboxList
      <3> QED
        BY <3>2, <3>3, Zenon DEF Sound
    <2> QED
      BY <2>1, <2>2, Zenon
  <1>3. \A s \in Sandboxes : toAllocate'[s] \subseteq listed'
    <2> DEFINE need == [s \in Sandboxes |-> Supplement(obj[s])]
    <2>1. toAllocate' \in PackedSchedules(AvailablePods(store'), need)
      BY Zenon DEF Schedule
    <2>2. \A s \in Sandboxes : toAllocate'[s] \subseteq AvailablePods(store')
      BY <2>1, Zenon DEF PackedSchedules
    <2>3. AvailablePods(store') \subseteq listed /\ listed' = listed
      BY <1>0, <1>1, Zenon DEF AvailablePods, TypeOK
    <2> QED
      BY <2>2, <2>3, Zenon
  <1>4. \A s \in Sandboxes : \A p \in toRelease'[s] : Listable(p)
    <2> SUFFICES ASSUME NEW s \in Sandboxes, NEW p \in toRelease'[s] PROVE Listable(p)
      BY Zenon
    <2>1. p \in (IF InPool(obj[s]) THEN ToRelease(obj[s]) ELSE {r \in Pods : store'[r] = s})
      BY <1>1, Zenon DEF ReleaseRequests
    <2>2. CASE InPool(obj[s])
      BY <2>1, <2>2, Zenon DEF ToRelease, ReleaseInv, Sound
    <2>3. CASE ~InPool(obj[s])
      BY <1>2, <2>1, <2>3, ConstantsAssumption, Zenon
    <2> QED
      BY <2>2, <2>3, Zenon
  <1>5. AllSound(sandbox') /\ AllSound(cache') /\ AllSound(obj')
    BY <1>1, Zenon DEF ReleaseInv, AllSound
  <1>6. PlanFollows
    BY <1>1, <1>2, <1>3, <1>4, Zenon DEF ReleaseInv, PlanFollows
  <1>7. Onward
    BY <1>1, OnwardStill, Zenon
  <1> QED
    BY <1>5, <1>6, <1>7, ReleaseFrame, Zenon

(* The allocation patch of one sandbox, answered, refused or lost. *)
LEMMA SyncAllocationRelease ==
    ASSUME ReleaseInv, TypeOK', NEW s \in Sandboxes, SyncSandboxAllocation(s)
    PROVE  ReleaseInv'
  <1> DEFINE old   == obj[s]
             new   == PatchAllocation(old, LatestAllocated(old, toAllocate[s]),
                                      old.len + Cardinality(toAllocate[s]),
                                      WithPoolFinalizer(old.fins))
             fins  == IF "pool" \in old.fins THEN sandbox[s].fins ELSE new.fins
             q     == PatchAllocation(sandbox[s], new.alloc, new.len, fins)
  <1>0. /\ TypeOK /\ evicting = {} /\ old \in SandboxObj /\ sandbox[s] \in SandboxObj
        /\ toAllocate[s] \in SUBSET Pods
    BY Zenon DEF ReleaseInv, TypeOK
  <1>1. /\ UNCHANGED <<pod, seen>> /\ UNCHANGED <<cache, listed, schedulable, toRelease, succeed, pc>>
        /\ evicting' = {} /\ pc = "allocate"
        /\ obj' = [obj EXCEPT ![s] = new] /\ toAllocate' = [toAllocate EXCEPT ![s] = {}]
        /\ sandbox' = sandbox \/ sandbox' = [sandbox EXCEPT ![s] = q]
        /\ \/ store' = UpdateAllocation(store, s, new.alloc)
           \/ store' = UpdateAllocation(UpdateAllocation(store, s, new.alloc), s, old.alloc)
    BY <1>0, Zenon DEF SyncSandboxAllocation, RollBack
  <1>2. /\ new.alloc = old.alloc \cup toAllocate[s] /\ new.release = old.release
        /\ new.released = old.released /\ new \in SandboxObj
    <2>1. /\ old.alloc \cup toAllocate[s] \in SUBSET Pods
          /\ old.len + Cardinality(toAllocate[s]) \in Nat
          /\ old.fins \cup {"pool"} \in SUBSET {"pool", "task"}
      BY <1>0, PodSetsFinite DEF SandboxObj
    <2>2. new = PatchAllocation(old, old.alloc \cup toAllocate[s],
                                old.len + Cardinality(toAllocate[s]),
                                old.fins \cup {"pool"})
      BY Zenon DEF LatestAllocated, WithPoolFinalizer
    <2> HIDE DEF old, new
    <2> QED
      BY <1>0, <2>1, <2>2, AllocPatch
  <1> HIDE DEF new
  <1>3. /\ q.alloc = new.alloc /\ q.release = sandbox[s].release
        /\ q.released = sandbox[s].released
    <2>1. new.alloc \in SUBSET Pods /\ new.len \in Nat /\ fins \in SUBSET {"pool", "task"}
      BY <1>0, <1>2, Zenon DEF SandboxObj
    <2> DEFINE o == sandbox[s]
    <2>2. q = PatchAllocation(o, new.alloc, new.len, fins)
      BY Zenon
    <2>3. o \in SandboxObj
      BY <1>0, Zenon
    <2> HIDE DEF fins, q, o
    <2>4. q.alloc = new.alloc /\ q.release = o.release /\ q.released = o.released
      BY <2>1, <2>2, <2>3, AllocPatch
    <2> QED
      BY <2>4, Zenon DEF o
  <1> HIDE DEF q
  <1>4. \A p \in new.alloc \cup old.alloc : Listable(p)
    <2>1. \A p \in toAllocate[s] : Listable(p)
      BY <1>1, Zenon DEF ReleaseInv, Listable
    <2> QED
      BY <1>2, <2>1, Zenon DEF ReleaseInv, Sound
  <1>5. Sound(new) /\ Sound(q)
    BY <1>2, <1>3, <1>4, Zenon DEF ReleaseInv, Sound
  <1>6. AllSound(sandbox') /\ AllSound(cache') /\ AllSound(obj')
    BY <1>0, <1>1, <1>5, Zenon DEF ReleaseInv, AllSound, TypeOK
  <1>7. \A p \in Pods : store'[p] # NoSandbox => Listable(p)
    BY <1>1, <1>4, Zenon DEF ReleaseInv, UpdateAllocation
  <1>8. \A t \in Sandboxes : toAllocate'[t] \subseteq listed'
    BY <1>0, <1>1, Zenon DEF ReleaseInv, TypeOK
  <1>9. PlanFollows
    BY <1>1, <1>7, <1>8, Zenon DEF ReleaseInv, PlanFollows
  <1>10. Onward
    BY <1>1, OnwardStill, Zenon
  <1> QED
    BY <1>6, <1>9, <1>10, ReleaseFrame, Zenon

(* The pass returns. *)
LEMMA EndPassRelease ==
    ASSUME ReleaseInv, TypeOK', EndPass, Onward, AllSound(sandbox'), AllSound(cache'),
           \A p \in Pods : store'[p] # NoSandbox => Listable(p)
    PROVE  ReleaseInv'
  <1>1. Sound(NoObj)
    BY Zenon DEF Sound, NoObj
  <1>2. AllSound(obj')
    BY <1>1, Zenon DEF AllSound, EndPass
  <1>3. PlanFollows
    BY Zenon DEF PlanFollows, EndPass, NoPods
  <1> QED
    BY <1>2, <1>3, ReleaseFrame, Zenon

(* Under the Delete policy only a pod that is not in the list is recycled  *)
(* with success.                                                           *)
LEMMA RecycleRelease ==
    ASSUME Recycle = "Delete", ReleaseInv, TypeOK', DoRecycle
    PROVE  ReleaseInv'
  <1>0. TypeOK /\ SeenBehind /\ evicting = {}
    BY Zenon DEF ReleaseInv
  <1>1. /\ UNCHANGED <<pod, seen>> /\ UNCHANGED <<sandbox, cache, store>>
        /\ evicting' = {} /\ pc = "allocate"
    BY <1>0, Zenon DEF DoRecycle, apiVars, memVars
  <1>2. AllSound(sandbox') /\ AllSound(cache') /\ \A p \in Pods : store'[p] # NoSandbox => Listable(p)
    BY <1>1, Zenon DEF ReleaseInv, AllSound
  <1>3. CASE failed
    <2>1. EndPass
      BY <1>3, Zenon DEF DoRecycle
    <2>2. Onward
      BY <1>1, <2>1, OnwardStill, Zenon DEF EndPass
    <2> QED
      BY <1>2, <2>1, <2>2, EndPassRelease, Zenon
  <1>4. CASE ~failed
    <2>1. PICK res \in [UNION {toRelease[s] : s \in Sandboxes} ->
                        {"succeeded", "recycling", "delete", "error"}] :
            /\ \A p \in DOMAIN res : res[p] \in RecycleResults(p)
            /\ succeed' = [s \in Sandboxes |-> {p \in toRelease[s] : res[p] = "succeeded"}]
      BY <1>4, Zenon DEF DoRecycle
    <2>2. pc' = "release" /\ UNCHANGED <<listed, schedulable, obj>>
      BY <1>4, Zenon DEF DoRecycle
    <2>3. \A s \in Sandboxes : \A p \in succeed'[s] : pod[p] \in Dead
      <3> SUFFICES ASSUME NEW s \in Sandboxes, NEW p \in succeed'[s] PROVE pod[p] \in Dead
        BY Zenon
      <3>1. p \in toRelease[s] /\ res[p] = "succeeded" /\ p \in Pods
        BY <1>0, <2>1, Zenon DEF TypeOK
      <3>2. p \in DOMAIN res /\ "succeeded" \in RecycleResults(p)
        BY <2>1, <3>1, Zenon
      <3>3. p \notin schedulable
        BY <3>2, Zenon DEF RecycleResults
      <3>4. Listable(p) /\ schedulable = listed
        BY <1>1, <3>1, Zenon DEF ReleaseInv
      <3>5. PodList[p] \in Dead
        BY <1>1, <3>3, <3>4, Zenon DEF Listable
      <3> QED
        BY <1>0, <3>1, <3>5, Zenon DEF PodList, SeenBehind
    <2>4. AllSound(obj')
      BY <2>2, Zenon DEF ReleaseInv, AllSound
    <2>5. PlanFollows
      BY <1>1, <1>2, <2>2, <2>3, Zenon DEF ReleaseInv, PlanFollows
    <2>6. Onward
      BY <1>1, <2>2, OnwardStill, Zenon
    <2> QED
      BY <1>2, <2>4, <2>5, <2>6, ReleaseFrame, Zenon
  <1> QED
    BY <1>3, <1>4, Zenon

(* The release patch of one sandbox, answered, refused or lost. *)
LEMMA SyncReleasedRelease ==
    ASSUME ReleaseInv, TypeOK', NEW s \in Sandboxes, SyncSandboxReleased(s)
    PROVE  ReleaseInv'
  <1> DEFINE old  == obj[s]
             all  == old.released \cup succeed[s]
             drop == old.phase = "terminating" /\ old.alloc \subseteq all
             kept == IF drop THEN old.fins \ {"pool"} ELSE old.fins
             new  == PatchReleased(old, all, kept)
             fins == IF drop /\ "pool" \in old.fins THEN new.fins
                     ELSE sandbox[s].fins
             q    == PatchReleased(sandbox[s], all, fins)
  <1>0. /\ TypeOK /\ evicting = {} /\ old \in SandboxObj /\ sandbox[s] \in SandboxObj
        /\ all \in SUBSET Pods
    BY Zenon DEF ReleaseInv, TypeOK, SandboxObj
  <1>1. /\ UNCHANGED <<pod, seen>> /\ UNCHANGED <<cache, listed, schedulable, pc>>
        /\ evicting' = {} /\ pc = "release"
        /\ obj' = [obj EXCEPT ![s] = new] /\ succeed' = [succeed EXCEPT ![s] = {}]
        /\ sandbox' = sandbox \/ sandbox' = [sandbox EXCEPT ![s] = Reap(q)]
        /\ store' = store \/ store' = ReleaseAllocation(store, all)
    BY <1>0, Zenon DEF SyncSandboxReleased
  <1>2. /\ new.alloc = old.alloc /\ new.release = old.release /\ new.released = all
        /\ new.fins = kept
    <2>1. kept \in SUBSET {"pool", "task"}
      BY <1>0, Zenon DEF SandboxObj
    <2> HIDE DEF old, all, kept
    <2> QED
      BY <1>0, <2>1, ReleasePatch
  <1> HIDE DEF new
  <1>3. /\ Reap(q).alloc = sandbox[s].alloc /\ Reap(q).released = all
        /\ Reap(q).release \subseteq sandbox[s].release
    <2>1. fins \in SUBSET {"pool", "task"}
      BY <1>0, <1>2, Zenon DEF SandboxObj
    <2> DEFINE o == sandbox[s]
    <2>2. q = PatchReleased(o, all, fins)
      BY Zenon
    <2>3. o \in SandboxObj
      BY <1>0, Zenon
    <2> HIDE DEF q, o, fins, all
    <2>4. q \in SandboxObj /\ q.alloc = o.alloc /\ q.release = o.release /\ q.released = all
      BY <1>0, <2>1, <2>2, <2>3, ReleasePatch
    <2> QED
      BY <2>4, ReapShape, Zenon DEF o
  <1> HIDE DEF q
  <1>4. \A p \in all : pod[p] \in Dead
    BY Zenon DEF ReleaseInv, Sound
  <1>5. Sound(new) /\ Sound(Reap(q))
    BY <1>2, <1>3, <1>4, Zenon DEF ReleaseInv, Sound
  <1>6. AllSound(sandbox') /\ AllSound(cache') /\ AllSound(obj')
    BY <1>0, <1>1, <1>5, Zenon DEF ReleaseInv, AllSound, TypeOK
  <1>7. \A p \in Pods : store'[p] # NoSandbox => Listable(p)
    BY <1>1, Zenon DEF ReleaseInv, ReleaseAllocation
  <1>8. \A t \in Sandboxes : succeed'[t] \subseteq succeed[t]
    BY <1>0, <1>1, Zenon DEF TypeOK
  <1>9. PlanFollows
    BY <1>1, <1>7, <1>8, Zenon DEF ReleaseInv, PlanFollows
  <1>10. Onward
    BY <1>1, OnwardStill, Zenon
  <1> QED
    BY <1>6, <1>9, <1>10, ReleaseFrame, Zenon

(* The end of doRelease, scaling, and a restart. *)
LEMMA EndRelease ==
    ASSUME ReleaseInv, TypeOK', ReleaseDone \/ Scale \/ ScaleNotReady \/ Crash
    PROVE  ReleaseInv'
  <1>0. TypeOK /\ SeenBehind /\ evicting = {}
    BY Zenon DEF ReleaseInv
  <1>1. sandbox' = sandbox /\ evicting' = {}
    BY <1>0, Zenon DEF ReleaseDone, Scale, ScaleNotReady, Crash, apiVars
  <1>2. cache' = cache \/ cache' = sandbox
    BY Zenon DEF ReleaseDone, Scale, ScaleNotReady, Crash
  <1>3. \A p \in Pods : store'[p] # NoSandbox => Listable(p)
    BY <1>0, Zenon DEF ReleaseDone, Scale, ScaleNotReady, Crash, memVars, ReleaseAllocation, EmptyStore, ReleaseInv
  <1>4. AllSound(sandbox') /\ AllSound(cache')
    BY <1>1, <1>2, Zenon DEF ReleaseInv, AllSound
  <1>5. /\ \A p \in Pods : /\ pod[p] \in Dead => pod'[p] \in Dead
                           /\ pod[p] # "none" => pod'[p] # "none"
        /\ seen' = seen \/ (seen' = pod /\ pod' = pod)
    <2>1. CASE Scale
      <3>1. PICK C \in SUBSET {p \in Pods : pod[p] = "none"}, D \in SUBSET Pods :
              pod' = [p \in Pods |-> IF p \in C THEN "pending"
                                     ELSE IF p \in D /\ pod[p] \in Live
                                     THEN "terminating" ELSE pod[p]]
        BY <1>0, <2>1, ScaleShape, Zenon
      <3>2. seen' = seen
        BY <2>1, Zenon DEF Scale
      <3> QED
        BY <3>1, <3>2, Zenon DEF Dead, Live
    <2>2. CASE ReleaseDone \/ ScaleNotReady \/ Crash
      BY <2>2, Zenon DEF ReleaseDone, ScaleNotReady, Crash, apiVars
    <2> QED
      BY <2>1, <2>2, Zenon
  <1>6. SeenBehind' /\ Advance
    <2>1. CASE seen' = seen
      BY <1>0, <1>5, <2>1, PodsAdvance, Zenon
    <2>2. CASE seen' = pod /\ pod' = pod
      BY <1>0, <2>2, Zenon DEF SeenBehind, Advance, PodList
    <2> QED
      BY <1>5, <2>1, <2>2, Zenon
  <1>7. CASE EndPass
    <2>1. Onward
      BY <1>1, <1>5, <1>6, <1>7, OnwardStep, Zenon DEF EndPass
    <2> QED
      BY <1>3, <1>4, <1>7, <2>1, EndPassRelease, Zenon
  <1>8. CASE StatusConflict
    <2>1. UNCHANGED <<listed, obj, succeed>> /\ pc' = "conflict" /\ pc # "idle"
      BY <1>8, Zenon DEF StatusConflict, ReleaseDone, Scale, ScaleNotReady, Crash, EndPass
    <2>2. Onward
      BY <1>1, <1>5, <1>6, <2>1, OnwardStep, Zenon
    <2>3. AllSound(obj') /\ PlanFollows
      BY <1>3, <2>1, Zenon DEF ReleaseInv, AllSound, PlanFollows
    <2> QED
      BY <1>4, <2>2, <2>3, ReleaseFrame, Zenon
  <1>9. CASE ReleaseDone /\ ~failed
    <2>1. /\ UNCHANGED <<listed, schedulable, obj>> /\ pc = "release" /\ pc' = "scale"
          /\ succeed' = NoPods
      BY <1>9, Zenon DEF ReleaseDone
    <2>2. Onward
      BY <1>1, <1>5, <1>6, <2>1, OnwardStep, Zenon
    <2>3. AllSound(obj') /\ PlanFollows
      BY <1>3, <2>1, Zenon DEF ReleaseInv, AllSound, PlanFollows, NoPods
    <2> QED
      BY <1>4, <2>2, <2>3, ReleaseFrame, Zenon
  <1>10. EndPass \/ StatusConflict \/ (ReleaseDone /\ ~failed)
    <2>1. Scale => EndPass \/ StatusConflict
      BY <1>0, ScaleShape, Zenon
    <2> QED
      BY <2>1, Zenon DEF ReleaseDone, ScaleNotReady, Crash
  <1> QED
    BY <1>7, <1>8, <1>9, <1>10, Zenon

(* Every step. *)
LEMMA NextReleaseInv ==
    ASSUME Recycle = "Delete", "evict" \notin Env, ReleaseInv, [Next]_vars
    PROVE  ReleaseInv'
  <1>1. TypeOK'
    BY NextTypeOK, Zenon DEF ReleaseInv
  <1>2. CASE Pass
    BY <1>1, <1>2, BeginRelease, ScheduleRelease, SyncAllocationRelease, RecycleRelease,
       SyncReleasedRelease, EndRelease, WorldRelease, Zenon DEF Pass
  <1>3. CASE Crash
    BY <1>1, <1>3, EndRelease, Zenon
  <1>4. CASE Users \/ \E s \in Sandboxes : RemoveTaskFinalizer(s)
    BY <1>1, <1>4, UserRelease, Zenon DEF Users
  <1>5. CASE \/ UpdateTemplate
             \/ \E s \in Sandboxes : DeliverSandbox(s)
             \/ \E p \in Pods : \/ PodReady(p) \/ PodGone(p) \/ DeliverPod(p)
                                \/ KillPod(p) \/ LabelEvict(p)
    BY <1>1, <1>5, WorldRelease, Zenon
  <1>6. CASE UNCHANGED vars
    <2>1. /\ UNCHANGED <<pod, seen>> /\ UNCHANGED <<evicting, sandbox, cache, store, pc>>
          /\ UNCHANGED <<listed, schedulable, obj, toAllocate, toRelease, succeed>>
      BY <1>6, Zenon DEF vars, apiVars, memVars, passVars
    <2>2. Onward
      BY <2>1, OnwardStill, Zenon DEF ReleaseInv
    <2>3. AllSound(sandbox') /\ AllSound(cache') /\ AllSound(obj') /\ PlanFollows
      BY <2>1, Zenon DEF ReleaseInv, AllSound, PlanFollows
    <2> QED
      BY <1>1, <2>2, <2>3, ReleaseFrame, Zenon
  <1> QED
    BY <1>2, <1>3, <1>4, <1>5, <1>6, Zenon DEF Next

(* Without eviction nothing else is needed for ReleasedMeansDeleted under  *)
(* the Delete policy: replies may be lost, lists stale, sandboxes detached *)
(* and the process restarted (SyncSandboxReleased, Recover, doRecycle).    *)
THEOREM ReleasesSurviveFaults ==
    ASSUME Recycle = "Delete", "evict" \notin Env PROVE Spec => []ReleasedMeansDeleted
  <1>1. Init => ReleaseInv
    <2> SUFFICES ASSUME Init PROVE ReleaseInv
      BY Zenon
    <2>1. TypeOK /\ SeenBehind
      BY InitScaleInv, Zenon DEF ScaleInv
    <2>2. /\ \A s \in Sandboxes : sandbox[s] = NoObj /\ cache[s] = NoObj /\ obj[s] = NoObj
          /\ evicting = {} /\ pc = "idle" /\ listed = {} /\ succeed = NoPods
          /\ \A p \in Pods : store[p] = NoSandbox
      BY Zenon DEF Init, EmptyStore
    <2>3. Sound(NoObj)
      BY Zenon DEF Sound, NoObj
    <2> QED
      BY <2>1, <2>2, <2>3, Zenon DEF ReleaseInv, NoPods
  <1>2. ReleaseInv /\ [Next]_vars => ReleaseInv'
    BY NextReleaseInv, Zenon
  <1>3. ReleaseInv => ReleasedMeansDeleted
    BY Zenon DEF ReleaseInv, Sound, ReleasedMeansDeleted, Dead
  <1> QED
    BY <1>1, <1>2, <1>3, PTL DEF Spec

=============================================================================
