--------------------------- MODULE ClientCapProofs ----------------------------
(***************************************************************************)
(* How far the idle list of the client-side pool may exceed max_idle.      *)
(*                                                                         *)
(* A tick plans its warm-up from one count of the idle list and renews its *)
(* lock before each put, and the store does not check the lock again.  A   *)
(* client that loses the lock between the renewal and the put still adds   *)
(* one entry, so the bound must pay for the puts under way (PutBy), and    *)
(* for all that the present owner may still put (CapInv).                  *)
(***************************************************************************)
EXTENDS ClientHoldProofs

\* The ticks that have renewed their lock and are about to put, and what a
\* tick may still put
PutBy == {c \in Clients : tick[c].pc = "put"}
Pending(c) == Cardinality(warm[c]) + Cardinality(made[c]) + tick[c].left
Cap == MaxIdle + Cardinality(Clients) - 1

\* The entries and the puts under way stay within the cap, and so does all
\* that the owner of the lock may still put
CapInv ==
  /\ \A c \in Clients : IsFiniteSet(warm[c]) /\ IsFiniteSet(made[c])
  /\ Cardinality(idle) + Cardinality(PutBy) <= Cap
  /\ \A c \in Clients : lock = c /\ tick[c].pc \in {"build", "put"} =>
       Cardinality(idle) + Pending(c) + Cardinality(PutBy \ {c}) <= Cap

\* The sets that are counted are finite
LEMMA CapCounts ==
  ASSUME TypeInv, CapInv
  PROVE  /\ Cap \in Int /\ Cardinality(idle) \in Nat /\ Cardinality(Clients) \in Nat \ {0}
         /\ IsFiniteSet(PutBy) /\ Cardinality(PutBy) \in Nat
         /\ \A c \in Clients : /\ Cardinality(warm[c]) \in Nat /\ Cardinality(made[c]) \in Nat
                               /\ tick[c].left \in Nat /\ Pending(c) \in Nat
                               /\ Cardinality(PutBy \ {c}) \in Nat
                               /\ Cardinality(PutBy \ {c}) <= Cardinality(Clients) - 1
  <1> USE ClientPoolAssumption, ClientsAssumption
  <1>1. Cardinality(Clients) \in Nat /\ Cardinality(Clients) # 0
    BY FS_CardinalityType, FS_EmptySet, Zenon
  <1>2. IsFiniteSet(PutBy) /\ Cardinality(PutBy) \in Nat
    <2>1. PutBy \subseteq Clients
      BY Zenon DEF PutBy
    <2> QED
      BY <2>1, FS_Subset, FS_CardinalityType, Zenon
  <1>3. Cardinality(idle) \in Nat
    BY FS_CardinalityType, Zenon DEF TypeInv, StoreT
  <1>4. ASSUME NEW c \in Clients
        PROVE  /\ Cardinality(warm[c]) \in Nat /\ Cardinality(made[c]) \in Nat
               /\ tick[c].left \in Nat
               /\ Cardinality(PutBy \ {c}) \in Nat
               /\ Cardinality(PutBy \ {c}) <= Cardinality(Clients) - 1
    <2>1. Cardinality(warm[c]) \in Nat /\ Cardinality(made[c]) \in Nat
      BY FS_CardinalityType, Zenon DEF CapInv
    <2>2. tick[c].left \in Nat
      BY DEF TypeInv, TickT, TickRecord
    <2>3. /\ IsFiniteSet(Clients \ {c})
          /\ Cardinality(Clients \ {c}) = Cardinality(Clients) - 1
      BY FS_RemoveElement, Zenon
    <2>4. PutBy \ {c} \subseteq Clients \ {c}
      BY Zenon DEF PutBy
    <2>5. /\ Cardinality(PutBy \ {c}) <= Cardinality(Clients \ {c})
          /\ Cardinality(PutBy \ {c}) \in Nat
      BY <2>3, <2>4, FS_Subset, FS_CardinalityType, Zenon
    <2> QED
      BY <2>1, <2>2, <2>3, <2>5, Zenon
  <1> QED
    BY <1>1, <1>2, <1>3, <1>4 DEF Cap, Pending

\* What a tick may still put is a number
LEMMA PendingCounts ==
  ASSUME TypeInv, CapInv, NEW c \in Clients
  PROVE  Pending(c) \in Nat /\ Pending(c) <= Pending(c)
  <1>1. Pending(c) \in Nat
    BY CapCounts, Zenon
  <1> QED
    BY <1>1

\* A step that adds no entry, no put and nothing to what the owner may put
LEMMA Recedes ==
  ASSUME TypeInv, CapInv, TypeInv', idle' \subseteq idle, PutBy' \subseteq PutBy,
         \A c \in Clients : IsFiniteSet(warm'[c]) /\ IsFiniteSet(made'[c]),
         \A c \in Clients : lock' = c /\ tick'[c].pc \in {"build", "put"} =>
           lock = c /\ tick[c].pc \in {"build", "put"} /\ Pending(c)' <= Pending(c)
  PROVE  CapInv'
  <1>1. Cardinality(idle') <= Cardinality(idle) /\ Cardinality(idle') \in Nat
    BY FS_Subset, FS_CardinalityType, Zenon DEF TypeInv, StoreT
  <1>2. Cardinality(PutBy') <= Cardinality(PutBy) /\ Cardinality(PutBy') \in Nat
    BY CapCounts, FS_Subset, FS_CardinalityType, Zenon
  <1>3. Cardinality(idle') + Cardinality(PutBy') <= Cap
    BY <1>1, <1>2, CapCounts DEF CapInv
  <1>4. ASSUME NEW c \in Clients, lock' = c, tick'[c].pc \in {"build", "put"}
        PROVE  Cardinality(idle') + Pending(c)' + Cardinality(PutBy' \ {c}) <= Cap
    <2>1. IsFiniteSet(PutBy \ {c}) /\ PutBy' \ {c} \subseteq PutBy \ {c}
      BY CapCounts, FS_RemoveElement, FS_Subset, Zenon
    <2>2. /\ Cardinality(PutBy' \ {c}) <= Cardinality(PutBy \ {c})
          /\ Cardinality(PutBy' \ {c}) \in Nat
      BY <2>1, FS_Subset, FS_CardinalityType, Zenon
    <2>3. Pending(c)' \in Nat
      <3>1. /\ Cardinality(warm'[c]) \in Nat /\ Cardinality(made'[c]) \in Nat
            /\ tick'[c].left \in Nat
        BY FS_CardinalityType, ClientPoolAssumption DEF TypeInv, TickT, TickRecord
      <3> QED
        BY <3>1 DEF Pending
    <2>4. /\ Pending(c)' <= Pending(c)
          /\ Cardinality(idle) + Pending(c) + Cardinality(PutBy \ {c}) <= Cap
      BY <1>4, Zenon DEF CapInv
    <2> QED
      BY <1>1, <2>2, <2>3, <2>4, CapCounts
  <1> QED
    BY <1>3, <1>4, Zenon DEF CapInv, Cap

\* Steps that leave the ticks alone
LEMMA CapIdleTicks ==
  ASSUME PoolInv, CapInv, Next, TypeInv', UNCHANGED <<tick, warm, made>>, lock' \in {lock, None},
         idle' \subseteq idle
  PROVE  CapInv'
  <1>1. UNCHANGED PutBy /\ \A c \in Clients : Pending(c)' = Pending(c)
    BY Zenon DEF PutBy, Pending
  <1>2. \A c \in Clients : lock' = c => lock = c
    BY ClientPoolAssumption, Zenon
  <1>3. \A c \in Clients : IsFiniteSet(warm'[c]) /\ IsFiniteSet(made'[c])
    BY Zenon DEF CapInv
  <1>4. \A c \in Clients : Pending(c)' <= Pending(c)
    BY <1>1, PendingCounts, Zenon DEF PoolInv
  <1> QED
    BY <1>1, <1>2, <1>3, <1>4, Recedes, Zenon DEF PoolInv

\* Steps of a tick that is not about to build or put
LEMMA CapElsewhere ==
  ASSUME PoolInv, CapInv, TypeInv', NEW c \in Clients, NEW r,
         tick' = [tick EXCEPT ![c] = r], r.pc \notin {"build", "put"},
         idle' \subseteq idle, lock' \in {lock, None, c},
         \A d \in Clients : d # c => warm'[d] = warm[d] /\ made'[d] = made[d],
         warm'[c] \subseteq warm[c], made'[c] \subseteq made[c]
  PROVE  CapInv'
  <1>1. tick \in [Clients -> TickRecord]
    BY Zenon DEF PoolInv, TypeInv, TickT
  <1>2. tick'[c] = r /\ \A d \in Clients : d # c => tick'[d] = tick[d]
    BY <1>1, Zenon
  <1>3. PutBy' \subseteq PutBy
    BY <1>2, Zenon DEF PutBy
  <1>4. \A d \in Clients : d # c => Pending(d)' = Pending(d)
    BY <1>2, Zenon DEF Pending
  <1>5. \A d \in Clients : lock' = d /\ tick'[d].pc \in {"build", "put"} => d # c /\ lock = d
    BY <1>2, ClientPoolAssumption
  <1>6. \A d \in Clients : IsFiniteSet(warm'[d]) /\ IsFiniteSet(made'[d])
    BY FS_Subset, Zenon DEF CapInv
  <1>7. \A d \in Clients : Pending(d) <= Pending(d)
    BY PendingCounts, Zenon DEF PoolInv
  <1> QED
    BY <1>2, <1>3, <1>4, <1>5, <1>6, <1>7, Recedes, Zenon DEF PoolInv

\* Steps of a tick that builds: it has less to put, or as much
LEMMA CapBuilding ==
  ASSUME PoolInv, CapInv, TypeInv', NEW c \in Clients,
         tick[c].pc = "build", tick'[c].pc = "build", lock' \in {lock, None}, UNCHANGED idle,
         \A d \in Clients : d # c => /\ warm'[d] = warm[d] /\ made'[d] = made[d]
                                     /\ tick'[d] = tick[d],
         IsFiniteSet(warm'[c]) /\ IsFiniteSet(made'[c]), Pending(c)' <= Pending(c)
  PROVE  CapInv'
  <1>1. UNCHANGED PutBy
    BY Zenon DEF PutBy
  <1>2. \A d \in Clients : d # c => Pending(d)' = Pending(d)
    BY Zenon DEF Pending
  <1>3. \A d \in Clients : IsFiniteSet(warm'[d]) /\ IsFiniteSet(made'[d])
    BY Zenon DEF CapInv
  <1>4. \A d \in Clients : lock' = d => lock = d
    BY ClientPoolAssumption, Zenon
  <1>5. \A d \in Clients : Pending(d)' <= Pending(d)
    BY <1>2, PendingCounts, Zenon DEF PoolInv
  <1>6. \A d \in Clients : tick'[d].pc \in {"build", "put"} => tick[d].pc \in {"build", "put"}
    BY Zenon
  <1> QED
    BY <1>1, <1>3, <1>4, <1>5, <1>6, Recedes DEF PoolInv

\* The steps of everybody but the ticks
LEMMA CapOthers ==
  ASSUME PoolInv, CapInv, Next, TypeInv',
         \/ \E c \in Clients : \/ Start(c) \/ Shutdown(c) \/ ShutdownNow(c) \/ Drained(c)
                               \/ \E i \in Sandboxes : BackgroundKill(c, i)
         \/ \E a \in Callers : Acquire(a)
         \/ Drain
         \/ LockExpires \/ DestroyRaises
         \/ \E i \in Sandboxes : Age(i) \/ Dies(i) \/ BorrowerKills(i)
         \/ \E n \in 0..MaxIdle : Resize(n)
  PROVE  CapInv'
  <1> DEFINE Still == UNCHANGED <<tick, warm, made>> /\ lock' \in {lock, None} /\ idle' \subseteq idle
  <1> USE DEF storeVars, tickVars
  <1>1. ASSUME NEW c \in Clients, Start(c) \/ Shutdown(c) \/ ShutdownNow(c) \/ Drained(c)
        PROVE  Still
    BY <1>1, Zenon DEF Start, Shutdown, ShutdownNow, Drained, Released
  <1>2. ASSUME NEW c \in Clients, NEW i \in Sandboxes, BackgroundKill(c, i) PROVE Still
    BY <1>2 DEF BackgroundKill
  <1>3. ASSUME NEW a \in Callers, Acquire(a) PROVE Still
    <2>1. CASE AcquireTake(a)
      BY <2>1, TakesEbb, Zenon DEF AcquireTake, PoolInv, TypeInv
    <2> QED
      BY <1>3, <2>1, Zenon DEF Acquire, AcquireBegin, AcquireCheck, AcquireConnect, AcquireStale,
                        AcquireCreate, AcquireReturn
  <1>4. CASE Drain
    <2>1. CASE DrainTake
      BY <2>1, TakesEbb, CapIdleTicks DEF DrainTake, PoolInv, TypeInv
    <2>2. CASE ~DrainTake
      <3>1. Still
        BY <1>4, <2>2, Zenon DEF Drain, Destroy, ReleaseAllIdle, DrainKill, ClearPoolState, MarkDestroyed
      <3> QED
        BY <3>1, CapIdleTicks, Zenon
    <2> QED
      BY <2>1, <2>2, Zenon
  <1>5. CASE \/ LockExpires \/ DestroyRaises
             \/ \E i \in Sandboxes : Age(i) \/ Dies(i) \/ BorrowerKills(i)
             \/ \E n \in 0..MaxIdle : Resize(n)
    <2>1. Still
      BY <1>5, Zenon DEF LockExpires, DestroyRaises, Age, Dies, BorrowerKills, Resize
    <2> QED
      BY <2>1, CapIdleTicks, Zenon
  <1> QED
    BY <1>1, <1>2, <1>3, <1>4, <1>5, CapIdleTicks

\* The steps of a tick that does not build, and the ends of one
LEMMA CapTicks ==
  ASSUME PoolInv, CapInv, Next, TypeInv', NEW c \in Clients,
         \/ TickStart(c) \/ TickCheck(c) \/ TickStop(c) \/ TickLock(c) \/ TickReap(c)
         \/ TickShrink(c) \/ TickPop(c) \/ (\E i \in Sandboxes : TickDiscard(c, i))
         \/ HaltTick(c) \/ TickRaises(c) \/ Crash(c)
  PROVE  CapInv'
  <1> USE DEF storeVars
  <1> DEFINE r(p, t) == [pc |-> p, target |-> t, left |-> tick[c].left]
  <1>1. /\ warm \in [Clients -> SUBSET Sandboxes] /\ made \in [Clients -> SUBSET Sandboxes]
        /\ TickOff.pc \notin {"build", "put"}
    BY Zenon DEF PoolInv, TypeInv, TickT, TickOff
  <1>2. CASE TickStart(c) \/ TickCheck(c) \/ TickLock(c) \/ TickShrink(c) \/ TickReap(c)
    <2>1. /\ UNCHANGED <<warm, made>> /\ idle' \subseteq idle /\ lock' \in {lock, None, c}
      BY <1>2, SMTT(30) DEF TickStart, TickCheck, TickLock, TickShrink, TickReap
    <2>2. \/ tick' = [tick EXCEPT ![c] = TickOff]
          \/ \E p \in {"check", "stop", "lock", "reap", "count", "pop"} : \E t :
               tick' = [tick EXCEPT ![c] = r(p, t)]
      BY <1>2, Zenon DEF TickStart, TickCheck, TickLock, TickShrink, TickReap, GoTo, TickAt, TickEnds
    <2>3. CASE tick' = [tick EXCEPT ![c] = TickOff]
      BY <1>1, <2>1, <2>3, CapElsewhere, Zenon
    <2>4. ASSUME NEW p \in {"check", "stop", "lock", "reap", "count", "pop"}, NEW t,
                 tick' = [tick EXCEPT ![c] = r(p, t)]
          PROVE  CapInv'
      <3>1. r(p, t).pc \notin {"build", "put"}
        BY Zenon
      <3> HIDE DEF r
      <3> QED
        BY <2>1, <2>4, <3>1, CapElsewhere, Zenon
    <2> QED
      BY <2>2, <2>3, <2>4, SMTT(30)
  <1>3. CASE TickStop(c) \/ TickRaises(c) \/ HaltTick(c) \/ Crash(c)
    <2>1. idle' \subseteq idle /\ tick' = [tick EXCEPT ![c] = TickOff]
      BY <1>3, Zenon DEF TickStop, TickRaises, HaltTick, Crash, TickEnds
    <2>2. lock' \in {lock, None, c}
      BY <1>3, Zenon DEF TickStop, TickRaises, HaltTick, Crash, Released
    <2>3. /\ \A d \in Clients : d # c => warm'[d] = warm[d] /\ made'[d] = made[d]
          /\ warm'[c] \subseteq warm[c] /\ made'[c] \subseteq made[c]
      BY <1>1, <1>3, Zenon DEF TickStop, TickRaises, HaltTick, Crash
    <2> QED
      BY <1>1, <2>1, <2>2, <2>3, CapElsewhere, Zenon
  <1>4. CASE TickPop(c)
    <2>1. UNCHANGED <<warm, made, lock>> /\ idle' \subseteq idle
      BY <1>4, TakesEbb, Zenon DEF TickPop, PoolInv, TypeInv
    <2> DEFINE q == [pc |-> "shrink", target |-> tick[c].target, left |-> tick[c].left - 1]
    <2>2. tick' = [tick EXCEPT ![c] = TickOff] \/ tick' = [tick EXCEPT ![c] = q]
      BY <1>4, SMTT(30) DEF TickPop, TickEnds, TickAt
    <2>3. q.pc \notin {"build", "put"}
      BY Zenon
    <2> HIDE DEF q
    <2> QED
      BY <1>1, <2>1, <2>2, <2>3, CapElsewhere, SMTT(30)
  <1>5. ASSUME NEW i \in Sandboxes, TickDiscard(c, i) PROVE CapInv'
    <2>1. UNCHANGED <<warm, made, lock>> /\ idle' \subseteq idle
      BY <1>5, Zenon DEF TickDiscard
    <2>2. tick' = [tick EXCEPT ![c] = TickOff] \/ UNCHANGED tick
      BY <1>5, Zenon DEF TickDiscard, TickEnds
    <2> QED
      BY <1>1, <2>1, <2>2, CapElsewhere, CapIdleTicks
  <1> QED
    BY <1>2, <1>3, <1>4, <1>5

\* The tasks of a tick that builds end, or are cancelled
LEMMA CapJoin ==
  ASSUME PoolInv, CapInv, Next, TypeInv', NEW c \in Clients, Join(c)
  PROVE  CapInv'
  <1>1. /\ warm \in [Clients -> SUBSET Sandboxes] /\ tick \in [Clients -> TickRecord]
        /\ UNCHANGED <<idle, made>> /\ lock' \in {lock, None}
        /\ warm' = [warm EXCEPT ![c] = @ \ Awaited(c)]
    BY Zenon DEF Join, Released, PoolInv, TypeInv, TickT
  <1>2. /\ IsFiniteSet(warm'[c]) /\ Cardinality(warm'[c]) <= Cardinality(warm[c])
        /\ Cardinality(warm'[c]) \in Nat
    <2>1. warm'[c] \subseteq warm[c] /\ IsFiniteSet(warm[c])
      BY <1>1, Zenon DEF CapInv
    <2> QED
      BY <2>1, FS_Subset, FS_CardinalityType
  <1>3. /\ Cardinality(warm[c]) \in Nat /\ Cardinality(made[c]) \in Nat
        /\ tick[c].left \in Nat
    BY CapCounts, Zenon DEF PoolInv
  <1>4. CASE None \in Awaited(c)
    <2>1. tick[c].pc = "build"
      BY <1>4, ClientPoolAssumption, Zenon DEF Awaited, Tasks, PoolInv, TypeInv, TickT, CallT
    <2>2. tick' = [tick EXCEPT ![c] = [pc |-> "build", target |-> tick[c].target, left |-> 0]]
      BY <1>4, Zenon DEF Join, TickAt
    <2>3. Pending(c)' <= Pending(c)
      <3>1. tick'[c].left = 0 /\ made'[c] = made[c]
        BY <1>1, <2>2, Zenon
      <3> QED
        BY <1>2, <1>3, <3>1 DEF Pending
    <2>4. /\ tick'[c].pc = "build" /\ IsFiniteSet(made'[c])
          /\ \A d \in Clients : d # c => /\ warm'[d] = warm[d] /\ made'[d] = made[d]
                                         /\ tick'[d] = tick[d]
      BY <1>1, <2>2, Zenon DEF CapInv
    <2> QED
      BY <1>1, <1>2, <2>1, <2>3, <2>4, CapBuilding, Zenon
  <1>5. CASE None \notin Awaited(c)
    <2>1. UNCHANGED tick
      BY <1>5, Zenon DEF Join
    <2>2. CASE tick[c].pc = "build"
      <3>1. Pending(c)' <= Pending(c)
        BY <1>1, <1>2, <1>3, <2>1 DEF Pending
      <3>2. /\ IsFiniteSet(made'[c])
            /\ \A d \in Clients : d # c => /\ warm'[d] = warm[d] /\ made'[d] = made[d]
                                           /\ tick'[d] = tick[d]
        BY <1>1, <2>1, Zenon DEF CapInv
      <3> QED
        BY <1>1, <1>2, <2>1, <2>2, <3>1, <3>2, CapBuilding, Zenon
    <2>3. CASE tick[c].pc # "build"
      <3>1. warm[c] = {}
        BY <2>3, Zenon DEF PoolInv, TypeInv, TickT, TickShape
      <3>2. UNCHANGED warm
        BY <1>1, <3>1, Zenon
      <3> QED
        BY <1>1, <2>1, <3>2, CapIdleTicks, Zenon
    <2> QED
      BY <2>2, <2>3, Zenon
  <1> QED
    BY <1>4, <1>5

\* A warm-up builds or ends
LEMMA CapWarm ==
  ASSUME PoolInv, CapInv, Next, TypeInv', NEW c \in Clients,
         WarmBuild(c) \/ \E i \in Sandboxes : WarmFinish(c, i)
  PROVE  CapInv'
  <1>1. /\ warm \in [Clients -> SUBSET Sandboxes] /\ made \in [Clients -> SUBSET Sandboxes]
        /\ tick \in [Clients -> TickRecord]
        /\ IsFiniteSet(warm[c]) /\ IsFiniteSet(made[c])
        /\ TickShape(tick[c], warm[c], made[c], purge[c])
    BY Zenon DEF PoolInv, TypeInv, TickT, CapInv
  <1>2. /\ Cardinality(warm[c]) \in Nat /\ Cardinality(made[c]) \in Nat
        /\ tick[c].left \in Nat
    BY CapCounts, Zenon DEF PoolInv
  <1>3. UNCHANGED <<idle, lock>>
    BY Zenon DEF WarmBuild, WarmFinish, storeVars
  <1>4. ASSUME tick[c].pc = "build", tick'[c].pc = "build",
               \A d \in Clients : d # c => /\ warm'[d] = warm[d] /\ made'[d] = made[d]
                                           /\ tick'[d] = tick[d],
               IsFiniteSet(warm'[c]), IsFiniteSet(made'[c]), Pending(c)' <= Pending(c)
        PROVE  CapInv'
    BY <1>3, <1>4, CapBuilding, Zenon
  <1>5. CASE WarmBuild(c)
    <2>1. /\ tick[c].pc = "build" /\ tick'[c].pc = "build" /\ tick'[c].left = tick[c].left - 1
          /\ \A d \in Clients : d # c => tick'[d] = tick[d]
          /\ UNCHANGED made /\ tick[c].left > 0
      BY <1>1, <1>5, Zenon DEF WarmBuild, TickAt
    <2>2. UNCHANGED warm \/ \E i : warm' = [warm EXCEPT ![c] = @ \cup {i}]
      BY <1>5, Zenon DEF WarmBuild
    <2>3. \A d \in Clients : d # c => warm'[d] = warm[d]
      BY <1>1, <2>2, Zenon
    <2>4. /\ IsFiniteSet(warm'[c]) /\ Cardinality(warm'[c]) \in Nat
          /\ Cardinality(warm'[c]) <= Cardinality(warm[c]) + 1
      <3>1. CASE UNCHANGED warm
        BY <1>1, <1>2, <3>1
      <3>2. ASSUME NEW i, warm' = [warm EXCEPT ![c] = @ \cup {i}]
            PROVE  /\ IsFiniteSet(warm'[c]) /\ Cardinality(warm'[c]) \in Nat
                   /\ Cardinality(warm'[c]) <= Cardinality(warm[c]) + 1
        <4>1. warm'[c] = warm[c] \cup {i}
          BY <1>1, <3>2, Zenon
        <4>2. /\ IsFiniteSet(warm[c] \cup {i})
              /\ Cardinality(warm[c] \cup {i}) = Cardinality(warm[c])
                 \/ Cardinality(warm[c] \cup {i}) = Cardinality(warm[c]) + 1
          BY <1>1, FS_AddElement, SMTT(30)
        <4> QED
          BY <1>2, <4>1, <4>2
      <3> QED
        BY <2>2, <3>1, <3>2, Zenon
    <2>5. Pending(c)' <= Pending(c)
      BY <1>2, <2>1, <2>4 DEF Pending
    <2> QED
      BY <1>1, <1>4, <2>1, <2>3, <2>4, <2>5
  <1>6. ASSUME NEW i \in Sandboxes, WarmFinish(c, i) PROVE CapInv'
    <2>1. /\ i \in warm[c] /\ UNCHANGED tick /\ warm' = [warm EXCEPT ![c] = @ \ {i}]
          /\ UNCHANGED made \/ made' = [made EXCEPT ![c] = @ \cup {i}]
      BY <1>6, Zenon DEF WarmFinish
    <2>2. tick[c].pc = "build"
      BY <1>1, <2>1, Zenon DEF TickShape
    <2>3. /\ IsFiniteSet(warm'[c]) /\ Cardinality(warm'[c]) = Cardinality(warm[c]) - 1
      BY <1>1, <2>1, FS_RemoveElement, SMTT(30)
    <2>4. /\ IsFiniteSet(made'[c]) /\ Cardinality(made'[c]) \in Nat
          /\ Cardinality(made'[c]) <= Cardinality(made[c]) + 1
      <3>1. CASE UNCHANGED made
        BY <1>1, <1>2, <3>1
      <3>2. CASE made' = [made EXCEPT ![c] = @ \cup {i}]
        <4>1. made'[c] = made[c] \cup {i}
          BY <1>1, <3>2, Zenon
        <4>2. /\ IsFiniteSet(made[c] \cup {i})
              /\ Cardinality(made[c] \cup {i}) = Cardinality(made[c])
                 \/ Cardinality(made[c] \cup {i}) = Cardinality(made[c]) + 1
          BY <1>1, FS_AddElement, Zenon
        <4> QED
          BY <1>2, <4>1, <4>2
      <3> QED
        BY <2>1, <3>1, <3>2, Zenon
    <2>5. Pending(c)' <= Pending(c)
      BY <1>2, <2>1, <2>3, <2>4 DEF Pending
    <2>6. \A d \in Clients : d # c => /\ warm'[d] = warm[d] /\ made'[d] = made[d]
                                      /\ tick'[d] = tick[d]
      BY <1>1, <2>1, Zenon
    <2> QED
      BY <1>4, <2>1, <2>2, <2>3, <2>4, <2>5, <2>6, Zenon
  <1> QED
    BY <1>5, <1>6, Zenon

\* The deficit of a tick fits under the cap, whoever is still to put
LEMMA CapCount ==
  ASSUME PoolInv, CapInv, Next, TypeInv', NEW c \in Clients, TickCount(c)
  PROVE  CapInv'
  <1> DEFINE n == Cardinality(idle)
             t == tick[c].target
             b == [pc |-> "build", target |-> t, left |-> Least(t - n, WarmupConcurrency)]
             s == [pc |-> "shrink", target |-> t, left |-> Least(n - t, WarmupConcurrency)]
  <1>1. UNCHANGED <<idle, lock, warm, made>>
    BY Zenon DEF TickCount, storeVars
  <1>2. /\ tick \in [Clients -> TickRecord] /\ t \in 0..MaxIdle
        /\ TickShape(tick[c], warm[c], made[c], purge[c]) /\ tick[c].pc = "count"
    BY Zenon DEF TickCount, PoolInv, TypeInv, TickT, TickRecord
  <1>3. CASE TickEnds(c)
    <2>1. TickOff.pc \notin {"build", "put"}
      BY Zenon DEF TickOff
    <2> QED
      BY <1>1, <1>3, <2>1, CapElsewhere, Zenon DEF TickEnds
  <1>4. CASE TickAt(c, "shrink", t, Least(n - t, WarmupConcurrency))
    <2>1. s.pc \notin {"build", "put"} /\ tick' = [tick EXCEPT ![c] = s]
      BY <1>4, Zenon DEF TickAt
    <2> HIDE DEF s
    <2> QED
      BY <1>1, <2>1, CapElsewhere, Zenon
  <1>5. CASE n < t /\ TickAt(c, "build", t, Least(t - n, WarmupConcurrency))
    <2>1. /\ tick'[c] = b /\ \A d \in Clients : d # c => tick'[d] = tick[d]
      BY <1>2, <1>5, SMTT(30) DEF TickAt
    <2>2. UNCHANGED PutBy
      BY <1>2, <2>1 DEF PutBy
    <2>3. warm[c] = {} /\ made[c] = {}
      BY <1>2, Zenon DEF TickShape
    <2>4. n \in Nat
      BY CapCounts, Zenon DEF PoolInv
    <2>5. Pending(c)' = Least(t - n, WarmupConcurrency)
      <3>1. Cardinality(warm'[c]) = 0 /\ Cardinality(made'[c]) = 0
        BY <1>1, <2>3, FS_EmptySet, Zenon
      <3>2. tick'[c].left = Least(t - n, WarmupConcurrency)
        BY <2>1
      <3>3. Least(t - n, WarmupConcurrency) \in Nat
        BY <1>2, <1>5, <2>4, ClientPoolAssumption DEF Least
      <3> QED
        BY <3>1, <3>2, <3>3 DEF Pending
    <2>6. n + Least(t - n, WarmupConcurrency) <= MaxIdle
      BY <1>2, <1>5, <2>4, ClientPoolAssumption DEF Least
    <2>7. /\ Cardinality(PutBy \ {c}) \in Nat /\ Cardinality(Clients) \in Nat
          /\ Cardinality(PutBy \ {c}) <= Cardinality(Clients) - 1
      BY CapCounts, Zenon DEF PoolInv
    <2>8. Cardinality(idle') + Pending(c)' + Cardinality(PutBy' \ {c}) <= Cap
      <3>1. Least(t - n, WarmupConcurrency) \in Nat
        BY <1>2, <1>5, <2>4, ClientPoolAssumption DEF Least
      <3> HIDE DEF n, t
      <3>2. n + Least(t - n, WarmupConcurrency) + Cardinality(PutBy \ {c}) <= Cap
        BY <2>4, <2>6, <2>7, <3>1, ClientPoolAssumption DEF Cap
      <3> QED
        BY <1>1, <2>2, <2>5, <3>2, Zenon DEF n
    <2>9. ASSUME NEW d \in Clients, d # c, lock' = d, tick'[d].pc \in {"build", "put"}
          PROVE  Cardinality(idle') + Pending(d)' + Cardinality(PutBy' \ {d}) <= Cap
      <3>1. Pending(d)' = Pending(d)
        BY <1>1, <2>1, <2>9, SMTT(30) DEF Pending
      <3> QED
        BY <1>1, <2>1, <2>2, <2>9, <3>1, SMTT(30) DEF CapInv
    <2> QED
      BY <1>1, <2>2, <2>8, <2>9, Zenon DEF CapInv, Cap
  <1> QED
    BY <1>3, <1>4, <1>5, Zenon DEF TickCount

\* The owner of the lock goes on to put one of what it has made
LEMMA CapRenew ==
  ASSUME PoolInv, CapInv, Next, TypeInv', NEW c \in Clients, TickRenew(c)
  PROVE  CapInv'
  <1>1. UNCHANGED <<idle, lock, warm>> /\ tick[c].pc = "build"
    BY Zenon DEF TickRenew, storeVars
  <1>2. /\ tick \in [Clients -> TickRecord] /\ made \in [Clients -> SUBSET Sandboxes]
        /\ \A d \in Clients : IsFiniteSet(warm[d]) /\ IsFiniteSet(made[d])
    BY Zenon DEF PoolInv, TypeInv, TickT, CapInv
  <1>3. ASSUME NEW r, r.pc \notin {"build", "put"}, tick' = [tick EXCEPT ![c] = r],
               UNCHANGED made \/ made' = [made EXCEPT ![c] = {}]
        PROVE  CapInv'
    <2>1. /\ \A d \in Clients : d # c => warm'[d] = warm[d] /\ made'[d] = made[d]
          /\ warm'[c] \subseteq warm[c] /\ made'[c] \subseteq made[c]
      BY <1>1, <1>2, <1>3
    <2> QED
      BY <1>1, <1>3, <2>1, CapElsewhere, ZenonT(30)
  <1>4. CASE TickEnds(c) /\ UNCHANGED made
    BY <1>3, <1>4, Zenon DEF TickEnds, TickOff
  <1>5. CASE LockLost(c)
    <2> DEFINE r == [pc |-> "drop", target |-> tick[c].target, left |-> tick[c].left]
    <2>1. /\ tick' = [tick EXCEPT ![c] = r] /\ r.pc \notin {"build", "put"}
          /\ made' = [made EXCEPT ![c] = {}]
      BY <1>5 DEF LockLost, GoTo, TickAt
    <2> HIDE DEF r
    <2> QED
      BY <1>3, <2>1, Zenon
  <1>6. CASE made[c] # {} /\ CanRenew(c) /\ GoTo(c, "put") /\ UNCHANGED made
    <2>1. /\ tick'[c].pc = "put" /\ tick'[c].left = tick[c].left
          /\ \A d \in Clients : d # c => tick'[d] = tick[d]
      BY <1>2, <1>6 DEF GoTo, TickAt
    <2>2. PutBy' = PutBy \cup {c} /\ c \notin PutBy
      BY <1>1, <2>1 DEF PutBy
    <2>3. Pending(c)' = Pending(c) /\ lock = c
      BY <1>1, <1>6, <2>1 DEF Pending, CanRenew
    <2>4. Cardinality(idle) + Pending(c) + Cardinality(PutBy \ {c}) <= Cap
      BY <1>1, <2>3 DEF CapInv
    <2>5. PutBy' \ {c} = PutBy /\ PutBy \ {c} = PutBy
      BY <2>2
    <2>6. Pending(c) >= 1
      <3>1. Cardinality(made[c]) \in Nat /\ Cardinality(made[c]) # 0
        BY <1>2, <1>6, FS_CardinalityType, FS_EmptySet
      <3>2. Cardinality(warm[c]) \in Nat /\ tick[c].left \in Nat
        BY CapCounts, Zenon DEF PoolInv
      <3> QED
        BY <3>1, <3>2 DEF Pending
    <2>7. Cardinality(PutBy') = Cardinality(PutBy) + 1
      BY <2>2, CapCounts, FS_AddElement DEF PoolInv
    <2>8. Cardinality(idle') + Cardinality(PutBy') <= Cap
      <3>1. /\ Cap \in Int /\ Cardinality(idle) \in Nat /\ Cardinality(PutBy) \in Nat
            /\ Pending(c) \in Nat
        BY CapCounts, Zenon DEF PoolInv
      <3> QED
        BY <1>1, <2>4, <2>5, <2>6, <2>7, <3>1
    <2>9. Cardinality(idle') + Pending(c)' + Cardinality(PutBy' \ {c}) <= Cap
      BY <1>1, <2>3, <2>4, <2>5, SMTT(30)
    <2> QED
      BY <1>1, <1>2, <1>6, <2>3, <2>8, <2>9, Zenon DEF CapInv, Cap
  <1> QED
    BY <1>4, <1>5, <1>6, SMTT(30) DEF TickRenew

\* A put fills one of the places that were reserved for it
LEMMA CapPut ==
  ASSUME PoolInv, CapInv, Next, TypeInv', NEW c \in Clients, TickPut(c)
  PROVE  CapInv'
  <1>1. PICK i \in made[c], r \in PutOutcomes :
             /\ idle' = IF r \in {"stored", "unknown"} THEN idle \cup {i} ELSE idle
             /\ \/ r = "stored" /\ made' = [made EXCEPT ![c] = @ \ {i}] /\ GoTo(c, "build")
                \/ r # "stored" /\ LockLost(c)
    BY Zenon DEF TickPut
  <1>2. /\ UNCHANGED <<lock, warm>> /\ tick[c].pc = "put"
        /\ tick \in [Clients -> TickRecord] /\ made \in [Clients -> SUBSET Sandboxes]
        /\ IsFiniteSet(idle) /\ \A d \in Clients : IsFiniteSet(warm[d]) /\ IsFiniteSet(made[d])
    BY Zenon DEF TickPut, PoolInv, TypeInv, StoreT, TickT, CapInv
  <1>3. /\ Cap \in Int /\ Cardinality(idle) \in Nat /\ Cardinality(PutBy) \in Nat
        /\ IsFiniteSet(PutBy)
        /\ Cardinality(warm[c]) \in Nat /\ Cardinality(made[c]) \in Nat /\ tick[c].left \in Nat
    BY CapCounts, Zenon DEF PoolInv
  <1>4. Cardinality(idle') \in Nat /\ Cardinality(idle') <= Cardinality(idle) + 1
    <2>1. Cardinality(idle \cup {i}) \in {Cardinality(idle), Cardinality(idle) + 1}
      BY <1>2, FS_AddElement, Zenon
    <2> QED
      BY <1>1, <1>3, <2>1
  <1>5. /\ tick'[c].pc = (IF r = "stored" THEN "build" ELSE "drop") /\ tick'[c].left = tick[c].left
        /\ \A d \in Clients : d # c => tick'[d] = tick[d]
    BY <1>1, <1>2 DEF GoTo, LockLost, TickAt
  <1>6. /\ made'[c] = (IF r = "stored" THEN made[c] \ {i} ELSE {})
        /\ \A d \in Clients : d # c => made'[d] = made[d]
    BY <1>1, <1>2, Zenon DEF LockLost
  <1>7. PutBy' = PutBy \ {c} /\ c \in PutBy
    BY <1>2, <1>5, Zenon DEF PutBy
  <1>8. Cardinality(PutBy') = Cardinality(PutBy) - 1
    BY <1>3, <1>7, FS_RemoveElement, Zenon
  <1>9. Cardinality(idle') + Cardinality(PutBy') <= Cap
    BY <1>3, <1>4, <1>8 DEF CapInv
  <1>10. IsFiniteSet(made[c] \ {i}) /\ Cardinality(made[c] \ {i}) = Cardinality(made[c]) - 1
    BY <1>2, FS_RemoveElement, Zenon
  <1>11. \A d \in Clients : IsFiniteSet(warm'[d]) /\ IsFiniteSet(made'[d])
    BY <1>2, <1>6, <1>10, FS_EmptySet, Zenon
  <1>12. ASSUME lock' = c, tick'[c].pc \in {"build", "put"}
         PROVE  Cardinality(idle') + Pending(c)' + Cardinality(PutBy' \ {c}) <= Cap
    <2>1. Pending(c)' = Pending(c) - 1 /\ Pending(c) \in Nat
      BY <1>2, <1>3, <1>5, <1>6, <1>10, <1>12, SMTT(30) DEF Pending
    <2>2. Cardinality(idle) + Pending(c) + Cardinality(PutBy \ {c}) <= Cap
      BY <1>2, <1>12 DEF CapInv
    <2>3. Cardinality(PutBy' \ {c}) = Cardinality(PutBy \ {c})
      BY <1>7
    <2>4. Cardinality(PutBy \ {c}) \in Nat
      BY <1>3, FS_RemoveElement, FS_CardinalityType, SMTT(30)
    <2> QED
      BY <1>3, <1>4, <2>1, <2>2, <2>3, <2>4, SMTT(30)
  <1>13. ASSUME NEW d \in Clients, d # c, lock' = d, tick'[d].pc \in {"build", "put"}
         PROVE  Cardinality(idle') + Pending(d)' + Cardinality(PutBy' \ {d}) <= Cap
    <2>1. Pending(d)' = Pending(d) /\ Pending(d) \in Nat
      BY <1>2, <1>5, <1>6, <1>13, PendingCounts, SMTT(30) DEF Pending, PoolInv
    <2>2. Cardinality(idle) + Pending(d) + Cardinality(PutBy \ {d}) <= Cap
      BY <1>2, <1>5, <1>13, SMTT(30) DEF CapInv
    <2>3. /\ PutBy' \ {d} = (PutBy \ {d}) \ {c} /\ c \in PutBy \ {d} /\ IsFiniteSet(PutBy \ {d})
      BY <1>3, <1>7, <1>13, FS_RemoveElement
    <2>4. Cardinality(PutBy' \ {d}) = Cardinality(PutBy \ {d}) - 1 /\ Cardinality(PutBy \ {d}) \in Nat
      BY <2>3, FS_RemoveElement, FS_CardinalityType, ZenonT(30)
    <2> QED
      BY <1>3, <1>4, <2>1, <2>2, <2>4, SMTT(30)
  <1> QED
    BY <1>9, <1>11, <1>12, <1>13 DEF CapInv, Cap

\* Every step keeps the cap
LEMMA CapStep ==
  ASSUME PoolInv, CapInv, [Next]_vars
  PROVE  CapInv'
  <1>1. TypeInv'
    BY TypesStep, Zenon DEF PoolInv
  <1>2. CASE UNCHANGED vars
    <2>1. UNCHANGED <<idle, lock, tick, warm, made>>
      BY <1>2, Zenon DEF vars, storeVars, tickVars
    <2> QED
      BY <2>1, Zenon DEF CapInv, PutBy, Pending, Cap
  <1>3. CASE Next
    <2>1. ASSUME NEW c \in Clients, Tick(c) PROVE CapInv'
      BY <1>1, <1>3, <2>1, CapTicks, CapWarm, CapCount, CapRenew, CapPut, SMTT(30) DEF Tick
    <2>2. ASSUME NEW c \in Clients, Lifecycle(c) PROVE CapInv'
      BY <1>1, <1>3, <2>2, CapOthers, CapTicks, CapJoin DEF Lifecycle
    <2>3. CASE Environment
      BY <1>1, <1>3, <2>3, CapOthers, CapTicks DEF Environment
    <2> QED
      BY <1>1, <1>3, <2>1, <2>2, <2>3, CapOthers DEF Next
  <1> QED
    BY <1>2, <1>3, Zenon

\* For any number of clients that fight over the lock, the idle list exceeds
\* max_idle by at most one for each client but one
THEOREM OvershootIsBounded == Spec => []OvershootBounded
  <1>1. Init => CapInv
    <2> SUFFICES ASSUME Init PROVE CapInv
      BY Zenon
    <2>1. PutBy = {} /\ idle = {} /\ lock = None
      BY Zenon DEF Init, PutBy, TickOff
    <2>2. \A c \in Clients : IsFiniteSet(warm[c]) /\ IsFiniteSet(made[c])
      BY FS_EmptySet, Zenon DEF Init
    <2>3. Cardinality(Clients) \in Nat /\ Cardinality(Clients) # 0
      BY ClientsAssumption, FS_CardinalityType, FS_EmptySet
    <2>4. Cardinality(idle) + Cardinality(PutBy) <= Cap
      BY <2>1, <2>3, FS_EmptySet, ClientPoolAssumption DEF Cap
    <2> QED
      BY <2>1, <2>2, <2>4, ClientPoolAssumption DEF CapInv
  <1>2. PoolInv /\ CapInv => OvershootBounded
    <2> SUFFICES ASSUME PoolInv, CapInv PROVE OvershootBounded
      BY Zenon
    <2>1. Cap \in Int /\ Cardinality(idle) \in Nat /\ Cardinality(PutBy) \in Nat
      BY CapCounts, Zenon DEF PoolInv
    <2> QED
      BY <2>1 DEF CapInv, OvershootBounded, Cap
  <1> QED
    BY <1>1, <1>2, PoolInit, PoolStep, CapStep, PTL DEF Spec
===============================================================================
