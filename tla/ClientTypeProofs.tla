--------------------------- MODULE ClientTypeProofs ---------------------------
(***************************************************************************)
(* Type correctness of ClientPool, and the fence that destroy() raises,    *)
(* for every number of clients, callers and sandboxes and every set of     *)
(* faults.  TypeInv says more than the types: what a tick, an acquire()    *)
(* call and a drain hold at each of their steps.  Without that, a step     *)
(* that resumes after an await could hold what it has already handed over. *)
(***************************************************************************)
EXTENDS ClientPool, FiniteSetTheorems, TLAPS

\* The local variables of a tick and of an acquire() call
TickRecord == [pc : {"off", "check", "stop", "lock", "reap", "count", "shrink", "pop",
                     "build", "put", "drop"},
               target : 0..MaxIdle, left : 0..WarmupConcurrency]
CallRecord == [pc : {"out", "check", "take", "connect", "fence", "stale", "create", "created"},
               at : Clients \cup {None}, id : Sandboxes \cup {None},
               tries : 0..MaxAcquireRetries, doomed : SUBSET Sandboxes]

\* A tick holds sandboxes only at the places that deal with them
TickShape(r, w, m, p) ==
  /\ w # {} => r.pc = "build"
  /\ m # {} => r.pc \in {"build", "put"}
  /\ p # {} => r.pc \in {"count", "shrink", "drop"}
  /\ r.pc = "pop" => r.left > 0

\* An acquire() call has a client, a candidate and short-lived ones only where
\* it deals with them, and looks for a candidate only within its budget
CallShape(r) ==
  /\ r.pc # "out" => r.at \in Clients
  /\ r.id # None <=> r.pc \in {"connect", "fence", "stale", "created"}
  /\ r.pc \in {"out", "check", "create", "created"} => r.doomed = {}
  /\ r.pc \in {"check", "take"} => r.tries < MaxAcquireRetries

\* The types, one group of variables at a time
StoreT ==
  /\ idle \subseteq Sandboxes /\ IsFiniteSet(idle)
  /\ ttl \in [Sandboxes -> {"fresh", "near", "expired"}]
  /\ lock \in Clients \cup {None} /\ maxIdle \in 0..MaxIdle \cup {None}
  /\ fence \in {"ACTIVE", "DESTROYING", "DESTROYED"}
ServerT ==
  /\ server \in [Sandboxes -> {"unborn", "alive", "dead"}]
  /\ borrowed \subseteq Sandboxes /\ lost \subseteq Sandboxes
LifeT ==
  /\ life \in [Clients -> {"NOT_STARTED", "RUNNING", "DRAINING", "STOPPED"}]
  /\ stopping \in [Clients -> [pc : {"none", "join", "drain", "halt", "close"},
                               waits : SUBSET (Sandboxes \cup {None})]]
TickT ==
  /\ tick \in [Clients -> TickRecord]
  /\ warm \in [Clients -> SUBSET Sandboxes]
  /\ made \in [Clients -> SUBSET Sandboxes]
  /\ purge \in [Clients -> SUBSET Sandboxes]
  /\ \A c \in Clients : TickShape(tick[c], warm[c], made[c], purge[c])
CallT ==
  /\ kills \in [Clients -> SUBSET Sandboxes]
  /\ call \in [Callers -> CallRecord]
  /\ \A a \in Callers : CallShape(call[a])
DrainT ==
  /\ drainer \in [pc : {"out", "take", "kill", "clear", "mark"},
                  id : Sandboxes \cup {None}, next : {"out", "clear"}]
  /\ drainer.id # None <=> drainer.pc = "kill"
  /\ drainer.pc \in {"clear", "mark"} => drainer.next = "clear"
  /\ drainer.next = "clear" => ~Active
EventsT == events \in 0..MaxEvents

\* Types, and what each coroutine holds where
TypeInv == StoreT /\ ServerT /\ LifeT /\ TickT /\ CallT /\ DrainT /\ EventsT

\* The type invariant that the runs check follows
LEMMA TypesImplied == TypeInv => TypeOK
  BY Zenon DEF TypeInv, TypeOK, StoreT, ServerT, LifeT, TickT, CallT, DrainT, EventsT,
         TickRecord, CallRecord

\* A new namespace with no process
LEMMA TypesInit == Init => TypeInv
  <1> SUFFICES ASSUME Init PROVE TypeInv
    BY Zenon
  <1> USE ClientPoolAssumption
  <1>1. StoreT
    BY FS_EmptySet, Zenon DEF Init, StoreT
  <1>2. ServerT /\ LifeT /\ EventsT /\ DrainT
    BY DEF Init, ServerT, LifeT, EventsT, DrainT, NotStopping, DrainerOut
  <1>3. TickT
    BY DEF Init, TickT, TickShape, TickRecord, TickOff
  <1>4. CallT
    BY DEF Init, CallT, CallShape, CallRecord, CallOut
  <1> QED
    BY <1>1, <1>2, <1>3, <1>4, Zenon DEF TypeInv

(***************************************************************************)
(* Lemmas on the parts an action is made of.                               *)
(***************************************************************************)
\* An event is counted only while the bound allows it
LEMMA CountTypes ==
  ASSUME EventsT, NEW h, Count(h), h => events < MaxEvents
  PROVE  EventsT'
  BY ClientPoolAssumption DEF EventsT, Count

\* Entries leave the idle hash
LEMMA StoreShrinks ==
  ASSUME StoreT, idle' \subseteq idle, UNCHANGED <<ttl, lock, maxIdle, fence>>
  PROVE  StoreT'
  BY FS_Subset, Zenon DEF StoreT

\* A store call that pops entries answers, or its answer is lost with them
Answered == UNCHANGED <<events, lost>> \/ Unheard(idle \ idle')

\* In both cases the events and the sandboxes given up keep their types
LEMMA AnsweredTypes ==
  ASSUME StoreT, ServerT, EventsT, idle' \subseteq idle, Answered, UNCHANGED <<server, borrowed>>
  PROVE  ServerT' /\ EventsT'
  <1>1. CASE UNCHANGED <<events, lost>>
    BY <1>1, Zenon DEF ServerT, EventsT
  <1>2. CASE Unheard(idle \ idle')
    <2>1. EventsT'
      BY <1>2, CountTypes, Zenon DEF Unheard, Happens
    <2>2. lost' \subseteq Sandboxes
      BY <1>2, Zenon DEF Unheard, StoreT, ServerT
    <2> QED
      BY <2>1, <2>2, Zenon DEF ServerT
  <1> QED
    BY <1>1, <1>2, Zenon DEF Answered

\* A kill that may fail is an event
LEMMA KillResultTypes ==
  ASSUME NEW ok \in KillResults
  PROVE  ok \in BOOLEAN /\ (~ok => Happens("kill"))
  BY Zenon DEF KillResults

\* A best-effort kill keeps the types of the server's view
LEMMA KillTypes ==
  ASSUME ServerT, NEW S \in SUBSET Sandboxes, NEW ok \in BOOLEAN, Kill(S, ok),
         UNCHANGED borrowed
  PROVE  ServerT'
  <1>1. CASE ok
    BY <1>1, Zenon DEF ServerT, Kill, Killed
  <1>2. CASE ~ok
    BY <1>2, Zenon DEF ServerT, Kill
  <1> QED
    BY <1>1, <1>2, Zenon

\* One tick moves on
LEMMA TickMoves ==
  ASSUME TickT, NEW c \in Clients, NEW r \in TickRecord,
         tick' = [tick EXCEPT ![c] = r], UNCHANGED <<warm, made, purge>>,
         TickShape(r, warm[c], made[c], purge[c])
  PROVE  TickT'
  BY Zenon DEF TickT

\* One tick moves on, with what it holds
LEMMA TickHolds ==
  ASSUME TickT, NEW c \in Clients, NEW r \in TickRecord,
         NEW w \in SUBSET Sandboxes, NEW m \in SUBSET Sandboxes, NEW p \in SUBSET Sandboxes,
         tick' = [tick EXCEPT ![c] = r], warm' = [warm EXCEPT ![c] = w],
         made' = [made EXCEPT ![c] = m], purge' = [purge EXCEPT ![c] = p],
         TickShape(r, w, m, p)
  PROVE  TickT'
  BY Zenon DEF TickT

\* One acquire() call moves on
LEMMA CallMoves ==
  ASSUME CallT, NEW a \in Callers, NEW r \in CallRecord, CallShape(r),
         call' = [call EXCEPT ![a] = r],
         kills' \in [Clients -> SUBSET Sandboxes]
  PROVE  CallT'
  BY Zenon DEF CallT

\* What a take returns
LEMMA TakesTypes ==
  ASSUME idle \subseteq Sandboxes, NEW cutoff, cutoff \subseteq idle, NEW t \in Takes(cutoff)
  PROVE  /\ t.id \in Sandboxes \cup {None} /\ t.gone \subseteq cutoff
         /\ t.id # None => t.id \in idle \ cutoff
         /\ t.id = None => t.gone = idle
         /\ TakenFrom(t) \subseteq idle
         /\ \A i \in idle : i \in TakenFrom(t) \/ i = t.id \/ i \in t.gone
         /\ \A i \in TakenFrom(t) : i # t.id /\ i \notin t.gone
  BY ClientPoolAssumption DEF Takes, TakenFrom

(***************************************************************************)
(* Every action keeps the types.                                           *)
(***************************************************************************)
\* start() and the first steps of a shutdown
LEMMA LifecycleTypes ==
  ASSUME TypeInv, NEW c \in Clients,
         Start(c) \/ Shutdown(c) \/ ShutdownNow(c) \/ Drained(c)
  PROVE  TypeInv'
  <1> USE ClientPoolAssumption DEF TypeInv, StoreT, ServerT, LifeT, TickT, CallT, DrainT,
        EventsT, storeVars, serverVars, tickVars, Active, Happens, Count
  <1>1. ASSUME Start(c) PROVE TypeInv'
    <2>1. StoreT'
      BY <1>1 DEF Start, Released
    <2>2. ServerT' /\ LifeT' /\ TickT' /\ CallT' /\ DrainT'
      BY <1>1, Zenon DEF Start
    <2>3. EventsT'
      BY <1>1 DEF Start
    <2> QED
      BY <2>1, <2>2, <2>3, Zenon
  <1>2. ASSUME Shutdown(c) PROVE TypeInv'
    BY <1>2 DEF Shutdown, Tasks
  <1>3. ASSUME ShutdownNow(c) PROVE TypeInv'
    BY <1>3 DEF ShutdownNow
  <1>4. ASSUME Drained(c) PROVE TypeInv'
    BY <1>4 DEF Drained, NotStopping
  <1> QED
    BY <1>1, <1>2, <1>3, <1>4, Zenon

\* A shutdown that ends the tick and the tasks
LEMMA HaltTypes ==
  ASSUME TypeInv, NEW c \in Clients, HaltTick(c)
  PROVE  TypeInv'
  BY ClientPoolAssumption
  DEF TypeInv, StoreT, ServerT, LifeT, TickT, CallT, DrainT, EventsT, storeVars, Active,
      Happens, Count, HaltTick, Killed, TickOff, TickRecord, TickShape

\* The end of _stop_reconcile
LEMMA JoinTypes ==
  ASSUME TypeInv, NEW c \in Clients, Join(c)
  PROVE  TypeInv'
  <1> USE ClientPoolAssumption DEF TypeInv
  <1>1. StoreT' /\ ServerT'
    <2>1. StoreT'
      BY Zenon DEF Join, StoreT, Released
    <2>2. /\ server' = Killed(warm[c] \cap Awaited(c))
          /\ lost' = lost \cup (kills[c] \cap Awaited(c)) /\ borrowed' = borrowed
      BY Zenon DEF Join
    <2>3. ServerT'
      BY <2>2, Zenon DEF ServerT, Killed, CallT
    <2> QED
      BY <2>1, <2>3, Zenon
  <1>2. LifeT'
    <2>1. stopping[c].pc = "join" => LifeT'
      BY DEF Join, LifeT
    <2>2. stopping[c].pc = "close" => LifeT'
      BY DEF Join, LifeT, NotStopping
    <2> QED
      BY <2>1, <2>2, Zenon DEF Join
  <1>3. TickT'
    <2>1. /\ warm' = [warm EXCEPT ![c] = @ \ Awaited(c)]
          /\ UNCHANGED <<made, purge>>
      BY Zenon DEF Join
    <2>2. CASE None \in Awaited(c)
      <3>1. tick[c].pc = "build"
        BY <2>2, Zenon DEF Awaited, Tasks, TickT, CallT
      <3>2. tick' = [tick EXCEPT ![c] = [pc |-> "build", target |-> tick[c].target, left |-> 0]]
        BY <2>2, Zenon DEF Join, TickAt
      <3> QED
        BY <2>1, <3>1, <3>2 DEF TickT, TickShape, TickRecord
    <2>3. CASE None \notin Awaited(c)
      BY <2>1, <2>3 DEF TickT, TickShape, Join
    <2> QED
      BY <2>2, <2>3, Zenon
  <1>4. CallT' /\ DrainT'
    BY Zenon DEF Join, CallT, DrainT, Active
  <1>5. EventsT'
    BY DEF Join, EventsT, Count, Happens
  <1> QED
    BY <1>1, <1>2, <1>3, <1>4, <1>5, Zenon

\* A background kill
LEMMA BackgroundKillTypes ==
  ASSUME TypeInv, NEW c \in Clients, NEW i \in Sandboxes, BackgroundKill(c, i)
  PROVE  TypeInv'
  <1> USE DEF TypeInv
  <1>1. PICK ok \in KillResults : PoolKill(c, {i}, ok) /\ Count(~ok)
    BY Zenon DEF BackgroundKill
  <1>2. ServerT'
    BY <1>1, KillResultTypes, KillTypes, Zenon DEF PoolKill, BackgroundKill, Open
  <1>3. EventsT'
    BY <1>1, KillResultTypes, CountTypes, Zenon DEF Happens
  <1>4. StoreT' /\ LifeT' /\ TickT' /\ CallT' /\ DrainT'
    BY Zenon DEF BackgroundKill, StoreT, LifeT, TickT, CallT, DrainT, Active, storeVars, tickVars
  <1> QED
    BY <1>2, <1>3, <1>4, Zenon

\* The steps of a tick that only move it on
LEMMA TickMoveTypes ==
  ASSUME TypeInv, NEW c \in Clients,
         TickStart(c) \/ TickCheck(c) \/ TickLock(c) \/ TickCount(c) \/ TickShrink(c)
  PROVE  TypeInv'
  <1> USE ClientPoolAssumption DEF TypeInv
  <1>1. UNCHANGED <<idle, ttl, maxIdle, fence, serverVars, life, stopping, warm, made, purge,
                    kills, call, drainer, lost>>
    BY Zenon DEF TickStart, TickCheck, TickLock, TickCount, TickShrink, storeVars
  <1>2. lock' \in Clients \cup {None}
    BY Zenon DEF TickStart, TickCheck, TickLock, TickCount, TickShrink, storeVars, StoreT
  <1>3. EventsT'
    <2>1. \/ UNCHANGED events
          \/ \E h \in BOOLEAN : Count(h) /\ (h => events < MaxEvents)
      <3>1. CASE TickCount(c)
        <4> DEFINE n == Cardinality(idle)
                   h == n < tick[c].target /\ CanRenew(c)
        <4>1. UNCHANGED events \/ (Count(h) /\ (h => events < MaxEvents))
          <5>1. CASE UNCHANGED events
            BY <5>1, Zenon
          <5>2. CASE /\ n = tick[c].target \/ (n < tick[c].target /\ (~CanRenew(c) \/ Happens("backoff")))
                     /\ Count(h)
            <6>1. n = tick[c].target => ~(n < tick[c].target)
              BY DEF TickT, TickRecord
            <6> QED
              BY <5>2, <6>1, Zenon DEF Happens
          <5> QED
            BY <3>1, <5>1, <5>2, Zenon DEF TickCount
        <4> QED
          BY <4>1, Zenon
      <3> QED
        BY <3>1, Zenon DEF TickStart, TickCheck, TickLock, TickShrink
    <2> QED
      BY <2>1, CountTypes, Zenon DEF EventsT
  <1>4. PICK r \in TickRecord : /\ tick' = [tick EXCEPT ![c] = r]
                                /\ TickShape(r, warm[c], made[c], purge[c])
    <2> DEFINE At(p, t, l) == [pc |-> p, target |-> t, left |-> l]
    <2>1. /\ tick[c] \in TickRecord
          /\ TickShape(tick[c], warm[c], made[c], purge[c])
      BY Zenon DEF TickT
    <2>2. CASE TickStart(c)
      <3>1. tick' = [tick EXCEPT ![c] = At("check", tick[c].target, tick[c].left)]
        BY <2>2, Zenon DEF TickStart, GoTo, TickAt
      <3>2. /\ At("check", tick[c].target, tick[c].left) \in TickRecord
            /\ TickShape(At("check", tick[c].target, tick[c].left), warm[c], made[c], purge[c])
        BY <2>1, <2>2, Zenon DEF TickStart, TickRecord, TickShape
      <3> QED
        BY <3>1, <3>2, Zenon
    <2>3. CASE TickCheck(c)
      <3>1. PICK p \in {"stop", "lock"}, t \in 0..MaxIdle :
                 tick' = [tick EXCEPT ![c] = At(p, t, tick[c].left)]
        <4>1. CASE Active
          <5>1. (IF maxIdle = None THEN MaxIdle ELSE maxIdle) \in 0..MaxIdle
            BY DEF StoreT
          <5> QED
            BY <2>3, <4>1, <5>1, Zenon DEF TickCheck, TickAt
        <4>2. CASE ~Active
          BY <2>1, <2>3, <4>2, Zenon DEF TickCheck, GoTo, TickAt, TickRecord
        <4> QED
          BY <4>1, <4>2, Zenon
      <3>2. /\ At(p, t, tick[c].left) \in TickRecord
            /\ TickShape(At(p, t, tick[c].left), warm[c], made[c], purge[c])
        BY <2>1, <2>3, Zenon DEF TickCheck, TickRecord, TickShape
      <3> QED
        BY <3>1, <3>2, Zenon
    <2>4. CASE TickLock(c)
      <3>1. \/ tick' = [tick EXCEPT ![c] = At("reap", tick[c].target, tick[c].left)]
            \/ tick' = [tick EXCEPT ![c] = At("off", 0, 0)]
        BY <2>4, Zenon DEF TickLock, GoTo, TickAt, TickEnds, TickOff
      <3> QED
        BY <2>1, <2>4, <3>1 DEF TickLock, TickRecord, TickShape
    <2>5. CASE TickCount(c)
      <3> DEFINE n == Cardinality(idle)
      <3>1. n \in Nat
        BY FS_CardinalityType, Zenon DEF StoreT
      <3> HIDE DEF n
      <3>2. PICK p \in {"shrink", "build", "off"}, t \in 0..MaxIdle, l \in 0..WarmupConcurrency :
                 tick' = [tick EXCEPT ![c] = At(p, t, l)]
        <4>1. tick[c].target \in 0..MaxIdle
          BY <2>1, Zenon DEF TickRecord
        <4>2. \/ /\ n > tick[c].target
                 /\ TickAt(c, "shrink", tick[c].target, Least(n - tick[c].target, WarmupConcurrency))
              \/ TickEnds(c)
              \/ /\ n < tick[c].target
                 /\ TickAt(c, "build", tick[c].target, Least(tick[c].target - n, WarmupConcurrency))
          BY <2>5, Zenon DEF TickCount, n
        <4>3. /\ n > tick[c].target
                   => Least(n - tick[c].target, WarmupConcurrency) \in 0..WarmupConcurrency
              /\ n < tick[c].target
                   => Least(tick[c].target - n, WarmupConcurrency) \in 0..WarmupConcurrency
          BY <3>1, <4>1 DEF Least
        <4> QED
          BY <4>1, <4>2, <4>3 DEF TickAt, TickEnds, TickOff
      <3>3. At(p, t, l) \in TickRecord /\ TickShape(At(p, t, l), warm[c], made[c], purge[c])
        BY <2>1, <2>5, Zenon DEF TickCount, TickRecord, TickShape
      <3> QED
        BY <3>2, <3>3, Zenon
    <2>6. CASE TickShrink(c)
      <3>1. \/ tick' = [tick EXCEPT ![c] = At("off", 0, 0)]
            \/ /\ tick[c].left > 0
               /\ tick' = [tick EXCEPT ![c] = At("pop", tick[c].target, tick[c].left)]
        BY <2>6, Zenon DEF TickShrink, GoTo, TickAt, TickEnds, TickOff
      <3> QED
        BY <2>1, <2>6, <3>1 DEF TickShrink, TickRecord, TickShape
    <2> QED
      BY <2>2, <2>3, <2>4, <2>5, <2>6, Zenon
  <1>5. TickT'
    BY <1>1, <1>4, TickMoves, Zenon
  <1> QED
    BY <1>1, <1>2, <1>3, <1>5, Zenon DEF StoreT, ServerT, LifeT, CallT, DrainT, Active, serverVars

\* The tick of a pool that has been destroyed, and one that raises
LEMMA TickEndTypes ==
  ASSUME TypeInv, NEW c \in Clients, TickStop(c) \/ TickRaises(c)
  PROVE  TypeInv'
  <1> USE ClientPoolAssumption DEF TypeInv, StoreT, ServerT, LifeT, TickT, CallT, DrainT,
        EventsT, storeVars, serverVars, Active, Happens, Count, TickEnds, TickOff,
        TickRecord, TickShape
  <1>1. ASSUME TickStop(c) PROVE TypeInv'
    BY <1>1 DEF TickStop, Released
  <1>2. ASSUME TickRaises(c) PROVE TypeInv'
    BY <1>2 DEF TickRaises
  <1> QED
    BY <1>1, <1>2, Zenon

\* The steps of a tick that take entries out of the store
LEMMA TickTakeTypes ==
  ASSUME TypeInv, NEW c \in Clients, TickReap(c) \/ TickPop(c)
  PROVE  TypeInv'
  <1> USE ClientPoolAssumption DEF TypeInv
  <1> DEFINE r(p, l) == [pc |-> p, target |-> tick[c].target, left |-> l]
  <1>1. UNCHANGED <<ttl, lock, maxIdle, fence, serverVars, life, stopping, warm, made, kills,
                    call, drainer>>
    BY Zenon DEF TickReap, TickPop
  <1>2. /\ tick[c] \in TickRecord /\ TickShape(tick[c], warm[c], made[c], purge[c])
        /\ warm[c] \subseteq Sandboxes /\ made[c] \subseteq Sandboxes
        /\ warm = [warm EXCEPT ![c] = warm[c]] /\ made = [made EXCEPT ![c] = made[c]]
        /\ purge = [purge EXCEPT ![c] = purge[c]] /\ purge[c] \subseteq Sandboxes
    BY Zenon DEF TickT
  <1>3. idle' \subseteq idle /\ Answered
    <2>1. CASE TickReap(c)
      <3>1. Short \subseteq idle
        BY Zenon DEF Short
      <3>2. idle' = idle \ Short /\ (UNCHANGED <<events, lost>> \/ Unheard(Short))
        BY <2>1, Zenon DEF TickReap
      <3>3. idle \ idle' = Short
        BY <3>1, <3>2, Zenon
      <3> QED
        BY <3>2, <3>3, Zenon DEF Answered
    <2>2. CASE TickPop(c)
      <3>1. PICK t \in Takes(Expired) :
                 /\ idle' = TakenFrom(t)
                 /\ UNCHANGED <<events, lost>> \/ Unheard(idle \ TakenFrom(t))
        BY <2>2, Zenon DEF TickPop
      <3>2. idle' \subseteq idle
        BY <3>1, TakesTypes DEF StoreT, Expired
      <3> QED
        BY <3>1, <3>2, Zenon DEF Answered
    <2> QED
      BY <2>1, <2>2, Zenon
  <1>4. TickT'
    <2>1. ASSUME TickEnds(c), UNCHANGED purge PROVE TickT'
      <3>1. TickOff \in TickRecord /\ TickShape(TickOff, warm[c], made[c], purge[c])
        BY <1>2 DEF TickReap, TickPop, TickOff, TickRecord, TickShape
      <3> QED
        BY <1>1, <2>1, <3>1, TickMoves, Zenon DEF TickEnds
    <2>2. CASE TickReap(c) /\ purge' = [purge EXCEPT ![c] = Short \ Expired] /\ GoTo(c, "count")
      <3>1. /\ Short \ Expired \subseteq Sandboxes
            /\ tick' = [tick EXCEPT ![c] = r("count", tick[c].left)]
        BY <2>2, Zenon DEF Short, GoTo, TickAt, StoreT
      <3>2. /\ r("count", tick[c].left) \in TickRecord
            /\ TickShape(r("count", tick[c].left), warm[c], made[c], Short \ Expired)
        BY <1>2, <2>2, Zenon DEF TickReap, TickRecord, TickShape
      <3> HIDE DEF r
      <3> QED
        BY <1>1, <1>2, <2>2, <3>1, <3>2, TickHolds, Zenon
    <2>3. CASE TickPop(c)
      <3>1. PICK t \in Takes(Expired) :
                 \/ TickEnds(c) /\ UNCHANGED purge
                 \/ /\ t.id # None
                    /\ purge' = [purge EXCEPT ![c] = {t.id}]
                    /\ TickAt(c, "shrink", tick[c].target, tick[c].left - 1)
        BY <2>3, Zenon DEF TickPop
      <3>2. t.id \in Sandboxes \cup {None}
        BY TakesTypes DEF StoreT, Expired
      <3>3. CASE /\ t.id # None
                 /\ purge' = [purge EXCEPT ![c] = {t.id}]
                 /\ TickAt(c, "shrink", tick[c].target, tick[c].left - 1)
        <4>1. /\ tick' = [tick EXCEPT ![c] = r("shrink", tick[c].left - 1)]
              /\ purge' = [purge EXCEPT ![c] = {t.id}]
          BY <3>3, Zenon DEF TickAt
        <4>2. /\ r("shrink", tick[c].left - 1) \in TickRecord
              /\ TickShape(r("shrink", tick[c].left - 1), warm[c], made[c], {t.id})
          BY <1>2, <2>3 DEF TickPop, TickRecord, TickShape
        <4>3. {t.id} \in SUBSET Sandboxes
          BY <3>2, <3>3, Zenon
        <4> HIDE DEF r
        <4> QED
          BY <1>1, <1>2, <4>1, <4>2, <4>3, TickHolds, ZenonT(30)
      <3> QED
        BY <2>1, <3>1, <3>3, Zenon
    <2> QED
      BY <2>1, <2>2, <2>3, Zenon DEF TickReap
  <1>5. StoreT'
    BY <1>1, <1>3, StoreShrinks
  <1>6. ServerT' /\ EventsT'
    BY <1>1, <1>3, AnsweredTypes, Zenon DEF serverVars
  <1> QED
    BY <1>1, <1>4, <1>5, <1>6, Zenon DEF LifeT, CallT, DrainT, Active, serverVars

\* One id the tick drops
LEMMA TickDiscardTypes ==
  ASSUME TypeInv, NEW c \in Clients, NEW i \in Sandboxes, TickDiscard(c, i)
  PROVE  TypeInv'
  <1> USE DEF TypeInv
  <1>1. PICK ok \in KillResults : PoolKill(c, {i}, ok) /\ Count(~ok)
    BY Zenon DEF TickDiscard
  <1>2. ServerT'
    BY <1>1, KillResultTypes, KillTypes, Zenon DEF PoolKill, TickDiscard, Open
  <1>3. EventsT'
    BY <1>1, KillResultTypes, CountTypes, Zenon DEF Happens
  <1>4. StoreT'
    BY StoreShrinks, Zenon DEF TickDiscard
  <1>5. TickT'
    <2>1. /\ i \in purge[c] /\ purge' = [purge EXCEPT ![c] = @ \ {i}]
          /\ UNCHANGED <<warm, made>>
      BY Zenon DEF TickDiscard
    <2>2. CASE tick[c].pc = "drop" /\ purge[c] = {i}
      BY <2>1, <2>2, ClientPoolAssumption
      DEF TickDiscard, TickEnds, TickOff, TickT, TickRecord, TickShape
    <2>3. CASE ~(tick[c].pc = "drop" /\ purge[c] = {i})
      <3>1. UNCHANGED tick
        BY <2>3, Zenon DEF TickDiscard
      <3> QED
        BY <2>1, <3>1, Zenon DEF TickT, TickShape
    <2> QED
      BY <2>2, <2>3
  <1>6. LifeT' /\ CallT' /\ DrainT'
    BY Zenon DEF TickDiscard, LifeT, CallT, DrainT, Active
  <1> QED
    BY <1>2, <1>3, <1>4, <1>5, <1>6

\* A creation whose answer is lost
LEMMA CreatedUnheardTypes ==
  ASSUME ServerT, EventsT, CreatedUnheard, UNCHANGED borrowed
  PROVE  ServerT' /\ EventsT'
  <1>1. EventsT'
    BY CountTypes, Zenon DEF CreatedUnheard, Happens
  <1>2. PICK i \in Sandboxes : server' = [server EXCEPT ![i] = "alive"] /\ lost' = lost \cup {i}
    BY Zenon DEF CreatedUnheard, Unborn
  <1> QED
    BY <1>1, <1>2, Zenon DEF ServerT

\* A warm-up gets its sandbox from the server, or does not
LEMMA WarmBuildTypes ==
  ASSUME TypeInv, NEW c \in Clients, WarmBuild(c)
  PROVE  TypeInv'
  <1> USE ClientPoolAssumption DEF TypeInv
  <1>1. PICK S \in SUBSET Sandboxes : warm' = [warm EXCEPT ![c] = @ \cup S]
    <2>1. CASE UNCHANGED warm
      <3>1. warm' = [warm EXCEPT ![c] = @ \cup {}]
        BY <2>1 DEF TickT
      <3> QED
        BY <3>1, {} \in SUBSET Sandboxes, Zenon
    <2>2. CASE \E i \in Unborn : warm' = [warm EXCEPT ![c] = @ \cup {i}]
      BY <2>2, Zenon DEF Unborn
    <2> QED
      BY <2>1, <2>2, Zenon DEF WarmBuild
  <1>2. ServerT' /\ EventsT'
    <2>1. CASE CreatedUnheard
      BY <2>1, CreatedUnheardTypes, Zenon DEF WarmBuild
    <2>2. CASE CreationFails /\ UNCHANGED <<server, warm, lost>>
      <3>1. ServerT'
        BY <2>2, Zenon DEF WarmBuild, ServerT
      <3> QED
        BY <2>2, <3>1 DEF CreationFails, Count, Happens, EventsT
    <2>3. ASSUME NEW i \in Unborn, server' = [server EXCEPT ![i] = "alive"],
                 UNCHANGED <<events, lost>>
          PROVE  ServerT' /\ EventsT'
      BY <2>3, Zenon DEF WarmBuild, ServerT, EventsT
    <2> QED
      BY <2>1, <2>2, <2>3, Zenon DEF WarmBuild
  <1>3. TickT'
    <2>1. /\ tick[c].pc = "build" /\ tick[c].left > 0 /\ UNCHANGED <<made, purge>>
          /\ tick' = [tick EXCEPT ![c] = [pc |-> "build", target |-> tick[c].target,
                                          left |-> tick[c].left - 1]]
      BY Zenon DEF WarmBuild, TickAt
    <2> QED
      BY <1>1, <2>1 DEF TickT, TickRecord, TickShape
  <1> QED
    BY <1>2, <1>3, Zenon DEF WarmBuild, StoreT, LifeT, CallT, DrainT, Active, storeVars

\* The rest of a warm-up
LEMMA WarmFinishTypes ==
  ASSUME TypeInv, NEW c \in Clients, NEW i \in Sandboxes, WarmFinish(c, i)
  PROVE  TypeInv'
  <1> USE DEF TypeInv
  <1> DEFINE fit == life[c] = "RUNNING" /\ Active /\ server[i] = "alive"
  <1>1. CASE UNCHANGED <<server, lost, events>>
    <2>1. ServerT' /\ EventsT'
      BY <1>1, Zenon DEF WarmFinish, ServerT, EventsT
    <2> QED
      BY <2>1, SMTT(30) DEF WarmFinish, StoreT, LifeT, CallT, DrainT, Active, storeVars, TickT, TickShape
  <1>2. CASE /\ fit => Happens("renew")
             /\ \E ok \in KillResults : Kill({i}, ok) /\ Count(fit \/ ~ok)
             /\ UNCHANGED made
    <2>1. PICK ok \in KillResults : Kill({i}, ok) /\ Count(fit \/ ~ok)
      BY <1>2, Zenon
    <2>2. ServerT'
      BY <2>1, KillResultTypes, KillTypes, Zenon DEF WarmFinish
    <2>3. EventsT'
      <3>1. (fit \/ ~ok) => events < MaxEvents
        BY <1>2, KillResultTypes, Zenon DEF Happens
      <3> QED
        BY <2>1, <3>1, CountTypes, Zenon
    <2> QED
      BY <1>2, <2>2, <2>3
      DEF WarmFinish, StoreT, LifeT, CallT, DrainT, Active, storeVars, TickT, TickShape
  <1> QED
    BY <1>1, <1>2, Zenon DEF WarmFinish

\* The lock is lost with sandboxes still to put
LEMMA LockLostTypes ==
  ASSUME TickT, NEW c \in Clients, tick[c].pc \in {"build", "put"}, warm[c] = {}, LockLost(c),
         UNCHANGED warm
  PROVE  TickT'
  <1> DEFINE r == [pc |-> "drop", target |-> tick[c].target, left |-> tick[c].left]
  <1>1. /\ tick' = [tick EXCEPT ![c] = r] /\ purge' = [purge EXCEPT ![c] = made[c]]
        /\ made' = [made EXCEPT ![c] = {}] /\ warm = [warm EXCEPT ![c] = {}]
    BY Zenon DEF LockLost, GoTo, TickAt, TickT
  <1>2. /\ r \in TickRecord /\ TickShape(r, {}, {}, made[c])
        /\ made[c] \in SUBSET Sandboxes /\ {} \in SUBSET Sandboxes
    BY Zenon DEF TickT, TickRecord, TickShape
  <1> HIDE DEF r
  <1> QED
    BY <1>1, <1>2, TickHolds, Zenon

\* The gather is over
LEMMA TickRenewTypes ==
  ASSUME TypeInv, NEW c \in Clients, TickRenew(c)
  PROVE  TypeInv'
  <1> USE ClientPoolAssumption DEF TypeInv
  <1> DEFINE r == [pc |-> "put", target |-> tick[c].target, left |-> tick[c].left]
  <1>1. /\ tick[c].pc = "build" /\ tick[c].left = 0 /\ warm[c] = {} /\ UNCHANGED warm
        /\ tick[c] \in TickRecord /\ TickShape(tick[c], warm[c], made[c], purge[c])
    BY SMTT(30) DEF TickRenew, TickT
  <1>2. ASSUME made[c] = {} /\ TickEnds(c) /\ UNCHANGED <<made, purge>> PROVE TickT'
    BY <1>1, <1>2 DEF TickT, TickEnds, TickOff, TickRecord, TickShape
  <1>3. ASSUME GoTo(c, "put"), UNCHANGED <<made, purge>> PROVE TickT'
    <2>1. tick' = [tick EXCEPT ![c] = r]
      BY <1>3, Zenon DEF GoTo, TickAt
    <2>2. r \in TickRecord /\ TickShape(r, warm[c], made[c], purge[c])
      BY <1>1, Zenon DEF TickRecord, TickShape
    <2> HIDE DEF r
    <2> QED
      BY <1>1, <1>3, <2>1, <2>2, TickMoves, Zenon
  <1>4. ASSUME LockLost(c) PROVE TickT'
    BY <1>1, <1>4, LockLostTypes
  <1>5. TickT'
    BY <1>2, <1>3, <1>4 DEF TickRenew
  <1> QED
    BY <1>5 DEF TickRenew, StoreT, ServerT, LifeT, CallT, DrainT, EventsT, Active, storeVars,
                serverVars

\* One sandbox is put into the store, or the put is refused or fails
LEMMA TickPutTypes ==
  ASSUME TypeInv, NEW c \in Clients, TickPut(c)
  PROVE  TypeInv'
  <1> USE ClientPoolAssumption DEF TypeInv
  <1>1. PICK i \in made[c], r \in PutOutcomes :
             /\ idle' = IF r \in {"stored", "unknown"} THEN idle \cup {i} ELSE idle
             /\ ttl' = IF r \in {"stored", "unknown"} THEN [ttl EXCEPT ![i] = "fresh"] ELSE ttl
             /\ Count(r \in {"failed", "unknown"})
             /\ \/ /\ r = "stored" /\ made' = [made EXCEPT ![c] = @ \ {i}]
                   /\ GoTo(c, "build") /\ UNCHANGED purge
                \/ r # "stored" /\ LockLost(c)
    BY Zenon DEF TickPut
  <1>2. /\ tick[c].pc = "put" /\ UNCHANGED <<warm, lock, maxIdle, fence>>
        /\ tick[c] \in TickRecord /\ TickShape(tick[c], warm[c], made[c], purge[c])
        /\ i \in Sandboxes /\ warm[c] = {} /\ purge[c] = {} /\ made[c] \subseteq Sandboxes
    BY DEF TickPut, TickT, TickShape
  <1>3. StoreT'
    <2>1. IsFiniteSet(idle')
      BY <1>1, FS_AddElement DEF StoreT
    <2> QED
      BY <1>1, <1>2, <2>1 DEF StoreT
  <1>4. TickT'
    <2> DEFINE b == [pc |-> "build", target |-> tick[c].target, left |-> tick[c].left]
    <2>1. CASE r = "stored"
      <3>1. /\ tick' = [tick EXCEPT ![c] = b] /\ made' = [made EXCEPT ![c] = made[c] \ {i}]
            /\ purge' = [purge EXCEPT ![c] = {}] /\ warm' = [warm EXCEPT ![c] = {}]
        BY <1>1, <1>2, <2>1 DEF GoTo, TickAt, TickT
      <3>2. /\ b \in TickRecord /\ TickShape(b, {}, made[c] \ {i}, {})
            /\ made[c] \ {i} \in SUBSET Sandboxes /\ {} \in SUBSET Sandboxes
        BY <1>2, Zenon DEF TickRecord, TickShape
      <3> HIDE DEF b
      <3> QED
        BY <3>1, <3>2, TickHolds, Zenon
    <2>2. CASE r # "stored"
      BY <1>1, <1>2, <2>2, LockLostTypes, Zenon
    <2> QED
      BY <2>1, <2>2
  <1>5. EventsT'
    <2>1. r \in {"failed", "unknown"} => events < MaxEvents
      BY <1>1 DEF PutOutcomes, Happens
    <2> QED
      BY <1>1, <2>1, CountTypes, Zenon
  <1> QED
    BY <1>3, <1>4, <1>5 DEF TickPut, ServerT, LifeT, CallT, DrainT, Active, serverVars

\* The steps of acquire() that only move it on
LEMMA AcquireMoveTypes ==
  ASSUME TypeInv, NEW a \in Callers,
         (\E c \in Clients : AcquireBegin(a, c)) \/ AcquireCheck(a) \/ AcquireConnect(a)
  PROVE  TypeInv'
  <1> USE ClientPoolAssumption DEF TypeInv
  <1> DEFINE r(p) == [pc |-> p, at |-> call[a].at, id |-> call[a].id, tries |-> call[a].tries,
                      doomed |-> call[a].doomed]
  <1>1. call[a] \in CallRecord /\ CallShape(call[a])
    BY DEF CallT
  <1>2. CASE \E c \in Clients : AcquireBegin(a, c)
    <2>1. PICK c \in Clients : AcquireBegin(a, c)
      BY <1>2, SMTT(30)
    <2> DEFINE q == [pc |-> "check", at |-> c, id |-> None, tries |-> 0, doomed |-> {}]
    <2>2. call' = [call EXCEPT ![a] = q]
      BY <2>1 DEF AcquireBegin
    <2>3. q \in CallRecord
      BY DEF CallRecord
    <2>4. CallShape(q)
      BY SMTT(30) DEF CallShape
    <2>5. UNCHANGED <<idle, ttl, lock, maxIdle, fence, server, borrowed, life, stopping, tick, warm,
                      made, purge, kills, drainer, events, lost>>
      BY <2>1, Zenon DEF AcquireBegin, storeVars, serverVars, tickVars
    <2> HIDE DEF q
    <2>6. CallT'
      BY <2>2, <2>3, <2>4, <2>5, CallMoves, Zenon DEF CallT
    <2> QED
      BY <2>5, <2>6 DEF StoreT, ServerT, LifeT, TickT, DrainT, EventsT, Active
  <1>3. CASE AcquireCheck(a) \/ AcquireConnect(a)
    <2>1. PICK q \in CallRecord : CallShape(q) /\ call' = [call EXCEPT ![a] = q]
      <3>1. CASE Return(a)
        <4>1. CallOut \in CallRecord /\ CallShape(CallOut)
          BY DEF CallOut, CallRecord, CallShape
        <4> QED
          BY <3>1, <4>1, Zenon DEF Return
      <3>2. CASE AcquireCheck(a) /\ CallGoesOn(a, "take")
        <4>1. r("take") \in CallRecord /\ CallShape(r("take"))
          BY <1>1, <3>2, Zenon DEF AcquireCheck, CallRecord, CallShape
        <4> QED
          BY <3>2, <4>1, Zenon DEF CallGoesOn, CallAt
      <3>3. CASE AcquireConnect(a)
        <4>1. /\ r("fence") \in CallRecord /\ CallShape(r("fence"))
              /\ r("stale") \in CallRecord /\ CallShape(r("stale"))
          BY <1>1, <3>3, Zenon DEF AcquireConnect, CallRecord, CallShape
        <4>2. call' = [call EXCEPT ![a] = r("fence")] \/ call' = [call EXCEPT ![a] = r("stale")]
          BY <3>3, Zenon DEF AcquireConnect, CallGoesOn, CallAt
        <4> HIDE DEF r
        <4> QED
          BY <4>1, <4>2, Zenon
      <3> QED
        BY <1>3, <3>1, <3>2, <3>3, Zenon DEF AcquireCheck
    <2>2. UNCHANGED <<idle, ttl, lock, maxIdle, fence, server, borrowed, life, stopping, tick, warm,
                      made, purge, kills, drainer, lost>>
      BY <1>3, Zenon DEF AcquireCheck, AcquireConnect, storeVars, serverVars, tickVars
    <2>3. CallT'
      BY <2>1, <2>2, CallMoves DEF CallT
    <2>4. EventsT'
      BY <1>3 DEF AcquireCheck, AcquireConnect, EventsT, Count, Happens
    <2> QED
      BY <2>2, <2>3, <2>4 DEF StoreT, ServerT, LifeT, TickT, DrainT, Active
  <1> QED
    BY <1>2, <1>3

\* The end of a search for a candidate
LEMMA GiveUpTypes ==
  ASSUME CallT, NEW a \in Callers, call[a].pc # "out", NEW S \in SUBSET Sandboxes, GiveUp(a, S)
  PROVE  CallT'
  <1> USE ClientPoolAssumption
  <1> DEFINE r == [pc |-> "create", at |-> call[a].at, id |-> None, tries |-> 0, doomed |-> {}]
  <1>1. kills' \in [Clients -> SUBSET Sandboxes]
    BY Zenon DEF GiveUp, ScheduleKill, CallT, CallShape
  <1>2. call' = [call EXCEPT ![a] = r] \/ call' = [call EXCEPT ![a] = CallOut]
    BY Zenon DEF GiveUp, CallAt, Return
  <1>3. call[a] \in CallRecord /\ CallShape(call[a])
    BY Zenon DEF CallT
  <1>4. r \in CallRecord
    BY <1>3, SMTT(30) DEF CallRecord
  <1>5. CallShape(r)
    BY <1>3, Zenon DEF CallShape
  <1>6. CallOut \in CallRecord /\ CallShape(CallOut)
    BY DEF CallOut, CallRecord, CallShape
  <1> HIDE DEF r
  <1> QED
    BY <1>1, <1>2, <1>4, <1>5, <1>6, CallMoves, Zenon

\* A call takes a candidate out of the store, or finds none
LEMMA AcquireTakeTypes ==
  ASSUME TypeInv, NEW a \in Callers, AcquireTake(a)
  PROVE  TypeInv'
  <1> USE ClientPoolAssumption DEF TypeInv
  <1>1. call[a] \in CallRecord /\ CallShape(call[a]) /\ call[a].pc = "take"
    BY Zenon DEF CallT, AcquireTake
  <1>2. idle' \subseteq idle /\ CallT' /\ ServerT' /\ EventsT'
    <2>1. ASSUME Happens("outage"), Count(TRUE), UNCHANGED <<idle, lost>>
          PROVE  idle' \subseteq idle /\ ServerT' /\ EventsT'
      BY <2>1, CountTypes, Zenon DEF AcquireTake, Happens, ServerT, serverVars
    <2>2. ASSUME NEW t \in Takes(Short), idle' = TakenFrom(t),
                 UNCHANGED <<events, lost>> \/ Unheard(idle \ TakenFrom(t))
          PROVE  idle' \subseteq idle /\ ServerT' /\ EventsT'
      <3>1. idle' \subseteq idle
        BY <2>2, TakesTypes DEF StoreT, Short
      <3>2. Answered
        BY <2>2, Zenon DEF Answered
      <3> QED
        BY <3>1, <3>2, AnsweredTypes, Zenon DEF AcquireTake, serverVars
    <2>3. ASSUME GiveUp(a, call[a].doomed) PROVE CallT'
      <3>1. call[a].doomed \in SUBSET Sandboxes
        BY <1>1, Zenon DEF CallRecord
      <3> QED
        BY <1>1, <2>3, <3>1, GiveUpTypes, Zenon
    <2>4. ASSUME NEW t \in Takes(Short),
                 \/ /\ t.id = None
                    /\ GiveUp(a, call[a].doomed \cup (t.gone \ Expired))
                 \/ /\ t.id # None
                    /\ CallAt(a, "connect", t.id, call[a].tries + 1,
                              call[a].doomed \cup (t.gone \ Expired))
                    /\ UNCHANGED kills
          PROVE  CallT'
      <3> DEFINE D == call[a].doomed \cup (t.gone \ Expired)
                 r == [pc |-> "connect", at |-> call[a].at, id |-> t.id,
                       tries |-> call[a].tries + 1, doomed |-> D]
      <3>1. t.id \in Sandboxes \cup {None} /\ t.gone \subseteq Sandboxes
        BY TakesTypes DEF StoreT, Short
      <3>2. D \in SUBSET Sandboxes
        BY <1>1, <3>1, Zenon DEF CallRecord
      <3> HIDE DEF D
      <3>3. CASE t.id = None
        BY <1>1, <2>4, <3>2, <3>3, GiveUpTypes, Zenon DEF D
      <3>4. CASE t.id # None
        <4>1. r \in CallRecord /\ CallShape(r)
          BY <1>1, <3>1, <3>2, <3>4 DEF CallRecord, CallShape
        <4>2. call' = [call EXCEPT ![a] = r] /\ kills' \in [Clients -> SUBSET Sandboxes]
          BY <2>4, <3>4, Zenon DEF CallAt, CallT, D
        <4> HIDE DEF r
        <4> QED
          BY <4>1, <4>2, CallMoves, Zenon
      <3> QED
        BY <3>3, <3>4, Zenon
    <2> QED
      BY <2>1, <2>2, <2>3, <2>4, ZenonT(30) DEF AcquireTake
  <1>3. StoreT'
    BY <1>2, StoreShrinks, Zenon DEF AcquireTake
  <1> QED
    BY <1>2, <1>3, Zenon DEF AcquireTake, LifeT, TickT, DrainT, Active, tickVars

\* A candidate that does not answer
LEMMA AcquireStaleTypes ==
  ASSUME TypeInv, NEW a \in Callers, AcquireStale(a)
  PROVE  TypeInv'
  <1> USE ClientPoolAssumption DEF TypeInv
  <1> DEFINE c == call[a].at
             i == call[a].id
             doomed == call[a].doomed
             r == [pc |-> "take", at |-> c, id |-> None, tries |-> call[a].tries,
                   doomed |-> doomed]
  <1>1. /\ call[a] \in CallRecord /\ CallShape(call[a]) /\ call[a].pc = "stale"
        /\ c \in Clients /\ i \in Sandboxes /\ doomed \subseteq Sandboxes
    BY Zenon DEF CallT, AcquireStale, CallRecord, CallShape
  <1>2. idle' \subseteq idle
    BY Zenon DEF AcquireStale
  <1>3. lost' \subseteq Sandboxes
    <2>1. \/ lost' = lost \/ lost' = lost \cup {i} \cup doomed \/ lost' = lost \cup doomed
      BY Zenon DEF AcquireStale
    <2> QED
      BY <1>1, <2>1 DEF ServerT
  <1>4. CallT'
    <2>1. ASSUME Return(a), kills' \in [Clients -> SUBSET Sandboxes] PROVE CallT'
      <3>1. CallOut \in CallRecord /\ CallShape(CallOut)
        BY DEF CallOut, CallRecord, CallShape
      <3> QED
        BY <2>1, <3>1, CallMoves, ZenonT(30) DEF Return
    <2>2. ASSUME GiveUp(a, {i} \cup doomed) PROVE CallT'
      <3>1. {i} \cup doomed \in SUBSET Sandboxes /\ call[a].pc # "out"
        BY <1>1, Zenon
      <3> QED
        BY <2>2, <3>1, GiveUpTypes, Zenon
    <2>3. ASSUME MayRetry(a), ScheduleKill(c, {i}),
                 CallAt(a, "take", None, call[a].tries, doomed)
          PROVE  CallT'
      <3>1. r \in CallRecord /\ CallShape(r)
        BY <1>1, <2>3, Zenon DEF CallRecord, CallShape, MayRetry
      <3>2. call' = [call EXCEPT ![a] = r]
        BY <2>3, SMTT(30) DEF CallAt
      <3>3. kills' \in [Clients -> SUBSET Sandboxes]
        BY <1>1, <2>3 DEF ScheduleKill, CallT
      <3> HIDE DEF r
      <3> QED
        BY <3>1, <3>2, <3>3, CallMoves, Zenon
    <2>4. \/ /\ Return(a)
             /\ UNCHANGED kills \/ ScheduleKill(c, {i}) \/ ScheduleKill(c, {i} \cup doomed)
          \/ GiveUp(a, {i} \cup doomed)
          \/ /\ MayRetry(a) /\ ScheduleKill(c, {i})
             /\ CallAt(a, "take", None, call[a].tries, doomed)
      BY Zenon DEF AcquireStale
    <2>5. UNCHANGED kills \/ ScheduleKill(c, {i}) \/ ScheduleKill(c, {i} \cup doomed)
            => kills' \in [Clients -> SUBSET Sandboxes]
      BY <1>1 DEF ScheduleKill, CallT
    <2> HIDE DEF c, i, doomed
    <2> QED
      BY <2>1, <2>2, <2>3, <2>4, <2>5
  <1>5. EventsT'
    <2>1. \/ UNCHANGED events
          \/ Count(TRUE) /\ Happens("outage")
          \/ Count(Active) /\ (Active => Happens("outage"))
      BY Zenon DEF AcquireStale
    <2> QED
      BY <2>1, CountTypes, Zenon DEF Happens, EventsT
  <1>6. StoreT'
    BY <1>2, StoreShrinks, Zenon DEF AcquireStale
  <1> QED
    BY <1>3, <1>4, <1>5, <1>6, Zenon
    DEF AcquireStale, ServerT, LifeT, TickT, DrainT, Active, serverVars, tickVars

\* A direct create
LEMMA AcquireCreateTypes ==
  ASSUME TypeInv, NEW a \in Callers, AcquireCreate(a)
  PROVE  TypeInv'
  <1> USE ClientPoolAssumption DEF TypeInv
  <1>1. call[a] \in CallRecord /\ CallShape(call[a]) /\ call[a].pc = "create"
    BY SMTT(30) DEF CallT, AcquireCreate
  <1>2. CallT' /\ ServerT' /\ EventsT'
    <2>1. ASSUME NEW i \in Unborn, server' = [server EXCEPT ![i] = "alive"], UNCHANGED lost,
                 CallAt(a, "created", i, call[a].tries, call[a].doomed)
          PROVE  CallT' /\ ServerT'
      <3> DEFINE r == [pc |-> "created", at |-> call[a].at, id |-> i, tries |-> call[a].tries,
                       doomed |-> call[a].doomed]
      <3>1. r \in CallRecord /\ CallShape(r)
        BY <1>1, Zenon DEF CallRecord, CallShape, Unborn
      <3>2. call' = [call EXCEPT ![a] = r] /\ kills' \in [Clients -> SUBSET Sandboxes]
        BY <2>1 DEF CallAt, CallT, AcquireCreate
      <3>3. ServerT'
        BY <2>1, ZenonT(30) DEF ServerT, AcquireCreate
      <3> HIDE DEF r
      <3> QED
        BY <3>1, <3>2, <3>3, CallMoves, ZenonT(30)
    <2>2. ASSUME Return(a) PROVE CallT'
      BY <2>2 DEF AcquireCreate, CallT, Return, CallOut, CallRecord, CallShape
    <2>3. ASSUME UNCHANGED <<server, lost>> PROVE ServerT'
      BY <2>3, Zenon DEF AcquireCreate, ServerT
    <2>4. ASSUME CreationFails \/ (Count(~Active) /\ (Active \/ Happens("outage"))) PROVE EventsT'
      BY <2>4, SMTT(30) DEF CreationFails, Count, Happens, EventsT
    <2>5. ASSUME CreatedUnheard PROVE ServerT' /\ EventsT'
      BY <2>5, CreatedUnheardTypes, Zenon DEF AcquireCreate
    <2> QED
      BY <2>1, <2>2, <2>3, <2>4, <2>5, ZenonT(30) DEF AcquireCreate
  <1> QED
    BY <1>2, Zenon DEF AcquireCreate, StoreT, LifeT, TickT, DrainT, Active, storeVars, tickVars

\* A sandbox is handed out, or killed
LEMMA AcquireReturnTypes ==
  ASSUME TypeInv, NEW a \in Callers, AcquireReturn(a)
  PROVE  TypeInv'
  <1> USE DEF TypeInv
  <1> DEFINE i == call[a].id
  <1>1. /\ call[a] \in CallRecord /\ CallShape(call[a])
        /\ call[a].at \in Clients /\ i \in Sandboxes /\ call[a].doomed \subseteq Sandboxes
    BY Zenon DEF CallT, AcquireReturn, CallRecord, CallShape
  <1>2. CallT'
    <2>1. call' = [call EXCEPT ![a] = CallOut] /\ kills' \in [Clients -> SUBSET Sandboxes]
      BY <1>1 DEF AcquireReturn, Return, ScheduleKill, CallT
    <2>2. CallOut \in CallRecord /\ CallShape(CallOut)
      BY ClientPoolAssumption DEF CallOut, CallRecord, CallShape
    <2> QED
      BY <2>1, <2>2, CallMoves, Zenon
  <1>3. ServerT' /\ EventsT'
    <2>1. ASSUME borrowed' = borrowed \cup {i}, UNCHANGED <<server, lost>>,
                 UNCHANGED events \/ (Happens("outage") /\ Count(TRUE))
          PROVE  ServerT' /\ EventsT'
      BY <1>1, <2>1, CountTypes, Zenon DEF ServerT, EventsT, Happens
    <2>2. ASSUME ~Active \/ Happens("renew"), UNCHANGED borrowed,
                 NEW ok \in KillResults, Kill({i}, ok), Count(Active \/ ~ok)
          PROVE  ServerT' /\ EventsT'
      <3>1. (Active \/ ~ok) => events < MaxEvents
        BY <2>2, KillResultTypes DEF Happens
      <3> QED
        BY <1>1, <2>2, <3>1, KillResultTypes, KillTypes, CountTypes, Zenon
    <2> QED
      BY <2>1, <2>2, Zenon DEF AcquireReturn
  <1> QED
    BY <1>2, <1>3 DEF AcquireReturn, StoreT, LifeT, TickT, DrainT, Active, storeVars, tickVars

\* destroy() and release_all_idle()
LEMMA DrainTypes ==
  ASSUME TypeInv, Drain \/ DestroyRaises
  PROVE  TypeInv'
  <1> USE ClientPoolAssumption DEF TypeInv
  <1>1. CASE Destroy \/ ReleaseAllIdle \/ MarkDestroyed \/ DestroyRaises
    BY <1>1 DEF Destroy, ReleaseAllIdle, MarkDestroyed, DestroyRaises, DrainerOut, StoreT,
                ServerT, LifeT, TickT, CallT, DrainT, EventsT, storeVars, serverVars, tickVars,
                Active, Happens, Count
  <1>2. CASE DrainTake
    <2>1. PICK t \in Takes(Expired) :
               /\ idle' = TakenFrom(t)
               /\ UNCHANGED <<events, lost>> \/ Unheard(idle \ TakenFrom(t))
               /\ drainer' \in {DrainerOut, [pc |-> IF t.id = None THEN drainer.next ELSE "kill",
                                             id |-> t.id, next |-> drainer.next]}
      BY <1>2, Zenon DEF DrainTake
    <2>2. idle' \subseteq idle /\ t.id \in Sandboxes \cup {None}
      <3>1. idle \subseteq Sandboxes /\ Expired \subseteq idle
        BY DEF StoreT, Expired
      <3> QED
        BY <2>1, <3>1, TakesTypes, Zenon
    <2>3. StoreT'
      BY <1>2, <2>2, StoreShrinks DEF DrainTake
    <2>4. DrainT'
      BY <1>2, <2>1, <2>2 DEF DrainTake, DrainT, DrainerOut, Active
    <2>5. ServerT' /\ EventsT'
      BY <1>2, <2>1, <2>2, AnsweredTypes, Zenon DEF DrainTake, Answered, serverVars
    <2> QED
      BY <1>2, <2>3, <2>4, <2>5, Zenon DEF DrainTake, LifeT, TickT, CallT, tickVars
  <1>3. CASE DrainKill
    <2>1. PICK ok \in KillResults, late \in BOOLEAN :
               /\ late => Happens("timeout") /\ drainer.next = "clear"
               /\ Kill({drainer.id}, ok) /\ Count(late \/ ~ok)
               /\ drainer' = IF late THEN DrainerOut
                             ELSE [pc |-> "take", id |-> None, next |-> drainer.next]
      BY <1>3 DEF DrainKill
    <2>2. DrainT'
      BY <1>3, <2>1 DEF DrainKill, DrainT, DrainerOut, Active, storeVars
    <2>3. EventsT'
      <3>1. (late \/ ~ok) => events < MaxEvents
        BY <2>1, KillResultTypes DEF Happens
      <3> QED
        BY <2>1, <3>1, CountTypes
    <2>4. ServerT'
      <3>1. CASE drainer.id # None
        <4>1. {drainer.id} \in SUBSET Sandboxes
          BY <3>1 DEF DrainT
        <4> QED
          BY <1>3, <2>1, <4>1, KillResultTypes, KillTypes DEF DrainKill
      <3>2. CASE drainer.id = None
        BY <1>3, <3>2, SMTT(30) DEF DrainKill, DrainT
      <3> QED
        BY <3>1, <3>2
    <2> QED
      BY <1>3, <2>2, <2>3, <2>4 DEF DrainKill, StoreT, LifeT, TickT, CallT, storeVars, tickVars
  <1>4. CASE ClearPoolState
    <2>1. StoreT'
      BY <1>4, FS_EmptySet DEF ClearPoolState, StoreT
    <2> QED
      BY <1>4, <2>1 DEF ClearPoolState, ServerT, LifeT, TickT, CallT, DrainT, EventsT, serverVars,
                        tickVars, Active
  <1> QED
    BY <1>1, <1>2, <1>3, <1>4, SMTT(30) DEF Drain

\* The environment: time, failures, borrowers, operators
LEMMA EnvironmentTypes ==
  ASSUME TypeInv,
         \/ LockExpires
         \/ \E i \in Sandboxes : Age(i) \/ Dies(i) \/ BorrowerKills(i)
         \/ \E n \in 0..MaxIdle : Resize(n)
  PROVE  TypeInv'
  <1> USE ClientPoolAssumption DEF TypeInv, StoreT, ServerT, LifeT, TickT, CallT, DrainT,
        EventsT, storeVars, serverVars, tickVars, Active, Happens, Count
  <1>1. ASSUME LockExpires PROVE TypeInv'
    BY <1>1, SMTT(30) DEF LockExpires
  <1>2. ASSUME NEW i \in Sandboxes, Age(i) PROVE TypeInv'
    BY <1>2, SMTT(30) DEF Age
  <1>3. ASSUME NEW i \in Sandboxes, Dies(i) PROVE TypeInv'
    BY <1>3, SMTT(30) DEF Dies
  <1>4. ASSUME NEW i \in Sandboxes, BorrowerKills(i) PROVE TypeInv'
    BY <1>4, SMTT(30) DEF BorrowerKills, Killed
  <1>5. ASSUME NEW n \in 0..MaxIdle, Resize(n) PROVE TypeInv'
    BY <1>5, SMTT(30) DEF Resize
  <1> QED
    BY <1>1, <1>2, <1>3, <1>4, <1>5, ZenonT(30)

\* A process is killed
LEMMA CrashTypes ==
  ASSUME TypeInv, NEW c \in Clients, Crash(c)
  PROVE  TypeInv'
  BY ClientPoolAssumption
  DEF TypeInv, StoreT, ServerT, LifeT, TickT, CallT, DrainT, EventsT, storeVars, serverVars,
      Active, Happens, Count, Crash, NotStopping, TickEnds, TickOff, CallOut, CallersAt,
      TickRecord, TickShape, CallRecord, CallShape

\* A stuttering step
LEMMA StutterTypes ==
  ASSUME TypeInv, UNCHANGED vars
  PROVE  TypeInv'
  BY DEF TypeInv, StoreT, ServerT, LifeT, TickT, CallT, DrainT, EventsT, vars, storeVars,
         serverVars, tickVars, Active

\* Every step keeps the types
LEMMA TypesStep ==
  ASSUME TypeInv, [Next]_vars
  PROVE  TypeInv'
  <1>1. ASSUME NEW c \in Clients, Tick(c) PROVE TypeInv'
    BY <1>1, TickMoveTypes, TickEndTypes, TickTakeTypes, TickDiscardTypes, WarmBuildTypes,
       WarmFinishTypes, TickRenewTypes, TickPutTypes, Zenon DEF Tick
  <1>2. ASSUME NEW c \in Clients, Lifecycle(c) PROVE TypeInv'
    BY <1>2, LifecycleTypes, HaltTypes, JoinTypes, BackgroundKillTypes DEF Lifecycle
  <1>3. ASSUME NEW a \in Callers, Acquire(a) PROVE TypeInv'
    BY <1>3, AcquireMoveTypes, AcquireTakeTypes, AcquireStaleTypes, AcquireCreateTypes,
       AcquireReturnTypes DEF Acquire
  <1>4. CASE Environment
    BY <1>4, DrainTypes, EnvironmentTypes, CrashTypes, TickEndTypes DEF Environment
  <1> QED
    BY <1>1, <1>2, <1>3, <1>4, DrainTypes, StutterTypes, Zenon DEF Next

(***************************************************************************)
(* The destroy fence.                                                      *)
(***************************************************************************)
\* A namespace that is not ACTIVE only loses entries, its lock and its target
Ebbs == idle' \subseteq idle /\ lock' \in {lock, None} /\ maxIdle' \in {maxIdle, None}

\* Takes of the entries that are expired or short only shrink the idle hash
LEMMA TakesEbb ==
  ASSUME StoreT, NEW t \in Takes(Expired) \cup Takes(Short)
  PROVE  TakenFrom(t) \subseteq idle
  BY TakesTypes DEF StoreT, Expired, Short

\* Only an ACTIVE namespace gains an entry, a lock owner or a target
LEMMA OnlyActiveGrows ==
  ASSUME TypeInv, Next, ~Active
  PROVE  Ebbs
  <1> USE DEF Ebbs, storeVars
  <1>1. ASSUME NEW c \in Clients, Tick(c) PROVE Ebbs
    <2>1. CASE TickPop(c)
      BY <2>1, TakesEbb, Zenon DEF TickPop, TypeInv
    <2>2. CASE TickPut(c)
      <3>1. PutOutcomes \cap {"stored", "unknown"} = {}
        BY Zenon DEF PutOutcomes
      <3> QED
        BY <2>2, <3>1, Zenon DEF TickPut
    <2>3. ASSUME NEW i \in Sandboxes, TickDiscard(c, i) \/ WarmFinish(c, i) PROVE Ebbs
      BY <2>3 DEF TickDiscard, WarmFinish
    <2>4. CASE \/ TickStart(c) \/ TickCheck(c) \/ TickStop(c) \/ TickLock(c) \/ TickReap(c)
               \/ TickCount(c) \/ TickShrink(c) \/ WarmBuild(c) \/ TickRenew(c)
      BY <2>4, Zenon DEF TickStart, TickCheck, TickStop, TickLock, TickReap, TickCount, TickShrink,
                  WarmBuild, TickRenew, CanLock, Released
    <2> QED
      BY <1>1, <2>1, <2>2, <2>3, <2>4, Zenon DEF Tick
  <1>2. ASSUME NEW c \in Clients, Lifecycle(c) PROVE Ebbs
    BY <1>2, Zenon DEF Lifecycle, Start, Shutdown, ShutdownNow, HaltTick, Join, Drained, BackgroundKill,
                Released
  <1>3. ASSUME NEW a \in Callers, Acquire(a) PROVE Ebbs
    <2>1. CASE AcquireTake(a)
      BY <2>1, TakesEbb, Zenon DEF AcquireTake, TypeInv
    <2> QED
      BY <1>3, <2>1, Zenon DEF Acquire, AcquireBegin, AcquireCheck, AcquireConnect, AcquireStale,
                        AcquireCreate, AcquireReturn
  <1>4. CASE Drain
    <2>1. CASE DrainTake
      BY <2>1, TakesEbb DEF DrainTake, TypeInv
    <2> QED
      BY <1>4, <2>1, Zenon DEF Drain, Destroy, ReleaseAllIdle, DrainKill, ClearPoolState, MarkDestroyed
  <1>5. CASE Environment
    BY <1>5, Zenon DEF Environment, LockExpires, DestroyRaises, Age, Dies, BorrowerKills, Resize, Crash,
                TickRaises
  <1> QED
    BY <1>1, <1>2, <1>3, <1>4, <1>5, Zenon DEF Next

\* Only destroy() moves the fence, and only the drain's own steps move the drain
LEMMA OnlyDrainMoves ==
  ASSUME Next, ~Drain
  PROVE  UNCHANGED fence /\ (UNCHANGED drainer \/ drainer' = DrainerOut)
  <1> USE DEF storeVars
  <1>1. ASSUME NEW c \in Clients, Tick(c) PROVE UNCHANGED <<fence, drainer>>
    BY <1>1, Zenon DEF Tick, TickStart, TickCheck, TickStop, TickLock, TickReap, TickCount, TickShrink,
                TickPop, WarmBuild, TickRenew, TickPut, TickDiscard, WarmFinish
  <1>2. ASSUME NEW c \in Clients, Lifecycle(c) PROVE UNCHANGED <<fence, drainer>>
    BY <1>2, Zenon DEF Lifecycle, Start, Shutdown, ShutdownNow, HaltTick, Join, Drained, BackgroundKill
  <1>3. ASSUME NEW a \in Callers, Acquire(a) PROVE UNCHANGED <<fence, drainer>>
    BY <1>3, Zenon DEF Acquire, AcquireBegin, AcquireCheck, AcquireTake, AcquireConnect, AcquireStale,
                AcquireCreate, AcquireReturn
  <1>4. CASE Environment
    BY <1>4, Zenon DEF Environment, LockExpires, DestroyRaises, Age, Dies, BorrowerKills, Resize, Crash,
                TickRaises
  <1> QED
    BY <1>1, <1>2, <1>3, <1>4 DEF Next

\* A kill of the drain goes back to the next take, or gives up
LEMMA DrainKillMoves ==
  ASSUME DrainKill
  PROVE  UNCHANGED storeVars /\ drainer'.pc \in {"take", "out"}
  <1>1. PICK late \in BOOLEAN :
             drainer' = IF late THEN DrainerOut
                        ELSE [pc |-> "take", id |-> None, next |-> drainer.next]
    BY Zenon DEF DrainKill
  <1> QED
    BY <1>1, Zenon DEF DrainKill, DrainerOut

\* Nothing enters a namespace between the last take of destroy() and its tombstone
LEMMA DestroyedStep ==
  ASSUME TypeInv, DestroyedIsEmpty, [Next]_vars
  PROVE  DestroyedIsEmpty'
  <1> USE DEF DestroyedIsEmpty
  <1>1. CASE UNCHANGED vars
    BY <1>1, Zenon DEF vars, storeVars
  <1>2. CASE Next /\ Active
    <2>1. drainer.pc \notin {"clear", "mark"} /\ fence # "DESTROYED"
      BY <1>2, Zenon DEF TypeInv, DrainT, Active
    <2>2. drainer.next # "clear"
      BY <1>2 DEF TypeInv, DrainT
    <2>3. drainer'.pc \notin {"clear", "mark"} /\ fence' # "DESTROYED"
      <3>1. CASE Drain
        <4>1. CASE DrainTake
          BY <2>1, <2>2, <4>1 DEF DrainTake, DrainerOut, TypeInv, DrainT
        <4>2. CASE Destroy \/ ReleaseAllIdle \/ ClearPoolState \/ MarkDestroyed
          BY <2>1, <4>2 DEF Destroy, ReleaseAllIdle, ClearPoolState, MarkDestroyed, storeVars, Count
        <4> QED
          BY <2>1, <3>1, <4>1, <4>2, DrainKillMoves DEF Drain, storeVars
      <3>2. CASE ~Drain
        BY <1>2, <2>1, <3>2, OnlyDrainMoves DEF DrainerOut
      <3> QED
        BY <3>1, <3>2
    <2> QED
      BY <2>3, Zenon
  <1>3. CASE Next /\ ~Active
    <2>1. Ebbs
      BY <1>3, OnlyActiveGrows
    <2>2. CASE ~Drain
      BY <1>3, <2>1, <2>2, OnlyDrainMoves DEF Ebbs, DrainerOut
    <2>3. CASE DrainTake
      <3>1. PICK t \in Takes(Expired) :
                 /\ idle' = TakenFrom(t)
                 /\ drainer' \in {DrainerOut, [pc |-> IF t.id = None THEN drainer.next
                                                      ELSE "kill",
                                               id |-> t.id, next |-> drainer.next]}
        BY <2>3, Zenon DEF DrainTake
      <3>2. t.id = None => t.gone = idle
        BY TakesTypes, SMTT(30) DEF TypeInv, StoreT, Expired
      <3>3. t.id = None => idle' = {}
        BY <3>1, <3>2 DEF TakenFrom
      <3>4. drainer'.pc \in {"clear", "mark"} => idle' = {}
        BY <3>1, <3>3 DEF DrainerOut
      <3>5. drainer'.pc # "mark"
        BY <3>1 DEF TypeInv, DrainT, DrainerOut
      <3> QED
        BY <2>1, <2>3, <3>4, <3>5 DEF DrainTake, Ebbs
    <2>4. CASE Destroy \/ ReleaseAllIdle
      BY <2>1, <2>4 DEF Ebbs, Destroy, ReleaseAllIdle, storeVars, Count
    <2>5. CASE DrainKill
      BY <2>5, DrainKillMoves, SMTT(30) DEF storeVars
    <2>6. CASE ClearPoolState \/ MarkDestroyed
      BY <2>6 DEF ClearPoolState, MarkDestroyed, DrainerOut
    <2> QED
      BY <2>2, <2>3, <2>4, <2>5, <2>6, Zenon DEF Drain
  <1> QED
    BY <1>1, <1>2, <1>3

\* Every reachable state has the types of TypeOK
THEOREM PoolTypesHold == Spec => []TypeOK
  BY TypesInit, TypesStep, TypesImplied, PTL DEF Spec

\* For any number of clients and callers, and whatever fails, the tombstone of
\* destroy() stands over an empty namespace
THEOREM DestroyLeavesNothing == Spec => []DestroyedIsEmpty
  <1>1. Init => DestroyedIsEmpty
    BY Zenon DEF Init, DestroyedIsEmpty, DrainerOut
  <1> QED
    BY <1>1, TypesInit, TypesStep, DestroyedStep, PTL DEF Spec

=============================================================================
