---------------------------- MODULE ClientPool ----------------------------
(***************************************************************************)
(* The client-side sandbox pool of the Python SDK: several processes       *)
(* (Clients) share one pool name through a Redis store.  Each runs a       *)
(* reconcile tick that, while it owns the primary lock, tops the idle set  *)
(* up to maxIdle or shrinks it; each serves acquire() calls (Callers); a   *)
(* pool manager may destroy the namespace at any time.                     *)
(*                                                                         *)
(* A step is what runs between two awaits.  Every Lua script of the store  *)
(* is one atomic step; a call that fails may have run its script and lost  *)
(* only the reply.  Two awaits share a step only where one of them is a    *)
(* read that commutes with everything until the next.  The order of the    *)
(* idle list is left out: a take may return any entry that the script      *)
(* accepts.                                                                *)
(***************************************************************************)
EXTENDS Naturals, FiniteSets

CONSTANTS
  Clients,            \* pool instances, each with an owner id of its own
  Callers,            \* tasks that call acquire()
  Sandboxes,          \* ids the lifecycle server can give out
  None,               \* no lock owner, no sandbox
  MaxIdle,            \* largest max_idle that start() and resize() set
  WarmupConcurrency,  \* sandboxes created or removed per tick
  MaxAcquireRetries,  \* idle candidates one acquire() tries
  FallsThrough,       \* the acquire policy ends in a direct create
  MaxEvents,          \* bound on the events below in a behaviour
  Env                 \* the kinds of event that happen: failures, expiries,
                      \* shutdowns, drains and resizes

ASSUME ClientPoolAssumption ==
  /\ MaxIdle \in Nat /\ WarmupConcurrency \in Nat \ {0}
  /\ MaxAcquireRetries \in Nat \ {0} /\ MaxEvents \in Nat
  /\ FallsThrough \in BOOLEAN
  /\ None \notin Clients \cup Sandboxes

ASSUME ClientsAssumption == IsFiniteSet(Clients) /\ Clients # {}

VARIABLES
  \* the store
  idle,      \* ids in the idle hash
  ttl,       \* what is left of an entry's stamped lifetime
  lock,      \* owner of the primary lock, or None
  maxIdle,   \* the shared max_idle, None when the key is absent
  fence,     \* the destroy state of the namespace
  \* the lifecycle server
  server,    \* each id: "unborn", "alive" or "dead"
  borrowed,  \* ids that acquire() returned and their borrower still has
  \* the clients
  life,      \* _lifecycle_state
  stopping,  \* a shutdown() in progress: [pc, waits]
  tick,      \* the reconcile tick: [pc, target, left]
  warm,      \* ids of the warm-up tasks whose sandbox exists
  made,      \* created_ids that are still to be put
  purge,     \* ids the tick has still to kill
  kills,     \* ids of the background kill tasks (_warmup_tasks)
  call,      \* acquire(): [pc, at, id, tries, doomed]
  drainer,   \* destroy() or release_all_idle(): [pc, id, next]
  events,    \* events so far
  lost       \* ids that were given up without being killed: the kill failed, its
             \* task was cancelled or its client was closed, the tick or the call
             \* that held them raised, the answer to the take or the create that
             \* yielded them was lost, or the process that held them died

storeVars == <<idle, ttl, lock, maxIdle, fence>>
serverVars == <<server, borrowed>>
tickVars == <<tick, warm, made, purge>>
vars == <<storeVars, serverVars, life, stopping, tickVars, kills, call,
          drainer, events, lost>>

Unborn == {i \in Sandboxes : server[i] = "unborn"}
Alive(S) == {i \in S : server[i] = "alive"}
Active == fence = "ACTIVE"
Least(a, b) == IF a < b THEN a ELSE b

TickOff == [pc |-> "off", target |-> 0, left |-> 0]
CallOut == [pc |-> "out", at |-> None, id |-> None, tries |-> 0, doomed |-> {}]
NotStopping == [pc |-> "none", waits |-> {}]
DrainerOut == [pc |-> "out", id |-> None, next |-> "out"]

TickAt(c, pc, target, left) ==
  tick' = [tick EXCEPT ![c] = [pc |-> pc, target |-> target, left |-> left]]

CallersAt(c) == {a \in Callers : call[a].at = c}

\* The coroutines _in_flight counts: acquire() calls, the tick, its warm-ups.
InFlight(c) == CallersAt(c) # {} \/ tick[c].pc # "off"

\* The lifecycle client exists between start() and _close_provider().
Open(c) == life[c] \in {"RUNNING", "DRAINING"}

\* One more event of kind k is possible, and is counted.
Happens(k) == k \in Env /\ events < MaxEvents
Count(happened) == events' = IF happened THEN events + 1 ELSE events

(***************************************************************************)
(* The store's scripts.                                                    *)
(***************************************************************************)
\* Entries whose stamped lifetime is over, or too short for a borrower.
Expired == {i \in idle : ttl[i] = "expired"}
Short == {i \in idle : ttl[i] # "fresh"}

\* TAKE_IDLE pops entries until one lives longer than the cutoff.  With the
\* cutoff of acquire() the short ones it pops are dropped, and the live ones
\* among them are reported.  A take of None pops every entry there is.
Takes(cutoff) ==
  {[id |-> i, gone |-> D] : i \in idle \ cutoff, D \in SUBSET cutoff}
    \cup (IF idle \subseteq cutoff THEN {[id |-> None, gone |-> idle]} ELSE {})

\* TAKE_IDLE that forgets to delete the entry it returns, and as it is.
TakenFromKeeping(t) == idle \ t.gone

TakenFrom(t) == idle \ (t.gone \cup {t.id})

\* A script has popped the entries of S and its reply is lost: the call raises,
\* and nobody knows of the live ones any more.
Unheard(S) ==
  /\ Happens("outage") /\ Count(TRUE)
  /\ lost' = lost \cup (S \ Expired)

\* ACQUIRE_LOCK that refuses the owner itself, and RENEW_LOCK that accepts
\* anyone.
CanLockOnce(c) == Active /\ lock = None
CanRenewAnyone(c) == Active

\* ACQUIRE_LOCK, RENEW_LOCK and RELEASE_LOCK.
CanLock(c) == Active /\ lock \in {None, c}
CanRenew(c) == Active /\ lock = c
Released(c) == IF lock = c THEN None ELSE lock

\* PUT_IDLE without the check of the destroy state.
PutOutcomesUnfenced ==
  {"stored"} \cup (IF Happens("outage") THEN {"failed"} ELSE {})

\* PUT_IDLE is refused once the namespace is fenced.  The call may also fail
\* without reaching the store, or reach it and lose its reply.
PutOutcomes ==
  (IF Active THEN {"stored"} ELSE {"fenced"})
    \cup (IF Happens("outage") THEN {"failed"} ELSE {})
    \cup (IF Happens("reply") /\ Active THEN {"unknown"} ELSE {})

\* A kill is best effort: when it fails the id is forgotten, and the sandbox
\* runs until its time on the server is over.
Killed(S) == [i \in Sandboxes |-> IF i \in S /\ server[i] = "alive" THEN "dead"
                                  ELSE server[i]]
KillResults == IF Happens("kill") THEN BOOLEAN ELSE {TRUE}
Kill(S, ok) == /\ server' = IF ok THEN Killed(S) ELSE server
               /\ lost' = IF ok THEN lost ELSE lost \cup S

\* A kill through the pool's own lifecycle client, which does nothing once
\* the client is closed.
PoolKill(c, S, ok) == Kill(S, ok /\ Open(c))

(***************************************************************************)
(* start() and shutdown().  _lifecycle_lock is held from the first step of *)
(* a shutdown until it starts to drain, and for all of start().            *)
(***************************************************************************)
LifecycleFree(c) == stopping[c].pc \in {"none", "drain"}

\* start() runs the scheduler, or ends STOPPED when the namespace is fenced or
\* the store raises.
Start(c) ==
  LET again == life[c] # "NOT_STARTED" IN
  /\ life[c] # "RUNNING" /\ LifecycleFree(c)
  /\ again => Happens("restart")
  /\ \/ /\ Active
        /\ life' = [life EXCEPT ![c] = "RUNNING"]
        /\ maxIdle' = MaxIdle
        /\ Count(again)
        /\ UNCHANGED lock
     \/ /\ ~Active \/ (~again /\ Happens("outage"))
        /\ kills[c] = {} /\ warm[c] = {}
        /\ life' = [life EXCEPT ![c] = "STOPPED"]
        /\ lock' = Released(c)
        /\ Count(again \/ Active)
        /\ UNCHANGED maxIdle
  /\ UNCHANGED <<idle, ttl, fence, serverVars, stopping, tickVars, kills, call,
                 drainer, lost>>

\* The tasks _stop_reconcile finds in _warmup_tasks: background kills and
\* warm-ups.  None stands for the warm-ups that have no sandbox yet.
Tasks(c) == kills[c] \cup warm[c]
              \cup (IF tick[c].pc = "build" /\ tick[c].left > 0 THEN {None} ELSE {})
Awaited(c) == IF None \in stopping[c].waits /\ tick[c].pc = "build"
              THEN Tasks(c) ELSE Tasks(c) \cap stopping[c].waits

Shutdown(c) ==
  /\ Happens("shutdown")
  /\ life[c] # "STOPPED" /\ stopping[c].pc = "none"
  /\ life' = [life EXCEPT ![c] = "DRAINING"]
  /\ stopping' = [stopping EXCEPT ![c] = [pc |-> "join", waits |-> Tasks(c)]]
  /\ Count(TRUE)
  /\ UNCHANGED <<storeVars, serverVars, tickVars, kills, call, drainer, lost>>

\* shutdown(graceful=False) leaves the pool RUNNING until the tick is over.
ShutdownNow(c) ==
  /\ Happens("halt")
  /\ life[c] # "STOPPED" /\ stopping[c].pc = "none"
  /\ stopping' = [stopping EXCEPT ![c] = [pc |-> "halt", waits |-> {}]]
  /\ Count(TRUE)
  /\ UNCHANGED <<storeVars, serverVars, life, tickVars, kills, call, drainer,
                 lost>>

\* The scheduler task is over, or is cancelled after five seconds: its
\* warm-ups kill what they built, and what it held besides is forgotten.
HaltTick(c) ==
  /\ stopping[c].pc = "halt"
  /\ tick[c].pc # "off" => Happens("timeout")
  /\ Count(tick[c].pc # "off")
  /\ stopping' = [stopping EXCEPT ![c] = [pc |-> "close", waits |-> kills[c]]]
  /\ server' = Killed(warm[c])
  /\ lost' = lost \cup made[c] \cup purge[c]
  /\ tick' = [tick EXCEPT ![c] = TickOff]
  /\ warm' = [warm EXCEPT ![c] = {}]
  /\ made' = [made EXCEPT ![c] = {}]
  /\ purge' = [purge EXCEPT ![c] = {}]
  /\ UNCHANGED <<storeVars, borrowed, life, kills, call, drainer>>

\* The end of _stop_reconcile: the tasks are over, or are cancelled.  A
\* cancelled warm-up kills its sandbox, a cancelled kill just ends.
Join(c) ==
  /\ stopping[c].pc \in {"join", "close"}
  /\ Awaited(c) # {} => Happens("timeout")
  /\ Count(Awaited(c) # {})
  /\ lock' = Released(c)
  /\ \/ /\ stopping[c].pc = "join"
        /\ stopping' = [stopping EXCEPT ![c] = [pc |-> "drain", waits |-> {}]]
        /\ UNCHANGED life
     \/ /\ stopping[c].pc = "close"
        /\ stopping' = [stopping EXCEPT ![c] = NotStopping]
        /\ life' = [life EXCEPT ![c] = "STOPPED"]
  /\ server' = Killed(warm[c] \cap Awaited(c))
  /\ lost' = lost \cup (kills[c] \cap Awaited(c))
  /\ kills' = [kills EXCEPT ![c] = @ \ Awaited(c)]
  /\ warm' = [warm EXCEPT ![c] = @ \ Awaited(c)]
  /\ IF None \in Awaited(c) THEN TickAt(c, "build", tick[c].target, 0) ELSE UNCHANGED tick
  /\ UNCHANGED <<idle, ttl, maxIdle, fence, borrowed, made, purge, call, drainer>>

\* _await_in_flight_drain has seen no operation, or has timed out.
Drained(c) ==
  /\ stopping[c].pc = "drain"
  /\ InFlight(c) => Happens("timeout")
  /\ Count(InFlight(c))
  /\ stopping' = [stopping EXCEPT ![c] = NotStopping]
  /\ life' = [life EXCEPT ![c] = "STOPPED"]
  /\ UNCHANGED <<storeVars, serverVars, tickVars, kills, call, drainer, lost>>

\* A task of _schedule_kill_discarded_alive.
BackgroundKill(c, i) ==
  /\ i \in kills[c]
  /\ kills' = [kills EXCEPT ![c] = @ \ {i}]
  /\ \E ok \in KillResults : PoolKill(c, {i}, ok) /\ Count(~ok)
  /\ UNCHANGED <<storeVars, borrowed, life, stopping, tickVars, call, drainer>>

(***************************************************************************)
(* The reconcile tick.                                                     *)
(***************************************************************************)
GoTo(c, pc) == TickAt(c, pc, tick[c].target, tick[c].left)
TickEnds(c) == tick' = [tick EXCEPT ![c] = TickOff]

TickStart(c) ==
  /\ life[c] = "RUNNING" /\ LifecycleFree(c) /\ tick[c].pc = "off"
  /\ GoTo(c, "check")
  /\ UNCHANGED <<storeVars, serverVars, life, stopping, warm, made, purge, kills,
                 call, drainer, events, lost>>

\* The destroy state and the target are read, in this order.
TickCheck(c) ==
  /\ tick[c].pc = "check"
  /\ \/ ~Active /\ GoTo(c, "stop")
     \/ /\ Active
        /\ TickAt(c, "lock", IF maxIdle = None THEN MaxIdle ELSE maxIdle, tick[c].left)
  /\ UNCHANGED <<storeVars, serverVars, life, stopping, warm, made, purge, kills,
                 call, drainer, events, lost>>

\* _stop_after_pool_namespace_destroyed.
TickStop(c) ==
  LET stale == IF life[c] = "STOPPED" THEN {} ELSE kills[c] IN
  /\ tick[c].pc = "stop" /\ LifecycleFree(c)
  /\ stale # {} => Happens("timeout")
  /\ Count(stale # {})
  /\ life' = [life EXCEPT ![c] = "STOPPED"]
  /\ lock' = IF life[c] = "STOPPED" THEN lock ELSE Released(c)
  /\ lost' = lost \cup stale
  /\ kills' = [kills EXCEPT ![c] = @ \ stale]
  /\ TickEnds(c)
  /\ UNCHANGED <<idle, ttl, maxIdle, fence, serverVars, stopping, warm, made, purge,
                 call, drainer>>

TickLock(c) ==
  /\ tick[c].pc = "lock"
  /\ \/ CanLock(c) /\ lock' = c /\ GoTo(c, "reap")
     \/ ~CanLock(c) /\ UNCHANGED lock /\ TickEnds(c)
  /\ UNCHANGED <<idle, ttl, maxIdle, fence, serverVars, life, stopping, warm, made,
                 purge, kills, call, drainer, events, lost>>

\* REAP_EXPIRED drops the short entries and reports the live ones.
TickReap(c) ==
  /\ tick[c].pc = "reap"
  /\ idle' = idle \ Short
  /\ \/ /\ purge' = [purge EXCEPT ![c] = Short \ Expired]
        /\ GoTo(c, "count")
        /\ UNCHANGED <<events, lost>>
     \/ Unheard(Short) /\ TickEnds(c) /\ UNCHANGED purge
  /\ UNCHANGED <<ttl, lock, maxIdle, fence, serverVars, life, stopping, warm, made,
                 kills, call, drainer>>

\* One id the tick drops is removed from the store, if it is there, and
\* killed.  Reaped and surplus ids are not in the store any more.
TickDiscard(c, i) ==
  /\ i \in purge[c]
  /\ idle' = idle \ {i}
  /\ purge' = [purge EXCEPT ![c] = @ \ {i}]
  /\ \E ok \in KillResults : PoolKill(c, {i}, ok) /\ Count(~ok)
  /\ IF tick[c].pc = "drop" /\ purge[c] = {i} THEN TickEnds(c) ELSE UNCHANGED tick
  /\ UNCHANGED <<ttl, lock, maxIdle, fence, borrowed, life, stopping, warm, made,
                 kills, call, drainer>>

\* Too many entries, or nothing to create (enough entries, backing off, or
\* the lock is lost), or a deficit to fill.  A back-off is an event: it ends
\* after a while, whatever started it.
TickCount(c) ==
  LET n == Cardinality(idle)
      target == tick[c].target IN
  /\ tick[c].pc = "count" /\ purge[c] = {}
  /\ \/ /\ n > target
        /\ TickAt(c, "shrink", target, Least(n - target, WarmupConcurrency))
        /\ UNCHANGED events
     \/ /\ n = target \/ (n < target /\ (~CanRenew(c) \/ Happens("backoff")))
        /\ TickEnds(c)
        /\ Count(n < target /\ CanRenew(c))
     \/ /\ n < target /\ CanRenew(c)
        /\ TickAt(c, "build", target, Least(target - n, WarmupConcurrency))
        /\ UNCHANGED events
  /\ UNCHANGED <<storeVars, serverVars, life, stopping, warm, made, purge, kills,
                 call, drainer, lost>>

\* The lock is renewed before each removal.
TickShrink(c) ==
  /\ tick[c].pc = "shrink" /\ purge[c] = {}
  /\ \/ (tick[c].left = 0 \/ ~CanRenew(c)) /\ TickEnds(c)
     \/ tick[c].left > 0 /\ CanRenew(c) /\ GoTo(c, "pop")
  /\ UNCHANGED <<storeVars, serverVars, life, stopping, warm, made, purge, kills,
                 call, drainer, events, lost>>

TickPop(c) ==
  /\ tick[c].pc = "pop"
  /\ \E t \in Takes(Expired) :
       /\ idle' = TakenFrom(t)
       /\ \/ t.id = None /\ TickEnds(c) /\ UNCHANGED <<purge, events, lost>>
          \/ /\ t.id # None
             /\ purge' = [purge EXCEPT ![c] = {t.id}]
             /\ TickAt(c, "shrink", tick[c].target, tick[c].left - 1)
             /\ UNCHANGED <<events, lost>>
          \/ Unheard(idle \ TakenFrom(t)) /\ TickEnds(c) /\ UNCHANGED purge
  /\ UNCHANGED <<ttl, lock, maxIdle, fence, serverVars, life, stopping, warm, made,
                 kills, call, drainer>>

\* No sandbox is created: the namespace is fenced, or the server refuses.
CreationFails ==
  /\ ~Active \/ Unborn = {} \/ Happens("create")
  /\ Count(Active /\ Unborn # {})

\* The server creates a sandbox and its answer is lost: nobody learns the id.
CreatedUnheard ==
  /\ Happens("create") /\ Count(TRUE)
  /\ \E i \in Unborn : /\ server' = [server EXCEPT ![i] = "alive"]
                       /\ lost' = lost \cup {i}

\* _create_one_sandbox gets a sandbox from the server, or does not.
WarmBuild(c) ==
  /\ tick[c].pc = "build" /\ tick[c].left > 0
  /\ TickAt(c, "build", tick[c].target, tick[c].left - 1)
  /\ \/ /\ Active
        /\ \E i \in Unborn : /\ server' = [server EXCEPT ![i] = "alive"]
                             /\ warm' = [warm EXCEPT ![c] = @ \cup {i}]
        /\ UNCHANGED <<events, lost>>
     \/ CreationFails /\ UNCHANGED <<server, warm, lost>>
     \/ Active /\ CreatedUnheard /\ UNCHANGED warm
  /\ UNCHANGED <<storeVars, borrowed, life, stopping, made, purge, kills, call, drainer>>

\* The rest of it: the pool may have stopped, the renewal may fail, the
\* namespace may be fenced; then the new sandbox is killed.
WarmFinish(c, i) ==
  LET fit == life[c] = "RUNNING" /\ Active /\ server[i] = "alive" IN
  /\ i \in warm[c]
  /\ warm' = [warm EXCEPT ![c] = @ \ {i}]
  /\ \/ /\ fit
        /\ made' = [made EXCEPT ![c] = @ \cup {i}]
        /\ UNCHANGED <<server, lost, events>>
     \/ /\ fit => Happens("renew")
        /\ \E ok \in KillResults : Kill({i}, ok) /\ Count(fit \/ ~ok)
        /\ UNCHANGED made
  /\ UNCHANGED <<storeVars, borrowed, life, stopping, tick, purge, kills, call, drainer>>

\* The cleanup of the dropped sandboxes is forgotten.
LockLostLeaking(c) == /\ TickEnds(c)
                      /\ made' = [made EXCEPT ![c] = {}]
                      /\ UNCHANGED purge

\* The gather is over; the lock is renewed before each put.  When it is lost
\* the sandboxes that are left are dropped.
LockLost(c) == /\ GoTo(c, "drop")
               /\ purge' = [purge EXCEPT ![c] = made[c]]
               /\ made' = [made EXCEPT ![c] = {}]

TickRenew(c) ==
  /\ tick[c].pc = "build" /\ tick[c].left = 0 /\ warm[c] = {}
  /\ \/ made[c] = {} /\ TickEnds(c) /\ UNCHANGED <<made, purge>>
     \/ made[c] # {} /\ CanRenew(c) /\ GoTo(c, "put") /\ UNCHANGED <<made, purge>>
     \/ made[c] # {} /\ ~CanRenew(c) /\ LockLost(c)
  /\ UNCHANGED <<storeVars, serverVars, life, stopping, warm, kills, call, drainer,
                 events, lost>>

TickPut(c) ==
  /\ tick[c].pc = "put"
  /\ \E i \in made[c], r \in PutOutcomes :
       /\ idle' = IF r \in {"stored", "unknown"} THEN idle \cup {i} ELSE idle
       /\ ttl' = IF r \in {"stored", "unknown"} THEN [ttl EXCEPT ![i] = "fresh"]
                                                ELSE ttl
       /\ Count(r \in {"failed", "unknown"})
       /\ \/ /\ r = "stored"
             /\ made' = [made EXCEPT ![c] = @ \ {i}]
             /\ GoTo(c, "build")
             /\ UNCHANGED purge
          \/ r # "stored" /\ LockLost(c)
  /\ UNCHANGED <<lock, maxIdle, fence, serverVars, life, stopping, warm, kills, call,
                 drainer, lost>>

\* Any other call to the store raises, before its script has run: the tick
\* ends, and the sandboxes it has made and not put are forgotten.
TickRaises(c) ==
  /\ Happens("outage") /\ purge[c] = {}
  /\ \/ tick[c].pc \in {"check", "lock", "reap", "count", "shrink", "pop"}
     \/ tick[c].pc = "build" /\ tick[c].left = 0 /\ warm[c] = {}
  /\ TickEnds(c)
  /\ lost' = lost \cup made[c]
  /\ made' = [made EXCEPT ![c] = {}]
  /\ Count(TRUE)
  /\ UNCHANGED <<storeVars, serverVars, life, stopping, warm, purge, kills, call, drainer>>

(***************************************************************************)
(* acquire().                                                              *)
(***************************************************************************)
CallAt(a, pc, id, tries, doomed) ==
  call' = [call EXCEPT ![a] = [pc |-> pc, at |-> call[a].at, id |-> id, tries |-> tries,
                               doomed |-> doomed]]
CallGoesOn(a, pc) == CallAt(a, pc, call[a].id, call[a].tries, call[a].doomed)
Return(a) == call' = [call EXCEPT ![a] = CallOut]
ScheduleKill(c, S) == kills' = [kills EXCEPT ![c] = @ \cup S]

AcquireBegin(a, c) ==
  /\ call[a].pc = "out" /\ life[c] = "RUNNING"
  /\ call' = [call EXCEPT ![a] = [pc |-> "check", at |-> c, id |-> None, tries |-> 0,
                                  doomed |-> {}]]
  /\ UNCHANGED <<storeVars, serverVars, life, stopping, tickVars, kills, drainer,
                 events, lost>>

\* _ensure_pool_namespace_active_for_acquire: an outage counts as ACTIVE when
\* the policy falls through to a direct create.
AcquireCheck(a) ==
  /\ call[a].pc = "check"
  /\ \/ ~Active /\ Return(a) /\ UNCHANGED events
     \/ Active /\ CallGoesOn(a, "take") /\ UNCHANGED events
     \/ /\ Happens("outage") /\ Count(TRUE)
        /\ IF FallsThrough THEN CallGoesOn(a, "take") ELSE Return(a)
  /\ UNCHANGED <<storeVars, serverVars, life, stopping, tickVars, kills, drainer, lost>>

\* No candidate is left: the ones too short are killed in the background, and
\* the policy decides between a direct create and an error.
GiveUp(a, doomed) ==
  /\ ScheduleKill(call[a].at, doomed)
  /\ IF FallsThrough THEN CallAt(a, "create", None, 0, {}) ELSE Return(a)

\* A take that raises counts as one that found nothing.
AcquireTake(a) ==
  /\ call[a].pc = "take"
  /\ \/ \E t \in Takes(Short) :
          LET doomed == call[a].doomed \cup (t.gone \ Expired) IN
          /\ idle' = TakenFrom(t)
          /\ \/ t.id = None /\ GiveUp(a, doomed) /\ UNCHANGED <<events, lost>>
             \/ /\ t.id # None
                /\ CallAt(a, "connect", t.id, call[a].tries + 1, doomed)
                /\ UNCHANGED <<kills, events, lost>>
             \/ Unheard(idle \ TakenFrom(t)) /\ GiveUp(a, call[a].doomed)
     \/ /\ Happens("outage") /\ Count(TRUE) /\ GiveUp(a, call[a].doomed)
        /\ UNCHANGED <<idle, lost>>
  /\ UNCHANGED <<ttl, lock, maxIdle, fence, serverVars, life, stopping, tickVars,
                 drainer>>

\* The retry budget, off by one and as it is.
MayRetryOnceMore(a) == call[a].tries <= MaxAcquireRetries

MayRetry(a) == call[a].tries < MaxAcquireRetries

\* The candidate answers, or does not.
AcquireConnect(a) ==
  LET alive == server[call[a].id] = "alive" IN
  /\ call[a].pc = "connect"
  /\ \/ alive /\ CallGoesOn(a, "fence") /\ UNCHANGED events
     \/ /\ alive => Happens("unready")
        /\ Count(alive)
        /\ CallGoesOn(a, "stale")
  /\ UNCHANGED <<storeVars, serverVars, life, stopping, tickVars, kills, drainer, lost>>

\* A candidate that does not answer is removed and killed in the background,
\* and the next one is tried, unless the pool has stopped, the namespace is
\* fenced, or the store raises: at the removal, or at the look at the fence.
AcquireStale(a) ==
  LET c == call[a].at
      i == call[a].id
      doomed == call[a].doomed IN
  /\ call[a].pc = "stale"
  /\ \/ /\ Happens("outage") /\ Count(TRUE)
        /\ Return(a)
        /\ lost' = lost \cup {i} \cup doomed
        /\ UNCHANGED <<idle, kills>>
     \/ /\ ~Active \/ (life[c] = "RUNNING" /\ Happens("outage"))
        /\ Count(Active)
        /\ ScheduleKill(c, {i}) /\ Return(a)
        /\ lost' = lost \cup doomed
        /\ idle' = idle \ {i}
     \/ /\ Active /\ life[c] # "RUNNING"
        /\ ScheduleKill(c, {i} \cup doomed) /\ Return(a)
        /\ idle' = idle \ {i}
        /\ UNCHANGED <<lost, events>>
     \/ /\ Active /\ life[c] = "RUNNING" /\ MayRetry(a)
        /\ ScheduleKill(c, {i})
        /\ CallAt(a, "take", None, call[a].tries, doomed)
        /\ idle' = idle \ {i}
        /\ UNCHANGED <<lost, events>>
     \/ /\ Active /\ life[c] = "RUNNING" /\ ~MayRetry(a)
        /\ GiveUp(a, {i} \cup doomed)
        /\ idle' = idle \ {i}
        /\ UNCHANGED <<lost, events>>
  /\ UNCHANGED <<ttl, lock, maxIdle, fence, serverVars, life, stopping, tickVars, drainer>>

\* _direct_create, which takes an outage of the store for ACTIVE.
AcquireCreate(a) ==
  /\ call[a].pc = "create"
  /\ \/ /\ Active \/ Happens("outage")
        /\ Count(~Active)
        /\ \E i \in Unborn : /\ server' = [server EXCEPT ![i] = "alive"]
                             /\ CallAt(a, "created", i, call[a].tries, call[a].doomed)
        /\ UNCHANGED lost
     \/ CreationFails /\ Return(a) /\ UNCHANGED <<server, lost>>
     \/ (Active \/ Happens("outage")) /\ CreatedUnheard /\ Return(a)
  /\ UNCHANGED <<storeVars, borrowed, life, stopping, tickVars, kills, drainer>>

\* The renewal and the last look at the destroy state: the sandbox is handed
\* out or killed.
AcquireReturn(a) ==
  LET i == call[a].id IN
  /\ call[a].pc \in {"fence", "created"}
  /\ ScheduleKill(call[a].at, call[a].doomed)
  /\ Return(a)
  /\ \/ /\ Active
        /\ borrowed' = borrowed \cup {i}
        /\ UNCHANGED <<server, lost, events>>
     \/ /\ Happens("outage") /\ call[a].pc = "created" /\ FallsThrough
        /\ borrowed' = borrowed \cup {i} /\ Count(TRUE)
        /\ UNCHANGED <<server, lost>>
     \/ /\ ~Active \/ Happens("renew")
        /\ \E ok \in KillResults : Kill({i}, ok) /\ Count(Active \/ ~ok)
        /\ UNCHANGED borrowed
  /\ UNCHANGED <<storeVars, life, stopping, tickVars, drainer>>

(***************************************************************************)
(* destroy() of the pool manager and release_all_idle() of a pool.         *)
(***************************************************************************)
Destroy ==
  /\ Happens("destroy") /\ drainer.pc = "out" /\ fence # "DESTROYED"
  /\ fence' = "DESTROYING"
  /\ drainer' = [pc |-> "take", id |-> None, next |-> "clear"]
  /\ Count(TRUE)
  /\ UNCHANGED <<idle, ttl, lock, maxIdle, serverVars, life, stopping, tickVars, kills,
                 call, lost>>

ReleaseAllIdle ==
  /\ Happens("release") /\ drainer.pc = "out"
  /\ drainer' = [pc |-> "take", id |-> None, next |-> "out"]
  /\ Count(TRUE)
  /\ UNCHANGED <<storeVars, serverVars, life, stopping, tickVars, kills, call, lost>>

DrainTake ==
  /\ drainer.pc = "take"
  /\ \E t \in Takes(Expired) :
       /\ idle' = TakenFrom(t)
       /\ \/ /\ drainer' = [pc |-> IF t.id = None THEN drainer.next ELSE "kill",
                             id |-> t.id, next |-> drainer.next]
             /\ UNCHANGED <<events, lost>>
          \/ Unheard(idle \ TakenFrom(t)) /\ drainer' = DrainerOut
  /\ UNCHANGED <<ttl, lock, maxIdle, fence, serverVars, life, stopping, tickVars, kills,
                 call>>

\* After each kill destroy() looks at its deadline, and gives up when it has
\* passed, with the namespace still fenced.
DrainKill ==
  /\ drainer.pc = "kill"
  /\ \E ok \in KillResults, late \in BOOLEAN :
       /\ late => Happens("timeout") /\ drainer.next = "clear"
       /\ Kill({drainer.id}, ok) /\ Count(late \/ ~ok)
       /\ drainer' = IF late THEN DrainerOut
                     ELSE [pc |-> "take", id |-> None, next |-> drainer.next]
  /\ UNCHANGED <<storeVars, borrowed, life, stopping, tickVars, kills, call>>

ClearPoolState ==
  /\ drainer.pc = "clear"
  /\ idle' = {} /\ lock' = None /\ maxIdle' = None
  /\ drainer' = [pc |-> "mark", id |-> None, next |-> drainer.next]
  /\ UNCHANGED <<ttl, fence, serverVars, life, stopping, tickVars, kills, call, events,
                 lost>>

MarkDestroyed ==
  /\ drainer.pc = "mark"
  /\ fence' = "DESTROYED"
  /\ drainer' = DrainerOut
  /\ UNCHANGED <<idle, ttl, lock, maxIdle, serverVars, life, stopping, tickVars, kills,
                 call, events, lost>>

\* The store is away: destroy() raises, and may be called again.
DestroyRaises ==
  /\ Happens("outage") /\ drainer.pc \in {"take", "clear", "mark"}
  /\ drainer' = DrainerOut /\ Count(TRUE)
  /\ UNCHANGED <<storeVars, serverVars, life, stopping, tickVars, kills, call, lost>>

(***************************************************************************)
(* The environment.                                                        *)
(***************************************************************************)
\* Time passes for an idle entry.  Its sandbox was renewed before the entry
\* was stamped, so the server ends it no later than the entry.
Age(i) ==
  /\ Happens("age") /\ i \in idle /\ ttl[i] # "expired"
  /\ ttl' = [ttl EXCEPT ![i] = IF @ = "fresh" THEN "near" ELSE "expired"]
  /\ server' = IF ttl[i] = "near" THEN [server EXCEPT ![i] = "dead"] ELSE server
  /\ Count(TRUE)
  /\ UNCHANGED <<idle, lock, maxIdle, fence, borrowed, life, stopping, tickVars, kills,
                 call, drainer, lost>>

\* A sandbox fails by itself.
Dies(i) ==
  /\ Happens("die") /\ server[i] = "alive"
  /\ server' = [server EXCEPT ![i] = "dead"]
  /\ Count(TRUE)
  /\ UNCHANGED <<storeVars, borrowed, life, stopping, tickVars, kills, call, drainer, lost>>

\* A borrower ends its sandbox with sandbox.kill().
BorrowerKills(i) ==
  /\ i \in borrowed
  /\ borrowed' = borrowed \ {i}
  /\ server' = Killed({i})
  /\ UNCHANGED <<storeVars, life, stopping, tickVars, kills, call, drainer, events, lost>>

\* The lock runs out: its owner is gone, or was slower than the lock's time.
OwnerGone == lock # None /\ life[lock] \in {"NOT_STARTED", "STOPPED"}
LockExpires ==
  /\ lock # None
  /\ OwnerGone \/ Happens("expire")
  /\ lock' = None
  /\ Count(~OwnerGone)
  /\ UNCHANGED <<idle, ttl, maxIdle, fence, serverVars, life, stopping, tickVars, kills,
                 call, drainer, lost>>

Resize(n) ==
  /\ Happens("resize") /\ Active
  /\ maxIdle' = n
  /\ Count(TRUE)
  /\ UNCHANGED <<idle, ttl, lock, fence, serverVars, life, stopping, tickVars, kills,
                 call, drainer, lost>>

\* A process is killed: all it held is forgotten, its lock stays.
Crash(c) ==
  /\ Happens("crash") /\ life[c] # "NOT_STARTED"
  /\ life' = [life EXCEPT ![c] = "NOT_STARTED"]
  /\ stopping' = [stopping EXCEPT ![c] = NotStopping]
  /\ TickEnds(c)
  /\ warm' = [warm EXCEPT ![c] = {}]
  /\ made' = [made EXCEPT ![c] = {}]
  /\ purge' = [purge EXCEPT ![c] = {}]
  /\ kills' = [kills EXCEPT ![c] = {}]
  /\ call' = [a \in Callers |-> IF call[a].at = c THEN CallOut ELSE call[a]]
  /\ lost' = lost \cup warm[c] \cup made[c] \cup purge[c] \cup kills[c]
                  \cup {call[a].id : a \in {b \in CallersAt(c) : call[b].id # None}}
                  \cup UNION {call[a].doomed : a \in CallersAt(c)}
  /\ Count(TRUE)
  /\ UNCHANGED <<storeVars, serverVars, drainer>>

Init ==
  /\ idle = {} /\ ttl = [i \in Sandboxes |-> "fresh"]
  /\ lock = None /\ maxIdle = None /\ fence = "ACTIVE"
  /\ server = [i \in Sandboxes |-> "unborn"] /\ borrowed = {}
  /\ life = [c \in Clients |-> "NOT_STARTED"]
  /\ stopping = [c \in Clients |-> NotStopping]
  /\ tick = [c \in Clients |-> TickOff]
  /\ warm = [c \in Clients |-> {}] /\ made = [c \in Clients |-> {}]
  /\ purge = [c \in Clients |-> {}] /\ kills = [c \in Clients |-> {}]
  /\ call = [a \in Callers |-> CallOut]
  /\ drainer = DrainerOut
  /\ events = 0 /\ lost = {}

Tick(c) ==
  \/ TickStart(c) \/ TickCheck(c) \/ TickStop(c) \/ TickLock(c) \/ TickReap(c)
  \/ TickCount(c) \/ TickShrink(c) \/ TickPop(c) \/ WarmBuild(c)
  \/ TickRenew(c) \/ TickPut(c)
  \/ \E i \in Sandboxes : TickDiscard(c, i) \/ WarmFinish(c, i)

Lifecycle(c) ==
  \/ Start(c) \/ Shutdown(c) \/ ShutdownNow(c) \/ HaltTick(c) \/ Join(c) \/ Drained(c)
  \/ \E i \in Sandboxes : BackgroundKill(c, i)

Acquire(a) ==
  \/ \E c \in Clients : AcquireBegin(a, c)
  \/ AcquireCheck(a) \/ AcquireTake(a) \/ AcquireConnect(a) \/ AcquireStale(a)
  \/ AcquireCreate(a) \/ AcquireReturn(a)

Drain == \/ Destroy \/ ReleaseAllIdle \/ DrainTake \/ DrainKill \/ ClearPoolState
         \/ MarkDestroyed

Environment ==
  \/ LockExpires \/ DestroyRaises
  \/ \E i \in Sandboxes : Age(i) \/ Dies(i) \/ BorrowerKills(i)
  \/ \E n \in 0..MaxIdle : Resize(n)
  \/ \E c \in Clients : Crash(c) \/ TickRaises(c)

Next == \/ \E c \in Clients : Tick(c) \/ Lifecycle(c)
        \/ \E a \in Callers : Acquire(a)
        \/ Drain
        \/ Environment

Spec == Init /\ [][Next]_vars

\* A scheduler runs its ticks for ever, and Redis drops the lock of an owner
\* that is gone.
Fairness == /\ \A c \in Clients : WF_vars(Tick(c))
            /\ WF_vars(OwnerGone /\ LockExpires)

FairSpec == Spec /\ Fairness

(***************************************************************************)
(* Properties.                                                             *)
(***************************************************************************)
\* The shape of the state: of the store's keys, the server's view, and what
\* each coroutine holds.
TypeOK ==
  /\ idle \subseteq Sandboxes /\ ttl \in [Sandboxes -> {"fresh", "near", "expired"}]
  /\ lock \in Clients \cup {None} /\ maxIdle \in 0..MaxIdle \cup {None}
  /\ fence \in {"ACTIVE", "DESTROYING", "DESTROYED"}
  /\ server \in [Sandboxes -> {"unborn", "alive", "dead"}]
  /\ borrowed \subseteq Sandboxes /\ lost \subseteq Sandboxes
  /\ life \in [Clients -> {"NOT_STARTED", "RUNNING", "DRAINING", "STOPPED"}]
  /\ stopping \in [Clients -> [pc : {"none", "join", "drain", "halt", "close"},
                               waits : SUBSET (Sandboxes \cup {None})]]
  /\ tick \in [Clients -> [pc : {"off", "check", "stop", "lock", "reap", "count",
                                 "shrink", "pop", "build", "put", "drop"},
                           target : 0..MaxIdle, left : 0..WarmupConcurrency]]
  /\ \A f \in {warm, made, purge, kills} : f \in [Clients -> SUBSET Sandboxes]
  /\ call \in [Callers -> [pc : {"out", "check", "take", "connect", "fence", "stale", "create",
                                 "created"},
                           at : Clients \cup {None}, id : Sandboxes \cup {None},
                           tries : 0..MaxAcquireRetries, doomed : SUBSET Sandboxes]]
  /\ drainer \in [pc : {"out", "take", "kill", "clear", "mark"},
                  id : Sandboxes \cup {None}, next : {"out", "clear"}]
  /\ events \in 0..MaxEvents

\* The places that answer for a sandbox: the store, a tick, a background kill,
\* an acquire() call, the drain, or a borrower.
Places(i) ==
  {<<"idle", None>> : x \in idle \cap {i}} \cup {<<"borrower", None>> : x \in borrowed \cap {i}}
    \cup {<<"tick", c>> : c \in {d \in Clients : i \in warm[d] \cup made[d] \cup purge[d]}}
    \cup {<<"kill", c>> : c \in {d \in Clients : i \in kills[d]}}
    \cup {<<"call", a>> : a \in {b \in Callers : call[b].id = i \/ i \in call[b].doomed}}
    \cup {<<"drain", None>> : x \in {drainer.id} \cap {i}}

\* A sandbox is in one place at a time.  In particular no two acquire() calls
\* get the same one, and none that was handed out is in the idle list, taken
\* by a drain or waiting to be killed by a tick or a background task.
HeldOnce == \A i \in Sandboxes : Cardinality(Places(i)) <= 1

\* A running sandbox of the pool is always in somebody's hands, through every
\* race of ticks, lock expiry, shutdown and destroy, except for the ones that
\* one of these gave up (lost): a failed kill, a cancelled tick or task, a kill
\* after the lifecycle client was closed, a tick or a call ended by an
\* exception, a take, a reap or a create whose answer was lost, a process that
\* died.
NothingForgotten ==
  \A i \in Sandboxes : server[i] = "alive" => Places(i) # {} \/ i \in lost

\* The lock is renewed before each put, so an owner that has lost the lock
\* can add at most one sandbox behind the new owner's back: the idle list
\* exceeds max_idle by at most one for each other client.
OvershootBounded == Cardinality(idle) <= MaxIdle + Cardinality(Clients) - 1

\* Once destroy() has drained the idle list nothing enters it any more: no
\* sandbox is wiped with the keys, and the tombstone stands over an empty
\* namespace that nobody leads.
DestroyedIsEmpty ==
  /\ drainer.pc \in {"clear", "mark"} \/ fence = "DESTROYED" => idle = {}
  /\ drainer.pc = "mark" \/ fence = "DESTROYED" => lock = None /\ maxIdle = None

\* With no borrowers, and some client that keeps running, the idle list ends
\* up at the max_idle last set and stays there: after a primary has crashed
\* or lost its lock half-way, after an overshoot, after a resize that races a
\* tick, after a tick ended by an exception.
ConvergesToMaxIdle ==
  (\E c \in Clients : <>[](life[c] = "RUNNING")) => <>[](Cardinality(idle) = maxIdle)

============================================================================
