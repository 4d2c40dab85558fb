-------------------------- MODULE ClientHoldProofs ---------------------------
(***************************************************************************)
(* Who holds a sandbox of the client-side pool.                            *)
(*                                                                         *)
(* HeldOnce and NothingForgotten speak of sets of places, which an action  *)
(* may change in many ways.  The proofs look at one sandbox at a time: a   *)
(* step leaves it where it is, moves it, drops it dead or on purpose, or   *)
(* creates it (Fate).  Each action is shown to give every sandbox one of   *)
(* these fates, and the fates keep PoolInv: a live sandbox is somewhere or *)
(* was given up, an id the server has not given out is nowhere, and, as    *)
(* long as no put loses its reply, a sandbox is in one place only.         *)
(***************************************************************************)
EXTENDS ClientTypeProofs

\* The sandboxes that a tick and an acquire() call have in their variables
InTick(i, c) == i \in warm[c] \cup made[c] \cup purge[c]
InCall(i, a) == call[a].id = i \/ i \in call[a].doomed

\* Some place answers for i, and no place but the one of kind k and owner x
Somewhere(i) ==
  \/ i \in idle \/ i \in borrowed \/ drainer.id = i
  \/ \E c \in Clients : InTick(i, c) \/ i \in kills[c]
  \/ \E a \in Callers : InCall(i, a)
Only(i, k, x) ==
  /\ i \in idle => k = "idle"
  /\ i \in borrowed => k = "borrower"
  /\ drainer.id = i => k = "drain"
  /\ \A c \in Clients : InTick(i, c) => k = "tick" /\ x = c
  /\ \A c \in Clients : i \in kills[c] => k = "kill" /\ x = c
  /\ \A a \in Callers : InCall(i, a) => k = "call" /\ x = a
Alone(i) == \E k, x : Only(i, k, x)

\* Without lost replies a sandbox is in one place, and the candidate of a call
\* is not one of those the call is to kill
Sole == "reply" \notin Env =>
          /\ \A i \in Sandboxes : Alone(i)
          /\ \A a \in Callers : call[a].id \notin call[a].doomed

\* The server gives out ids that nobody holds, a live sandbox is somewhere,
\* and the sandbox of an expired entry is over
Known ==
  /\ \A i \in Sandboxes : server[i] = "unborn" => ~Somewhere(i)
  /\ \A i \in Sandboxes : server[i] = "alive" => Somewhere(i) \/ i \in lost
  /\ \A i \in idle : ttl[i] = "expired" => server[i] # "alive"

\* The inductive invariant
PoolInv == TypeInv /\ DestroyedIsEmpty /\ Sole /\ Known

\* What a step may do to a sandbox: it stays where it is, it moves, it is
\* dropped dead or on purpose, or it is created
Stays(i) ==
  /\ i \in idle' <=> i \in idle
  /\ i \in borrowed' <=> i \in borrowed
  /\ drainer'.id = i <=> drainer.id = i
  /\ \A c \in Clients : (InTick(i, c)' <=> InTick(i, c)) /\ (i \in kills'[c] <=> i \in kills[c])
  /\ \A a \in Callers : InCall(i, a)' <=> InCall(i, a)
Shrinks(i) ==
  /\ i \in idle' => i \in idle
  /\ i \in borrowed' => i \in borrowed
  /\ drainer'.id = i => drainer.id = i
  /\ \A c \in Clients : (InTick(i, c)' => InTick(i, c)) /\ (i \in kills'[c] => i \in kills[c])
  /\ \A a \in Callers : InCall(i, a)' => InCall(i, a)
Moves(i) == Somewhere(i) /\ Somewhere(i)' /\ ("reply" \notin Env => Alone(i)')
Drops(i) == Shrinks(i) /\ (server'[i] # "alive" \/ i \in lost')
Appears(i) == /\ server[i] = "unborn" /\ server'[i] = "alive"
              /\ (Somewhere(i)' \/ i \in lost') /\ Alone(i)'
Ages(i) == server'[i] = server[i] \/ (server[i] = "alive" /\ server'[i] = "dead")
Fate(i) == /\ i \in lost => i \in lost'
           /\ (Ages(i) /\ (Stays(i) \/ Moves(i) \/ Drops(i))) \/ Appears(i)

\* The two forms of "in one place at a time"
LEMMA AloneHeld ==
  ASSUME TypeInv, NEW i \in Sandboxes, Alone(i)
  PROVE  Cardinality(Places(i)) <= 1
  <1>1. PICK k, x : Only(i, k, x)
    BY Zenon DEF Alone
  <1>2. \A p, q \in Places(i) : p = q
    BY <1>1 DEF Only, Places, InTick, InCall
  <1>3. CASE Places(i) = {}
    BY <1>3, FS_EmptySet
  <1>4. CASE Places(i) # {}
    <2>1. PICK p : Places(i) = {p}
      BY <1>2, <1>4, Zenon
    <2>2. Cardinality({p}) = 1
      BY FS_Singleton, Zenon
    <2> QED
      BY <2>1, <2>2
  <1> QED
    BY <1>3, <1>4, Zenon

\* The two forms of "somewhere"
LEMMA SomewherePlaces ==
  ASSUME NEW i \in Sandboxes, Somewhere(i)
  PROVE  Places(i) # {}
  BY Zenon DEF Somewhere, Places, InTick, InCall

\* The fates of all sandboxes keep what is known of them
LEMMA FatesKeep ==
  ASSUME PoolInv, \A i \in Sandboxes : Fate(i)
  PROVE  /\ "reply" \notin Env => \A i \in Sandboxes : Alone(i)'
         /\ \A i \in Sandboxes : server'[i] = "unborn" => ~Somewhere(i)'
         /\ \A i \in Sandboxes : server'[i] = "alive" => Somewhere(i)' \/ i \in lost'
  <1>1. ASSUME NEW i \in Sandboxes, "reply" \notin Env PROVE Alone(i)'
    <2>1. CASE Appears(i) \/ Moves(i)
      BY <1>1, <2>1, Zenon DEF Appears, Moves
    <2>2. CASE Stays(i) \/ Drops(i)
      <3>1. PICK k, x : Only(i, k, x)
        BY <1>1, Zenon DEF PoolInv, Sole, Alone
      <3>2. Only(i, k, x)'
        BY <2>2, <3>1, Zenon DEF Only, Stays, Drops, Shrinks
      <3> QED
        BY <3>2, Zenon DEF Alone
    <2> QED
      BY <2>1, <2>2, Zenon DEF Fate
  <1>2. ASSUME NEW i \in Sandboxes, server'[i] = "unborn" PROVE ~Somewhere(i)'
    <2>1. server[i] = "unborn" /\ ~Appears(i)
      BY <1>2, Zenon DEF Fate, Ages, Appears
    <2>2. ~Somewhere(i)
      BY <2>1, Zenon DEF PoolInv, Known
    <2> QED
      BY <2>1, <2>2, Zenon DEF Fate, Stays, Moves, Drops, Shrinks, Somewhere
  <1>3. ASSUME NEW i \in Sandboxes, server'[i] = "alive" PROVE Somewhere(i)' \/ i \in lost'
    <2>1. CASE Appears(i) \/ Moves(i) \/ Drops(i)
      BY <1>3, <2>1, Zenon DEF Appears, Moves, Drops
    <2>2. CASE Ages(i) /\ Stays(i)
      <3>1. Somewhere(i) \/ i \in lost
        BY <1>3, <2>2, Zenon DEF PoolInv, Known, Ages
      <3>2. Somewhere(i) => Somewhere(i)'
        BY <2>2, Zenon DEF Stays, Somewhere
      <3> QED
        BY <3>1, <3>2, Zenon DEF Fate
    <2> QED
      BY <2>1, <2>2, Zenon DEF Fate
  <1> QED
    BY <1>1, <1>2, <1>3, Zenon

\* Steps that leave every sandbox where it is
Quiet ==
  /\ UNCHANGED <<idle, borrowed, warm, made, purge, kills>>
  /\ drainer'.id = drainer.id
  /\ \A a \in Callers : call'[a].id = call[a].id /\ call'[a].doomed = call[a].doomed

\* Such a step changes no sandbox's place
LEMMA QuietFates ==
  ASSUME Quiet, lost \subseteq lost', NEW i \in Sandboxes, Ages(i)
  PROVE  Fate(i)
  <1>1. Stays(i)
    BY Zenon DEF Quiet, Stays, InTick, InCall
  <1> QED
    BY <1>1, Zenon DEF Fate

\* start(), the first steps of a shutdown, and the tick until it takes something
LEMMA QuietClientFates ==
  ASSUME PoolInv, NEW c \in Clients,
         \/ Start(c) \/ Shutdown(c) \/ ShutdownNow(c) \/ Drained(c) \/ TickStart(c)
         \/ TickCheck(c) \/ TickLock(c) \/ TickCount(c) \/ TickShrink(c)
  PROVE  \A i \in Sandboxes : Fate(i)
  <1>1. UNCHANGED <<idle, borrowed, server, warm, made, purge, kills, drainer, call, lost>>
    BY Zenon DEF Start, Shutdown, ShutdownNow, Drained, TickStart, TickCheck, TickLock, TickCount,
           TickShrink, storeVars, serverVars, tickVars
  <1>2. Quiet /\ lost \subseteq lost' /\ \A i \in Sandboxes : Ages(i)
    BY <1>1, Zenon DEF Quiet, Ages
  <1> QED
    BY <1>2, QuietFates, Zenon

\* The steps of acquire() that take and give nothing
LEMMA QuietCallFates ==
  ASSUME PoolInv, NEW a \in Callers,
         (\E c \in Clients : AcquireBegin(a, c)) \/ AcquireCheck(a) \/ AcquireConnect(a)
  PROVE  \A i \in Sandboxes : Fate(i)
  <1>1. UNCHANGED <<idle, borrowed, server, warm, made, purge, kills, drainer, lost>>
    BY Zenon DEF AcquireBegin, AcquireCheck, AcquireConnect, storeVars, serverVars, tickVars
  <1>2. CallShape(call[a]) /\ call \in [Callers -> CallRecord]
    BY Zenon DEF PoolInv, TypeInv, CallT
  <1>3. call'[a].id = call[a].id /\ call'[a].doomed = call[a].doomed
    <2>1. CASE \E c \in Clients : AcquireBegin(a, c)
      BY <1>2, <2>1 DEF AcquireBegin, CallShape
    <2>2. CASE AcquireCheck(a) \/ AcquireConnect(a)
      BY <1>2, <2>2 DEF AcquireCheck, AcquireConnect, CallGoesOn, CallAt, Return, CallOut, CallShape,
                        Count
    <2> QED
      BY <2>1, <2>2, Zenon
  <1>4. \A b \in Callers : b # a => call'[b] = call[b]
    BY <1>2, Zenon DEF AcquireBegin, AcquireCheck, AcquireConnect, CallGoesOn, CallAt, Return, Count
  <1>5. Quiet /\ lost \subseteq lost' /\ \A i \in Sandboxes : Ages(i)
    BY <1>1, <1>3, <1>4, Zenon DEF Quiet, Ages
  <1> QED
    BY <1>5, QuietFates, Zenon

\* The steps of a drain between its takes and kills.  The keys it deletes have
\* no entry in them
LEMMA QuietDrainFates ==
  ASSUME PoolInv,
         Destroy \/ ReleaseAllIdle \/ ClearPoolState \/ MarkDestroyed \/ DestroyRaises
  PROVE  \A i \in Sandboxes : Fate(i)
  <1>1. UNCHANGED <<borrowed, server, warm, made, purge, kills, call, lost>>
    BY Zenon DEF Destroy, ReleaseAllIdle, ClearPoolState, MarkDestroyed, DestroyRaises, serverVars, tickVars
  <1>2. UNCHANGED idle
    BY Zenon DEF Destroy, ReleaseAllIdle, ClearPoolState, MarkDestroyed, DestroyRaises, storeVars,
           PoolInv, DestroyedIsEmpty, Count
  <1>3. drainer.id = None /\ drainer'.id = None
    BY DEF Destroy, ReleaseAllIdle, ClearPoolState, MarkDestroyed, DestroyRaises, DrainerOut,
           PoolInv, TypeInv, DrainT, Count
  <1>4. Quiet /\ lost \subseteq lost' /\ \A i \in Sandboxes : Ages(i)
    BY <1>1, <1>2, <1>3, Zenon DEF Quiet, Ages
  <1> QED
    BY <1>4, QuietFates, Zenon

\* Time, failures and operators
LEMMA QuietEnvironmentFates ==
  ASSUME PoolInv,
         \/ LockExpires \/ UNCHANGED vars
         \/ \E i \in Sandboxes : Age(i) \/ Dies(i)
         \/ \E n \in 0..MaxIdle : Resize(n)
  PROVE  \A i \in Sandboxes : Fate(i)
  <1>1. UNCHANGED <<idle, borrowed, warm, made, purge, kills, call, drainer, lost>>
    BY Zenon DEF LockExpires, Age, Dies, Resize, storeVars, serverVars, tickVars, vars
  <1>2. ASSUME NEW j \in Sandboxes PROVE Ages(j)
    <2>1. CASE LockExpires \/ UNCHANGED vars \/ \E n \in 0..MaxIdle : Resize(n)
      BY <2>1, Zenon DEF LockExpires, Resize, serverVars, vars, Ages
    <2>2. ASSUME NEW i \in Sandboxes, Dies(i) PROVE Ages(j)
      BY <2>2, Zenon DEF Dies, Ages, PoolInv, TypeInv, ServerT
    <2>3. ASSUME NEW i \in Sandboxes, Age(i) PROVE Ages(j)
      <3>1. server[i] # "unborn"
        BY <2>3, Zenon DEF Age, PoolInv, Known, Somewhere
      <3> QED
        BY <2>3, <3>1, Zenon DEF Age, Ages, PoolInv, TypeInv, ServerT
    <2> QED
      BY <2>1, <2>2, <2>3, Zenon
  <1>3. Quiet /\ lost \subseteq lost'
    BY <1>1, Zenon DEF Quiet
  <1> QED
    BY <1>2, <1>3, QuietFates, Zenon

\* A kill ends its sandboxes, or gives them up
LEMMA KilledAges ==
  ASSUME ServerT, NEW S, server' = Killed(S), NEW i \in Sandboxes
  PROVE  Ages(i) /\ (i \in S => server'[i] # "alive")
  BY Zenon DEF ServerT, Killed, Ages

\* A best-effort kill ends a sandbox or leaves it in lost
LEMMA KillAges ==
  ASSUME ServerT, NEW S, NEW ok \in BOOLEAN, Kill(S, ok), NEW i \in Sandboxes
  PROVE  /\ Ages(i) /\ (i \in lost => i \in lost')
         /\ i \in S => server'[i] # "alive" \/ i \in lost'
  <1>1. CASE ok
    BY <1>1, KilledAges, Zenon DEF Kill
  <1>2. CASE ~ok
    BY <1>2, Zenon DEF Kill, Ages
  <1> QED
    BY <1>1, <1>2, Zenon

\* The steps that end what a client holds
LEMMA EndFates ==
  ASSUME PoolInv, NEW c \in Clients,
         HaltTick(c) \/ Join(c) \/ TickStop(c) \/ TickRaises(c)
  PROVE  \A i \in Sandboxes : Fate(i)
  <1> SUFFICES ASSUME NEW i \in Sandboxes PROVE Fate(i)
    BY Zenon
  <1> USE DEF PoolInv, TypeInv
  <1>1. /\ warm \in [Clients -> SUBSET Sandboxes] /\ made \in [Clients -> SUBSET Sandboxes]
        /\ purge \in [Clients -> SUBSET Sandboxes] /\ kills \in [Clients -> SUBSET Sandboxes]
    BY Zenon DEF TickT, CallT
  <1>2. CASE HaltTick(c)
    <2>1. UNCHANGED <<idle, borrowed, kills, call, drainer>> /\ server' = Killed(warm[c])
      BY <1>2, Zenon DEF HaltTick, storeVars
    <2>2. /\ lost' = lost \cup made[c] \cup purge[c] /\ warm' = [warm EXCEPT ![c] = {}]
          /\ made' = [made EXCEPT ![c] = {}] /\ purge' = [purge EXCEPT ![c] = {}]
      BY <1>2, Zenon DEF HaltTick
    <2>3. Ages(i) /\ (i \in warm[c] => server'[i] # "alive")
      BY <2>1, KilledAges, Zenon
    <2>4. InTick(i, c) \/ Stays(i)
      BY <1>1, <2>1, <2>2, Zenon DEF InTick, InCall, Stays
    <2>5. InTick(i, c) => Drops(i)
      BY <1>1, <2>1, <2>2, <2>3, Zenon DEF InTick, InCall, Drops, Shrinks
    <2> QED
      BY <2>2, <2>3, <2>4, <2>5, Zenon DEF Fate
  <1>3. CASE Join(c)
    <2> DEFINE A == Awaited(c)
    <2>1. UNCHANGED <<idle, borrowed, made, purge, call, drainer>> /\ server' = Killed(warm[c] \cap A)
      BY <1>3, Zenon DEF Join
    <2>2. /\ lost' = lost \cup (kills[c] \cap A) /\ warm' = [warm EXCEPT ![c] = @ \ A]
          /\ kills' = [kills EXCEPT ![c] = @ \ A]
      BY <1>3, Zenon DEF Join
    <2> HIDE DEF A
    <2>3. Ages(i) /\ (i \in warm[c] \cap A => server'[i] # "alive")
      BY <2>1, KilledAges, Zenon
    <2>4. i \in (warm[c] \cup kills[c]) \cap A \/ Stays(i)
      BY <1>1, <2>1, <2>2, Zenon DEF InTick, InCall, Stays
    <2>5. i \in (warm[c] \cup kills[c]) \cap A => Drops(i)
      BY <1>1, <2>1, <2>2, <2>3, Zenon DEF InTick, InCall, Drops, Shrinks
    <2> QED
      BY <2>2, <2>3, <2>4, <2>5, Zenon DEF Fate
  <1>4. CASE TickStop(c)
    <2>1. PICK S \in SUBSET kills[c] : lost' = lost \cup S /\ kills' = [kills EXCEPT ![c] = @ \ S]
      BY <1>4, Zenon DEF TickStop
    <2>2. UNCHANGED <<idle, borrowed, server, warm, made, purge, call, drainer>>
      BY <1>4, Zenon DEF TickStop, serverVars
    <2>3. i \in S \/ Stays(i)
      BY <1>1, <2>1, <2>2, Zenon DEF InTick, InCall, Stays
    <2>4. i \in S => Drops(i)
      BY <1>1, <2>1, <2>2, Zenon DEF InTick, InCall, Drops, Shrinks
    <2> QED
      BY <2>1, <2>2, <2>3, <2>4, Zenon DEF Fate, Ages
  <1>5. CASE TickRaises(c)
    <2>1. /\ lost' = lost \cup made[c] /\ made' = [made EXCEPT ![c] = {}]
          /\ UNCHANGED <<idle, borrowed, server, warm, purge, kills, call, drainer>>
      BY <1>5, Zenon DEF TickRaises, storeVars, serverVars
    <2>2. i \in made[c] \/ Stays(i)
      BY <1>1, <2>1, Zenon DEF InTick, InCall, Stays
    <2>3. i \in made[c] => Drops(i)
      BY <1>1, <2>1, Zenon DEF InTick, InCall, Drops, Shrinks
    <2> QED
      BY <2>1, <2>2, <2>3, Zenon DEF Fate, Ages
  <1> QED
    BY <1>2, <1>3, <1>4, <1>5, Zenon

\* A process is killed
LEMMA CrashFates ==
  ASSUME PoolInv, NEW c \in Clients, Crash(c)
  PROVE  \A i \in Sandboxes : Fate(i)
  <1> SUFFICES ASSUME NEW i \in Sandboxes PROVE Fate(i)
    BY Zenon
  <1>1. /\ warm \in [Clients -> SUBSET Sandboxes] /\ made \in [Clients -> SUBSET Sandboxes]
        /\ purge \in [Clients -> SUBSET Sandboxes] /\ kills \in [Clients -> SUBSET Sandboxes]
        /\ call \in [Callers -> CallRecord]
    BY Zenon DEF PoolInv, TypeInv, TickT, CallT
  <1>2. UNCHANGED <<idle, borrowed, server, drainer>>
    BY Zenon DEF Crash, storeVars, serverVars
  <1>3. /\ warm' = [warm EXCEPT ![c] = {}] /\ made' = [made EXCEPT ![c] = {}]
        /\ purge' = [purge EXCEPT ![c] = {}] /\ kills' = [kills EXCEPT ![c] = {}]
    BY Zenon DEF Crash
  <1>4. \A a \in Callers : call'[a] = IF call[a].at = c THEN CallOut ELSE call[a]
    BY Zenon DEF Crash
  <1>5. /\ lost \subseteq lost' /\ warm[c] \cup made[c] \cup purge[c] \cup kills[c] \subseteq lost'
        /\ \A a \in CallersAt(c) : call[a].id # None => call[a].id \in lost'
        /\ \A a \in CallersAt(c) : call[a].doomed \subseteq lost'
    BY Zenon DEF Crash
  <1>6. i # None
    BY ClientPoolAssumption, Zenon
  <1>7. CASE i \in lost'
    <2>1. Shrinks(i)
      BY <1>1, <1>2, <1>3, <1>4, <1>6 DEF InTick, InCall, Shrinks, CallOut
    <2> QED
      BY <1>2, <1>7, <2>1, Zenon DEF Fate, Drops, Ages
  <1>8. CASE i \notin lost'
    <2>1. /\ i \notin warm[c] \cup made[c] \cup purge[c] \cup kills[c]
          /\ \A a \in CallersAt(c) : ~InCall(i, a)
      BY <1>5, <1>6, <1>8, Zenon DEF InCall
    <2>2. Stays(i)
      BY <1>1, <1>2, <1>3, <1>4, <1>6, <2>1 DEF InTick, InCall, Stays, CallOut, CallersAt
    <2> QED
      BY <1>2, <1>5, <2>2, Zenon DEF Fate, Ages
  <1> QED
    BY <1>7, <1>8, Zenon

\* A sandbox that is in one place is in no other
LEMMA OnlyThere ==
  ASSUME PoolInv, "reply" \notin Env, NEW i \in Sandboxes
  PROVE  /\ i \in idle => Only(i, "idle", None)
         /\ \A c \in Clients : InTick(i, c) => Only(i, "tick", c)
         /\ \A a \in Callers : InCall(i, a) => Only(i, "call", a)
  <1>1. PICK k, x : Only(i, k, x)
    BY Zenon DEF PoolInv, Sole, Alone
  <1> QED
    BY <1>1, Zenon DEF Only

\* The kills of a background task, of a tick, of a warm-up
LEMMA KillFates ==
  ASSUME PoolInv, NEW c \in Clients, NEW j \in Sandboxes,
         BackgroundKill(c, j) \/ TickDiscard(c, j) \/ WarmFinish(c, j)
  PROVE  \A i \in Sandboxes : Fate(i)
  <1> SUFFICES ASSUME NEW i \in Sandboxes PROVE Fate(i)
    BY Zenon
  <1> USE DEF PoolInv, TypeInv
  <1>1. /\ warm \in [Clients -> SUBSET Sandboxes] /\ made \in [Clients -> SUBSET Sandboxes]
        /\ purge \in [Clients -> SUBSET Sandboxes] /\ kills \in [Clients -> SUBSET Sandboxes]
    BY Zenon DEF TickT, CallT
  <1>2. CASE BackgroundKill(c, j)
    <2>1. PICK ok \in KillResults : PoolKill(c, {j}, ok)
      BY <1>2, Zenon DEF BackgroundKill
    <2>2. Ages(i) /\ (i \in lost => i \in lost') /\ (i = j => server'[i] # "alive" \/ i \in lost')
      BY <2>1, KillResultTypes, KillAges, Zenon DEF PoolKill, Open
    <2>3. /\ UNCHANGED <<idle, borrowed, warm, made, purge, call, drainer>>
          /\ kills' = [kills EXCEPT ![c] = @ \ {j}]
      BY <1>2, Zenon DEF BackgroundKill, storeVars, tickVars
    <2>4. Shrinks(i) /\ (i # j => Stays(i))
      BY <1>1, <2>3, Zenon DEF InTick, InCall, Stays, Shrinks
    <2> QED
      BY <2>2, <2>4, Zenon DEF Fate, Drops
  <1>3. CASE TickDiscard(c, j)
    <2>1. PICK ok \in KillResults : PoolKill(c, {j}, ok)
      BY <1>3, Zenon DEF TickDiscard
    <2>2. Ages(i) /\ (i \in lost => i \in lost') /\ (i = j => server'[i] # "alive" \/ i \in lost')
      BY <2>1, KillResultTypes, KillAges, Zenon DEF PoolKill, Open
    <2>3. /\ UNCHANGED <<borrowed, warm, made, kills, call, drainer>>
          /\ idle' = idle \ {j} /\ purge' = [purge EXCEPT ![c] = @ \ {j}]
      BY <1>3, Zenon DEF TickDiscard
    <2>4. Shrinks(i) /\ (i # j => Stays(i))
      BY <1>1, <2>3, Zenon DEF InTick, InCall, Stays, Shrinks
    <2> QED
      BY <2>2, <2>4, Zenon DEF Fate, Drops
  <1>4. CASE WarmFinish(c, j)
    <2>1. UNCHANGED <<idle, borrowed, purge, kills, call, drainer>>
          /\ warm' = [warm EXCEPT ![c] = @ \ {j}] /\ j \in warm[c]
      BY <1>4, Zenon DEF WarmFinish, storeVars
    <2>2. CASE made' = [made EXCEPT ![c] = @ \cup {j}] /\ UNCHANGED <<server, lost>>
      <3>1. Stays(i)
        BY <1>1, <2>1, <2>2, Zenon DEF InTick, InCall, Stays
      <3> QED
        BY <2>2, <3>1, Zenon DEF Fate, Ages
    <2>3. CASE UNCHANGED made /\ \E ok \in KillResults : Kill({j}, ok)
      <3>1. PICK ok \in KillResults : Kill({j}, ok)
        BY <2>3, Zenon
      <3>2. Ages(i) /\ (i \in lost => i \in lost') /\ (i = j => server'[i] # "alive" \/ i \in lost')
        BY <3>1, KillResultTypes, KillAges, Zenon
      <3>3. Shrinks(i) /\ (i # j => Stays(i))
        BY <1>1, <2>1, <2>3, Zenon DEF InTick, InCall, Stays, Shrinks
      <3> QED
        BY <3>2, <3>3, Zenon DEF Fate, Drops
    <2> QED
      BY <1>4, <2>2, <2>3, Zenon DEF WarmFinish
  <1> QED
    BY <1>2, <1>3, <1>4, Zenon

\* A borrower ends its sandbox
LEMMA BorrowerFates ==
  ASSUME PoolInv, NEW j \in Sandboxes, BorrowerKills(j)
  PROVE  \A i \in Sandboxes : Fate(i)
  <1> SUFFICES ASSUME NEW i \in Sandboxes PROVE Fate(i)
    BY Zenon
  <1>1. Ages(i) /\ (i = j => server'[i] # "alive")
    BY KilledAges, Zenon DEF BorrowerKills, PoolInv, TypeInv
  <1>2. /\ UNCHANGED <<idle, warm, made, purge, kills, call, drainer, lost>>
        /\ borrowed' = borrowed \ {j}
    BY Zenon DEF BorrowerKills, storeVars, tickVars
  <1>3. Shrinks(i) /\ (i # j => Stays(i))
    BY <1>2, Zenon DEF InTick, InCall, Stays, Shrinks
  <1> QED
    BY <1>1, <1>2, <1>3, Zenon DEF Fate, Drops

\* A store call whose answer is lost: the live entries it popped are given up
LEMMA UnheardFates ==
  ASSUME PoolInv, NEW i \in Sandboxes, Unheard(idle \ idle'), idle' \subseteq idle,
         UNCHANGED server
  PROVE  /\ Ages(i) /\ (i \in lost => i \in lost')
         /\ i \in idle => i \in idle' \/ server'[i] # "alive" \/ i \in lost'
  <1>1. i \in Expired => server'[i] # "alive"
    BY Zenon DEF PoolInv, Known, Expired
  <1> QED
    BY <1>1, Zenon DEF Unheard, Ages

\* The same where nobody else's hands are involved
LEMMA UnheardElsewhere ==
  ASSUME PoolInv, NEW i \in Sandboxes, Unheard(idle \ idle'), idle' \subseteq idle,
         UNCHANGED <<borrowed, server, warm, made, purge, kills, call>>, drainer'.id = drainer.id
  PROVE  Fate(i)
  <1>1. /\ Ages(i) /\ (i \in lost => i \in lost')
        /\ i \in idle => i \in idle' \/ server'[i] # "alive" \/ i \in lost'
    BY UnheardFates, Zenon
  <1>2. Shrinks(i) /\ ((i \in idle => i \in idle') => Stays(i))
    BY Zenon DEF Shrinks, Stays, InTick, InCall
  <1> QED
    BY <1>1, <1>2, Zenon DEF Fate, Drops

\* REAP_EXPIRED hands the short entries that live to the tick
LEMMA TickReapFates ==
  ASSUME PoolInv, NEW c \in Clients, TickReap(c)
  PROVE  \A i \in Sandboxes : Fate(i)
  <1> SUFFICES ASSUME NEW i \in Sandboxes PROVE Fate(i)
    BY Zenon
  <1>1. purge \in [Clients -> SUBSET Sandboxes] /\ purge[c] = {}
    BY Zenon DEF PoolInv, TypeInv, TickT, TickShape, TickReap
  <1> USE DEF serverVars
  <1>2. CASE Unheard(Short) /\ UNCHANGED purge
    <2>1. idle' \subseteq idle /\ idle \ idle' = Short
      BY Zenon DEF TickReap, Short
    <2>2. Unheard(idle \ idle')
      BY <1>2, <2>1, Zenon
    <2>3. UNCHANGED <<borrowed, server, warm, made, purge, kills, call>> /\ drainer'.id = drainer.id
      BY <1>2, Zenon DEF TickReap
    <2> QED
      BY <2>1, <2>2, <2>3, UnheardElsewhere, Zenon
  <1> SUFFICES ASSUME UNCHANGED lost, purge' = [purge EXCEPT ![c] = Short \ Expired] PROVE Fate(i)
    BY <1>2, Zenon DEF TickReap
  <1>3. /\ UNCHANGED <<borrowed, server, warm, made, kills, call, drainer, lost>>
        /\ idle' = idle \ Short /\ purge' = [purge EXCEPT ![c] = Short \ Expired]
    BY Zenon DEF TickReap
  <1>4. CASE i \notin Short
    <2>1. Stays(i)
      BY <1>1, <1>3, <1>4, Zenon DEF InTick, InCall, Stays
    <2> QED
      BY <1>3, <2>1, Zenon DEF Fate, Ages
  <1>5. CASE i \in Expired
    <2>1. server'[i] # "alive"
      BY <1>3, <1>5, Zenon DEF PoolInv, Known, Expired
    <2>2. Shrinks(i)
      BY <1>1, <1>3, <1>5, Zenon DEF InTick, InCall, Shrinks
    <2> QED
      BY <1>3, <2>1, <2>2, Zenon DEF Fate, Drops, Ages
  <1>6. CASE i \in Short \ Expired
    <2>1. i \in idle /\ i \in purge'[c] /\ i \notin idle'
      BY <1>1, <1>3, <1>6, Zenon DEF Short
    <2>2. Somewhere(i) /\ Somewhere(i)'
      BY <2>1, Zenon DEF Somewhere, InTick
    <2>3. ASSUME "reply" \notin Env PROVE Only(i, "tick", c)'
      <3>1. Only(i, "idle", None)
        BY <2>1, <2>3, OnlyThere, Zenon
      <3> QED
        BY <1>1, <1>3, <2>1, <3>1, Zenon DEF Only, InTick, InCall
    <2> QED
      BY <1>3, <2>2, <2>3, Zenon DEF Fate, Moves, Ages, Alone
  <1> QED
    BY <1>4, <1>5, <1>6, Zenon

\* The entry a take returns goes to the tick or to the drain; the expired ones it drops
\* are over
LEMMA TakeFates ==
  ASSUME PoolInv, (\E c \in Clients : TickPop(c)) \/ DrainTake
  PROVE  \A i \in Sandboxes : Fate(i)
  <1> SUFFICES ASSUME NEW i \in Sandboxes PROVE Fate(i)
    BY Zenon
  <1>1. UNCHANGED <<borrowed, server, warm, made, kills, call>>
    BY Zenon DEF TickPop, DrainTake, serverVars, tickVars
  <1>2. /\ idle \subseteq Sandboxes /\ Expired \subseteq idle /\ i # None
        /\ purge \in [Clients -> SUBSET Sandboxes]
    BY ClientPoolAssumption, Zenon DEF PoolInv, TypeInv, StoreT, TickT, Expired
  <1>3. i \in Expired => server'[i] # "alive"
    BY <1>1, Zenon DEF PoolInv, Known, Expired
  <1>4. ASSUME NEW t \in Takes(Expired), idle' = TakenFrom(t), Unheard(idle \ TakenFrom(t)),
               UNCHANGED purge, drainer'.id = drainer.id
        PROVE  Fate(i)
    <2>1. idle' \subseteq idle
      BY <1>2, <1>4, TakesTypes, Zenon
    <2> QED
      BY <1>1, <1>4, <2>1, UnheardElsewhere, Zenon
  <1>5. ASSUME NEW t \in Takes(Expired), idle' = TakenFrom(t), i # t.id, UNCHANGED lost,
               \A c \in Clients : i \in purge'[c] <=> i \in purge[c],
               drainer'.id = i <=> drainer.id = i
        PROVE  Fate(i)
    <2>1. /\ idle' \subseteq idle
          /\ i \in idle /\ i \notin idle' => i \in t.gone
      BY <1>2, <1>5, TakesTypes, Zenon
    <2>2. t.gone \subseteq Expired
      BY <1>2, TakesTypes, Zenon
    <2>3. Stays(i) \/ (Shrinks(i) /\ i \in Expired)
      BY <1>1, <1>5, <2>1, <2>2, Zenon DEF Stays, Shrinks, InTick, InCall
    <2> QED
      BY <1>1, <1>3, <1>5, <2>3, Zenon DEF Fate, Drops, Ages
  <1>6. ASSUME NEW t \in Takes(Expired), idle' = TakenFrom(t), i = t.id
        PROVE  i \in idle /\ i \notin idle'
    BY <1>2, <1>6, TakesTypes, Zenon
  <1>7. ASSUME NEW c \in Clients, TickPop(c) PROVE Fate(i)
    <2>1. PICK t \in Takes(Expired) :
               /\ idle' = TakenFrom(t)
               /\ \/ /\ lost' = lost
                     /\ \/ t.id = None /\ purge' = purge
                        \/ t.id # None /\ purge' = [purge EXCEPT ![c] = {t.id}]
                  \/ Unheard(idle \ TakenFrom(t)) /\ purge' = purge
      BY <1>7, Zenon DEF TickPop
    <2>2. purge[c] = {} /\ UNCHANGED drainer
      BY <1>7, Zenon DEF TickPop, PoolInv, TypeInv, TickT, TickShape
    <2>3. CASE Unheard(idle \ TakenFrom(t)) /\ purge' = purge
      BY <1>4, <2>1, <2>2, <2>3, Zenon
    <2> SUFFICES ASSUME /\ lost' = lost
                        /\ \/ t.id = None /\ purge' = purge
                           \/ t.id # None /\ purge' = [purge EXCEPT ![c] = {t.id}]
                 PROVE  Fate(i)
      BY <2>1, <2>3, Zenon
    <2>4. CASE i # t.id
      BY <1>2, <1>5, <2>1, <2>2, <2>4, Zenon
    <2>5. CASE i = t.id
      <3>1. i \in idle /\ i \notin idle'
        BY <1>6, <2>1, <2>5, Zenon
      <3>2. purge' = [purge EXCEPT ![c] = {i}]
        BY <1>2, <2>1, <2>5, Zenon
      <3>3. Somewhere(i) /\ Somewhere(i)'
        BY <1>2, <3>1, <3>2, Zenon DEF Somewhere, InTick
      <3>4. ASSUME "reply" \notin Env PROVE Only(i, "tick", c)'
        <4>1. Only(i, "idle", None)
          BY <3>1, <3>4, OnlyThere, Zenon
        <4> QED
          BY <1>1, <1>2, <2>2, <3>1, <3>2, <4>1, Zenon DEF Only, InTick, InCall
      <3> QED
        BY <1>1, <3>3, <3>4, Zenon DEF Fate, Moves, Ages, Alone
    <2> QED
      BY <2>4, <2>5, Zenon
  <1>8. CASE DrainTake
    <2>1. PICK t \in Takes(Expired) :
               /\ idle' = TakenFrom(t)
               /\ \/ drainer'.id = t.id /\ UNCHANGED lost
                  \/ drainer'.id = None /\ Unheard(idle \ TakenFrom(t))
      BY <1>8 DEF DrainTake, DrainerOut
    <2>2. drainer.id = None /\ UNCHANGED purge
      BY <1>8, Zenon DEF DrainTake, tickVars, PoolInv, TypeInv, DrainT
    <2>3. CASE drainer'.id = None /\ Unheard(idle \ TakenFrom(t))
      BY <1>4, <2>1, <2>2, <2>3, Zenon
    <2> SUFFICES ASSUME drainer'.id = t.id, UNCHANGED lost PROVE Fate(i)
      BY <2>1, <2>3, Zenon
    <2>4. CASE i # t.id
      BY <1>2, <1>5, <2>1, <2>2, <2>4, Zenon
    <2>5. CASE i = t.id
      <3>1. i \in idle /\ i \notin idle'
        BY <1>6, <2>1, <2>5, Zenon
      <3>2. Somewhere(i) /\ Somewhere(i)'
        BY <2>1, <2>5, <3>1, Zenon DEF Somewhere
      <3>3. ASSUME "reply" \notin Env PROVE Only(i, "drain", None)'
        <4>1. Only(i, "idle", None)
          BY <3>1, <3>3, OnlyThere, Zenon
        <4> QED
          BY <1>1, <2>2, <3>1, <4>1, Zenon DEF Only, InTick, InCall
      <3> QED
        BY <1>1, <3>2, <3>3, Zenon DEF Fate, Moves, Ages, Alone
    <2> QED
      BY <2>4, <2>5, Zenon
  <1> QED
    BY <1>7, <1>8, Zenon

\* A drain kills what it has taken
LEMMA DrainKillFates ==
  ASSUME PoolInv, DrainKill
  PROVE  \A i \in Sandboxes : Fate(i)
  <1> SUFFICES ASSUME NEW i \in Sandboxes PROVE Fate(i)
    BY Zenon
  <1>1. PICK ok \in KillResults, late \in BOOLEAN :
             /\ Kill({drainer.id}, ok)
             /\ drainer' = IF late THEN DrainerOut
                           ELSE [pc |-> "take", id |-> None, next |-> drainer.next]
    BY Zenon DEF DrainKill
  <1>2. /\ Ages(i) /\ (i \in lost => i \in lost')
        /\ i = drainer.id => server'[i] # "alive" \/ i \in lost'
    BY <1>1, KillResultTypes, KillAges, Zenon DEF PoolInv, TypeInv
  <1>3. drainer'.id # i
    BY <1>1, ClientPoolAssumption, Zenon DEF DrainerOut
  <1>4. UNCHANGED <<idle, borrowed, warm, made, purge, kills, call>>
    BY Zenon DEF DrainKill, storeVars, tickVars
  <1>5. Shrinks(i) /\ (i # drainer.id => Stays(i))
    BY <1>3, <1>4, Zenon DEF Shrinks, Stays, InTick, InCall
  <1> QED
    BY <1>2, <1>5, Zenon DEF Fate, Drops

\* A creation whose answer is lost puts the sandbox in nobody's hands
LEMMA CreatedUnheardFates ==
  ASSUME PoolInv, NEW i \in Sandboxes, CreatedUnheard, Quiet
  PROVE  Fate(i)
  <1>1. Stays(i)
    BY Zenon DEF Quiet, Stays, InTick, InCall
  <1>2. PICK j \in Unborn : server' = [server EXCEPT ![j] = "alive"] /\ lost' = lost \cup {j}
    BY Zenon DEF CreatedUnheard
  <1>3. /\ server \in [Sandboxes -> {"unborn", "alive", "dead"}] /\ j \in Sandboxes
        /\ server[j] = "unborn" /\ ~Somewhere(j)
    BY Zenon DEF PoolInv, TypeInv, ServerT, Known, Unborn
  <1>4. CASE i = j
    <2>1. Only(i, "idle", None)
      BY <1>3, <1>4, Zenon DEF Only, Somewhere
    <2>2. Only(i, "idle", None)'
      BY <1>1, <2>1, Zenon DEF Only, Stays
    <2> QED
      BY <1>2, <1>3, <1>4, <2>2, Zenon DEF Fate, Appears, Alone
  <1>5. CASE i # j
    BY <1>1, <1>2, <1>3, <1>5, Zenon DEF Fate, Ages
  <1> QED
    BY <1>4, <1>5, Zenon

\* A warm-up creates a sandbox nobody knows of
LEMMA WarmBuildFates ==
  ASSUME PoolInv, NEW c \in Clients, WarmBuild(c)
  PROVE  \A i \in Sandboxes : Fate(i)
  <1> SUFFICES ASSUME NEW i \in Sandboxes PROVE Fate(i)
    BY Zenon
  <1>1. UNCHANGED <<idle, borrowed, made, purge, kills, call, drainer>>
    BY Zenon DEF WarmBuild, storeVars
  <1>2. CASE UNCHANGED <<server, warm, lost>>
    BY <1>1, <1>2, QuietFates, Zenon DEF Quiet, Ages
  <1>3. CASE CreatedUnheard /\ UNCHANGED warm
    BY <1>1, <1>3, CreatedUnheardFates, Zenon DEF Quiet
  <1>4. ASSUME NEW j \in Unborn, server' = [server EXCEPT ![j] = "alive"], UNCHANGED lost,
               warm' = [warm EXCEPT ![c] = @ \cup {j}]
        PROVE  Fate(i)
    <2>1. /\ warm \in [Clients -> SUBSET Sandboxes] /\ j \in Sandboxes
          /\ server \in [Sandboxes -> {"unborn", "alive", "dead"}]
          /\ server[j] = "unborn" /\ ~Somewhere(j)
      BY Zenon DEF PoolInv, TypeInv, TickT, ServerT, Known, Unborn
    <2>2. CASE i = j
      <3>1. server[i] = "unborn" /\ server'[i] = "alive" /\ Somewhere(i)'
        BY <1>4, <2>1, <2>2, Zenon DEF Somewhere, InTick
      <3>2. Only(i, "tick", c)'
        BY <1>1, <1>4, <2>1, <2>2, Zenon DEF Only, Somewhere, InTick, InCall
      <3> QED
        BY <1>4, <3>1, <3>2, Zenon DEF Fate, Appears, Alone
    <2>3. CASE i # j
      <3>1. Stays(i) /\ Ages(i)
        BY <1>1, <1>4, <2>1, <2>3, Zenon DEF Stays, Ages, InTick, InCall
      <3> QED
        BY <1>4, <3>1, Zenon DEF Fate
    <2> QED
      BY <2>2, <2>3, Zenon
  <1> QED
    BY <1>2, <1>3, <1>4, Zenon DEF WarmBuild

\* What a tick has made and cannot put any more it still holds
LEMMA LockLostStays ==
  ASSUME PoolInv, NEW c \in Clients, tick[c].pc \in {"build", "put"}, LockLost(c),
         UNCHANGED warm, NEW i \in Sandboxes
  PROVE  \A d \in Clients : InTick(i, d)' <=> InTick(i, d)
  <1>1. /\ made \in [Clients -> SUBSET Sandboxes] /\ purge \in [Clients -> SUBSET Sandboxes]
        /\ purge[c] = {}
    BY Zenon DEF PoolInv, TypeInv, TickT, TickShape
  <1>2. made' = [made EXCEPT ![c] = {}] /\ purge' = [purge EXCEPT ![c] = made[c]]
    BY Zenon DEF LockLost
  <1> QED
    BY <1>1, <1>2, Zenon DEF InTick

\* The end of the gather
LEMMA TickRenewFates ==
  ASSUME PoolInv, NEW c \in Clients, TickRenew(c)
  PROVE  \A i \in Sandboxes : Fate(i)
  <1> SUFFICES ASSUME NEW i \in Sandboxes PROVE Fate(i)
    BY Zenon
  <1>1. UNCHANGED <<idle, borrowed, server, warm, kills, call, drainer, lost>>
    BY Zenon DEF TickRenew, storeVars, serverVars
  <1>2. \A d \in Clients : InTick(i, d)' <=> InTick(i, d)
    <2>1. CASE UNCHANGED <<made, purge>>
      BY <1>1, <2>1, Zenon DEF InTick
    <2>2. CASE LockLost(c)
      BY <1>1, <2>2, LockLostStays, Zenon DEF TickRenew
    <2> QED
      BY <2>1, <2>2, Zenon DEF TickRenew
  <1>3. Stays(i)
    BY <1>1, <1>2, Zenon DEF Stays, InCall
  <1> QED
    BY <1>1, <1>3, Zenon DEF Fate, Ages

\* A put hands the sandbox to the store.  When its reply is lost the tick
\* keeps it too
LEMMA TickPutFates ==
  ASSUME PoolInv, NEW c \in Clients, TickPut(c)
  PROVE  \A i \in Sandboxes : Fate(i)
  <1> SUFFICES ASSUME NEW i \in Sandboxes PROVE Fate(i)
    BY Zenon
  <1>1. PICK j \in made[c], r \in PutOutcomes :
             /\ idle' = IF r \in {"stored", "unknown"} THEN idle \cup {j} ELSE idle
             /\ \/ /\ r = "stored" /\ made' = [made EXCEPT ![c] = @ \ {j}] /\ UNCHANGED purge
                \/ r # "stored" /\ LockLost(c)
    BY Zenon DEF TickPut
  <1>2. /\ UNCHANGED <<borrowed, server, warm, kills, call, drainer, lost>>
        /\ made \in [Clients -> SUBSET Sandboxes] /\ warm[c] = {} /\ purge[c] = {}
        /\ tick[c].pc = "put"
    BY Zenon DEF TickPut, serverVars, PoolInv, TypeInv, TickT, TickShape
  <1>3. CASE i # j
    <2>1. \A d \in Clients : InTick(i, d)' <=> InTick(i, d)
      BY <1>1, <1>2, <1>3, LockLostStays, Zenon DEF InTick
    <2>2. Stays(i)
      BY <1>1, <1>2, <1>3, <2>1, Zenon DEF Stays, InCall
    <2> QED
      BY <1>2, <2>2, Zenon DEF Fate, Ages
  <1>4. CASE i = j /\ r = "stored"
    <2>1. i \in idle' /\ InTick(i, c) /\ ~InTick(i, c)'
      BY <1>1, <1>2, <1>4, Zenon DEF InTick
    <2>2. Somewhere(i) /\ Somewhere(i)'
      BY <2>1, Zenon DEF Somewhere
    <2>3. \A d \in Clients : InTick(i, d)' => InTick(i, d)
      BY <1>1, <1>2, <1>4, Zenon DEF InTick
    <2>4. ASSUME "reply" \notin Env PROVE Only(i, "idle", None)'
      <3>1. Only(i, "tick", c)
        BY <2>1, <2>4, OnlyThere, Zenon
      <3> QED
        BY <1>2, <2>1, <2>3, <3>1, Zenon DEF Only, InCall
    <2> QED
      BY <1>2, <2>2, <2>4, Zenon DEF Fate, Moves, Ages, Alone
  <1>5. CASE i = j /\ r = "unknown"
    <2>1. "reply" \in Env /\ i \in idle' /\ InTick(i, c)
      BY <1>1, <1>5, Zenon DEF PutOutcomes, Happens, InTick
    <2>2. Somewhere(i) /\ Somewhere(i)'
      BY <2>1, Zenon DEF Somewhere
    <2> QED
      BY <1>2, <2>1, <2>2, Zenon DEF Fate, Moves, Ages
  <1>6. CASE r \notin {"stored", "unknown"}
    <2>1. \A d \in Clients : InTick(i, d)' <=> InTick(i, d)
      BY <1>1, <1>2, <1>6, LockLostStays, Zenon
    <2>2. Stays(i)
      BY <1>1, <1>2, <1>6, <2>1, Zenon DEF Stays, InCall
    <2> QED
      BY <1>2, <2>2, Zenon DEF Fate, Ages
  <1> QED
    BY <1>3, <1>4, <1>5, <1>6, Zenon

\* A direct create gets a sandbox nobody knows of
LEMMA AcquireCreateFates ==
  ASSUME PoolInv, NEW a \in Callers, AcquireCreate(a)
  PROVE  \A i \in Sandboxes : Fate(i)
  <1> SUFFICES ASSUME NEW i \in Sandboxes PROVE Fate(i)
    BY Zenon
  <1>1. UNCHANGED <<idle, borrowed, warm, made, purge, kills, drainer>>
    BY Zenon DEF AcquireCreate, storeVars, tickVars
  <1>2. /\ call \in [Callers -> CallRecord] /\ call[a].id = None /\ call[a].doomed = {}
        /\ server \in [Sandboxes -> {"unborn", "alive", "dead"}] /\ i # None
    BY ClientPoolAssumption, Zenon DEF AcquireCreate, PoolInv, TypeInv, CallT, CallShape, ServerT
  <1>3. ASSUME Return(a), CreatedUnheard \/ UNCHANGED <<server, lost>> PROVE Fate(i)
    <2>1. Quiet
      BY <1>1, <1>2, <1>3, Zenon DEF Quiet, Return, CallOut
    <2> QED
      BY <1>3, <2>1, QuietFates, CreatedUnheardFates, Zenon DEF Ages
  <1>4. ASSUME NEW j \in Unborn, server' = [server EXCEPT ![j] = "alive"], UNCHANGED lost,
               CallAt(a, "created", j, call[a].tries, call[a].doomed)
        PROVE  Fate(i)
    <2>1. j \in Sandboxes /\ server[j] = "unborn" /\ ~Somewhere(j)
      BY Zenon DEF PoolInv, Known, Unborn
    <2>2. /\ call'[a].id = j /\ call'[a].doomed = {}
          /\ \A b \in Callers : b # a => call'[b] = call[b]
      BY <1>2, <1>4, Zenon DEF CallAt
    <2>3. CASE i = j
      <3>1. server[i] = "unborn" /\ server'[i] = "alive" /\ Somewhere(i)'
        BY <1>2, <1>4, <2>1, <2>2, <2>3, SMTT(30) DEF Somewhere, InCall
      <3>2. Only(i, "call", a)'
        BY <1>1, <2>1, <2>2, <2>3, SMTT(30) DEF Only, Somewhere, InTick, InCall
      <3> QED
        BY <1>4, <3>1, <3>2, Zenon DEF Fate, Appears, Alone
    <2>4. CASE i # j
      <3>1. Stays(i) /\ Ages(i)
        BY <1>1, <1>2, <1>4, <2>2, <2>4, Zenon DEF Stays, Ages, InTick, InCall
      <3> QED
        BY <1>4, <3>1, Zenon DEF Fate
    <2> QED
      BY <2>3, <2>4, Zenon
  <1> QED
    BY <1>3, <1>4, Zenon DEF AcquireCreate

\* A call hands a sandbox to a background kill
LEMMA KilledLater ==
  ASSUME PoolInv, NEW a \in Callers, NEW c \in Clients, NEW S, NEW i \in Sandboxes, i \in S,
         kills' = [kills EXCEPT ![c] = @ \cup S],
         UNCHANGED <<warm, made, purge, drainer>>,
         \A b \in Callers : b # a => call'[b] = call[b],
         Somewhere(i),
         "reply" \notin Env => /\ Only(i, "call", a) \/ Only(i, "idle", None)
                               /\ i \notin idle' /\ i \notin borrowed' /\ ~InCall(i, a)'
  PROVE  Moves(i)
  <1>1. kills \in [Clients -> SUBSET Sandboxes]
    BY Zenon DEF PoolInv, TypeInv, CallT
  <1>2. i \in kills'[c]
    BY <1>1, Zenon
  <1>3. Somewhere(i)'
    BY <1>2, Zenon DEF Somewhere
  <1>4. ASSUME "reply" \notin Env PROVE Only(i, "kill", c)'
    BY <1>1, <1>4, Zenon DEF Only, InTick, InCall
  <1> QED
    BY <1>3, <1>4, Zenon DEF Moves, Alone

\* What the end of a search leaves
LEMMA GiveUpEffect ==
  ASSUME CallT, NEW a \in Callers, NEW S, GiveUp(a, S)
  PROVE  /\ kills' = [kills EXCEPT ![call[a].at] = @ \cup S]
         /\ call'[a].id = None /\ call'[a].doomed = {}
         /\ \A b \in Callers : b # a => call'[b] = call[b]
  BY DEF CallT, GiveUp, ScheduleKill, CallAt, Return, CallOut

\* A take of acquire(): the candidate and the short entries that live go to
\* the call, or the short ones to background kills
LEMMA AcquireTakeFates ==
  ASSUME PoolInv, NEW a \in Callers, AcquireTake(a)
  PROVE  \A i \in Sandboxes : Fate(i)
  <1> SUFFICES ASSUME NEW i \in Sandboxes PROVE Fate(i)
    BY Zenon
  <1> DEFINE c == call[a].at
             doomed == call[a].doomed
  <1>1. /\ UNCHANGED <<borrowed, server, warm, made, purge, drainer>>
        /\ Ages(i) /\ (i \in lost => i \in lost')
    BY Zenon DEF AcquireTake, Unheard, serverVars, tickVars, Ages
  <1>2. /\ call \in [Callers -> CallRecord] /\ CallShape(call[a]) /\ CallT
        /\ c \in Clients /\ call[a].id = None /\ i # None
        /\ kills \in [Clients -> SUBSET Sandboxes]
    BY ClientPoolAssumption, Zenon DEF AcquireTake, PoolInv, TypeInv, CallT, CallShape
  <1>3. i \in Expired => server'[i] # "alive"
    BY <1>1, Zenon DEF PoolInv, Known, Expired
  <1>4. ASSUME GiveUp(a, doomed), idle' \subseteq idle,
               i \in idle => i \in idle' \/ server'[i] # "alive" \/ i \in lost'
        PROVE  Fate(i)
    <2>1. /\ kills' = [kills EXCEPT ![c] = @ \cup doomed]
          /\ call'[a].id = None /\ call'[a].doomed = {}
          /\ \A b \in Callers : b # a => call'[b] = call[b]
      BY <1>2, <1>4, GiveUpEffect, Zenon
    <2>2. CASE i \in doomed
      <3>1. InCall(i, a) /\ ~InCall(i, a)' /\ Somewhere(i)
        BY <1>2, <2>1, <2>2, Zenon DEF InCall, Somewhere
      <3>2. "reply" \notin Env => Only(i, "call", a) /\ i \notin idle' /\ i \notin borrowed'
        BY <1>1, <1>4, <3>1, OnlyThere, Zenon DEF Only
      <3>3. Moves(i)
        BY <1>1, <1>2, <2>1, <2>2, <3>1, <3>2, KilledLater, Zenon
      <3> QED
        BY <1>1, <3>3, Zenon DEF Fate
    <2>3. CASE i \notin doomed
      <3>1. Shrinks(i) /\ ((i \in idle => i \in idle') => Stays(i))
        BY <1>1, <1>2, <1>4, <2>1, <2>3 DEF Shrinks, Stays, InTick, InCall
      <3> QED
        BY <1>1, <1>4, <3>1, Zenon DEF Fate, Drops
    <2> QED
      BY <2>2, <2>3, Zenon
  <1>5. ASSUME NEW t \in Takes(Short), idle' = TakenFrom(t), Unheard(idle \ TakenFrom(t)),
               GiveUp(a, doomed)
        PROVE  Fate(i)
    <2>1. idle' \subseteq idle
      BY <1>5, TakesTypes, SMTT(30) DEF PoolInv, TypeInv, StoreT, Short
    <2>2. i \in idle => i \in idle' \/ server'[i] # "alive" \/ i \in lost'
      BY <1>1, <1>5, <2>1, UnheardFates, Zenon
    <2> QED
      BY <1>4, <1>5, <2>1, <2>2, Zenon
  <1>6. ASSUME NEW t \in Takes(Short), idle' = TakenFrom(t),
               \/ t.id = None /\ GiveUp(a, doomed \cup (t.gone \ Expired))
               \/ /\ t.id # None
                  /\ CallAt(a, "connect", t.id, call[a].tries + 1, doomed \cup (t.gone \ Expired))
                  /\ UNCHANGED kills
        PROVE  Fate(i)
    <2> DEFINE D == doomed \cup (t.gone \ Expired)
    <2>1. /\ t.gone \subseteq idle /\ (t.id # None => t.id \in idle \ Short)
          /\ (t.id = None => t.gone = idle)
          /\ i \in idle' <=> i \in idle /\ i # t.id /\ i \notin t.gone
          /\ Expired \subseteq Short
      BY <1>6, TakesTypes, SMTT(30) DEF PoolInv, TypeInv, StoreT, Short, Expired, TakenFrom
    <2>2. i \in D => Somewhere(i)
      BY <2>1, Zenon DEF Somewhere, InCall
    <2>3. ASSUME "reply" \notin Env, i \in D
          PROVE  /\ Only(i, "call", a) \/ Only(i, "idle", None)
                 /\ i \notin idle' /\ i \notin borrowed' /\ i # t.id
      <3>1. CASE i \in doomed
        <4>1. Only(i, "call", a)
          BY <2>3, <3>1, OnlyThere, SMTT(30) DEF InCall
        <4> QED
          BY <1>1, <1>2, <2>1, <4>1, SMTT(30) DEF Only
      <3>2. CASE i \in t.gone
        <4>1. Only(i, "idle", None)
          BY <2>1, <2>3, <3>2, OnlyThere, SMTT(30)
        <4>2. i # t.id
          BY <3>2, <1>2, TakesTypes DEF Takes
        <4> QED
          BY <1>1, <2>1, <3>2, <4>1, <4>2, SMTT(30) DEF Only
      <3> QED
        BY <2>3, <3>1, <3>2, SMTT(30)
    <2>4. CASE t.id = None
      <3>1. /\ kills' = [kills EXCEPT ![c] = @ \cup D]
            /\ call'[a].id = None /\ call'[a].doomed = {}
            /\ \A b \in Callers : b # a => call'[b] = call[b]
        BY <1>2, <1>6, <2>4, GiveUpEffect, Zenon
      <3>2. CASE i \in D
        <4>1. ~InCall(i, a)'
          BY <1>2, <3>1, Zenon DEF InCall
        <4> HIDE DEF D
        <4>2. Moves(i)
          BY <1>1, <1>2, <2>2, <2>3, <3>1, <3>2, <4>1, KilledLater, Zenon
        <4> QED
          BY <1>1, <4>2, Zenon DEF Fate
      <3>3. CASE i \notin D
        <4>1. i \notin doomed /\ (i \in idle => i \in Expired)
          BY <2>1, <2>4, <3>3, SMTT(30)
        <4>2. i \notin idle => Stays(i)
          BY <1>1, <1>2, <2>1, <3>1, <3>3, <4>1, SMTT(30) DEF Stays, InTick, InCall
        <4>3. i \in idle => Shrinks(i)
          BY <1>1, <1>2, <2>1, <3>1, <3>3, <4>1, SMTT(30) DEF Shrinks, InTick, InCall
        <4> QED
          BY <1>1, <1>3, <4>1, <4>2, <4>3, Zenon DEF Fate, Drops
      <3> QED
        BY <3>2, <3>3, Zenon
    <2>5. CASE t.id # None
      <3>1. /\ call'[a].id = t.id /\ call'[a].doomed = D /\ UNCHANGED kills
            /\ \A b \in Callers : b # a => call'[b] = call[b]
        BY <1>2, <1>6, <2>5 DEF CallAt
      <3>2. CASE i = t.id \/ i \in t.gone \ Expired
        <4>1. i \in idle /\ i \notin idle' /\ InCall(i, a)'
          BY <2>1, <2>5, <3>1, <3>2, Zenon DEF InCall
        <4>2. Somewhere(i) /\ Somewhere(i)'
          BY <4>1, Zenon DEF Somewhere
        <4>3. ASSUME "reply" \notin Env PROVE Only(i, "call", a)'
          <5>1. Only(i, "idle", None)
            BY <4>1, <4>3, OnlyThere, Zenon
          <5> QED
            BY <1>1, <3>1, <4>1, <5>1, Zenon DEF Only, InTick, InCall
        <4> QED
          BY <1>1, <4>2, <4>3, Zenon DEF Fate, Moves, Alone
      <3>3. CASE i # t.id /\ i \notin t.gone \ Expired
        <4>1. InCall(i, a)' <=> InCall(i, a)
          BY <1>2, <3>1, <3>3, SMTT(30) DEF InCall
        <4>2. i \notin t.gone => Stays(i)
          BY <1>1, <2>1, <3>1, <3>3, <4>1, SMTT(30) DEF Stays, InTick, InCall
        <4>3. i \in t.gone => Shrinks(i) /\ i \in Expired
          BY <1>1, <2>1, <3>1, <3>3, <4>1 DEF Shrinks, InTick, InCall
        <4> QED
          BY <1>1, <1>3, <4>2, <4>3, Zenon DEF Fate, Drops
      <3> QED
        BY <3>2, <3>3, Zenon
    <2> QED
      BY <2>4, <2>5, SMTT(30)
  <1>7. ASSUME GiveUp(a, doomed), UNCHANGED idle PROVE Fate(i)
    BY <1>4, <1>7, Zenon
  <1> QED
    BY <1>6, <1>5, <1>7, Zenon DEF AcquireTake

\* A candidate that does not answer goes to a background kill; the short ones
\* go with it, wait for the next try, or are given up
LEMMA AcquireStaleFates ==
  ASSUME PoolInv, NEW a \in Callers, AcquireStale(a)
  PROVE  \A i \in Sandboxes : Fate(i)
  <1> SUFFICES ASSUME NEW i \in Sandboxes PROVE Fate(i)
    BY Zenon
  <1> DEFINE c == call[a].at
             j == call[a].id
             doomed == call[a].doomed
  <1>1. UNCHANGED <<borrowed, server, warm, made, purge, drainer>> /\ Ages(i)
    BY Zenon DEF AcquireStale, serverVars, tickVars, Ages
  <1>2. /\ call \in [Callers -> CallRecord] /\ CallT /\ c \in Clients /\ i # None
        /\ kills \in [Clients -> SUBSET Sandboxes]
        /\ "reply" \notin Env => j \notin doomed
    BY ClientPoolAssumption, Zenon DEF AcquireStale, PoolInv, TypeInv, CallT, CallShape, Sole
  <1>3. InCall(i, a) => Somewhere(i)
    BY Zenon DEF Somewhere
  <1>4. ASSUME "reply" \notin Env, InCall(i, a)
        PROVE  Only(i, "call", a) /\ i \notin idle /\ i \notin borrowed
    BY <1>4, OnlyThere DEF Only
  \* S goes to background kills, and L is given up
  <1>5. ASSUME NEW S, NEW L, kills' = [kills EXCEPT ![c] = @ \cup S], lost' = lost \cup L,
               S \subseteq {j} \cup doomed, idle' = idle \/ (idle' = idle \ {j} /\ j \in S),
               \A b \in Callers : b # a => call'[b] = call[b],
               InCall(i, a)' => InCall(i, a) /\ i \in doomed,
               i \in S /\ "reply" \notin Env => ~InCall(i, a)',
               InCall(i, a) => i \in S \/ i \in L \/ InCall(i, a)'
        PROVE  Fate(i)
    <2>1. CASE i \in S
      <3>1. InCall(i, a)
        BY <1>5, <2>1, SMTT(30) DEF InCall
      <3>2. "reply" \notin Env => i \notin idle' /\ i \notin borrowed'
        BY <1>1, <1>4, <1>5, <3>1
      <3>3. Moves(i)
        BY <1>1, <1>2, <1>3, <1>4, <1>5, <2>1, <3>1, <3>2, KilledLater, ZenonT(30)
      <3> QED
        BY <1>1, <1>5, <3>3, Zenon DEF Fate
    <2>2. CASE i \notin S
      <3>1. i \in idle' <=> i \in idle
        BY <1>5, <2>2, SMTT(30)
      <3>2. \A d \in Clients : (i \in kills'[d] <=> i \in kills[d]) /\ (InTick(i, d)' <=> InTick(i, d))
        BY <1>1, <1>2, <1>5, <2>2, SMTT(30) DEF InTick
      <3>3. \A b \in Callers : b # a => (InCall(i, b)' <=> InCall(i, b))
        BY <1>5, SMTT(30) DEF InCall
      <3>4. CASE InCall(i, a)' <=> InCall(i, a)
        <4>1. Stays(i)
          BY <1>1, <3>1, <3>2, <3>3, <3>4 DEF Stays
        <4> QED
          BY <1>1, <1>5, <4>1, SMTT(30) DEF Fate
      <3>5. CASE InCall(i, a) /\ ~InCall(i, a)'
        <4>1. Shrinks(i) /\ i \in lost'
          BY <1>1, <1>5, <2>2, <3>1, <3>2, <3>3, <3>5, Zenon DEF Shrinks
        <4> QED
          BY <1>1, <1>5, <4>1, ZenonT(30) DEF Fate, Drops
      <3> QED
        BY <1>5, <3>4, <3>5, SMTT(30)
    <2> QED
      BY <2>1, <2>2
  <1>6. ASSUME Return(a)
        PROVE  ~InCall(i, a)' /\ \A b \in Callers : b # a => call'[b] = call[b]
    BY <1>2, <1>6, SMTT(30) DEF Return, CallOut, InCall
  <1>7. ASSUME Return(a), lost' = lost \cup {j} \cup doomed, UNCHANGED <<idle, kills>>
        PROVE  Fate(i)
    <2>1. InCall(i, a) => i \in lost'
      BY <1>7, Zenon DEF InCall
    <2>2. Shrinks(i) /\ (~InCall(i, a) => Stays(i))
      BY <1>1, <1>6, <1>7, Zenon DEF Shrinks, Stays, InTick, InCall
    <2> QED
      BY <1>1, <1>7, <2>1, <2>2, ZenonT(30) DEF Fate, Drops
  <1>8. ASSUME ScheduleKill(c, {j}), Return(a), lost' = lost \cup doomed, idle' = idle \ {j}
        PROVE  Fate(i)
    <2>1. kills' = [kills EXCEPT ![c] = @ \cup {j}]
      BY <1>8, Zenon DEF ScheduleKill
    <2>2. InCall(i, a) => i \in {j} \/ i \in doomed
      BY Zenon DEF InCall
    <2>3. {j} \subseteq {j} \cup doomed /\ j \in {j}
      BY Zenon
    <2> QED
      BY <1>5, <1>6, <1>8, <2>1, <2>2, <2>3, Zenon
  <1>9. ASSUME kills' = [kills EXCEPT ![c] = @ \cup ({j} \cup doomed)],
               ~InCall(i, a)', \A b \in Callers : b # a => call'[b] = call[b],
               UNCHANGED lost, idle' = idle \ {j}
        PROVE  Fate(i)
    <2>1. lost' = lost \cup {} /\ (InCall(i, a) => i \in {j} \cup doomed)
      BY <1>9, Zenon DEF InCall
    <2>2. {j} \cup doomed \subseteq {j} \cup doomed /\ j \in {j} \cup doomed
      BY Zenon
    <2> QED
      BY <1>5, <1>9, <2>1, <2>2, Zenon
  <1>10. ASSUME ScheduleKill(c, {j}), CallAt(a, "take", None, call[a].tries, doomed),
                UNCHANGED lost, idle' = idle \ {j}
         PROVE  Fate(i)
    <2>1. kills' = [kills EXCEPT ![c] = @ \cup {j}] /\ lost' = lost \cup {}
      BY <1>10, Zenon DEF ScheduleKill
    <2>2. /\ call'[a].id = None /\ call'[a].doomed = doomed
          /\ \A b \in Callers : b # a => call'[b] = call[b]
      BY <1>2, <1>10, Zenon DEF CallAt
    <2>3. /\ InCall(i, a)' => InCall(i, a) /\ i \in doomed
          /\ i \in {j} /\ "reply" \notin Env => ~InCall(i, a)'
          /\ InCall(i, a) => i \in {j} \/ i \in {} \/ InCall(i, a)'
      BY <1>2, <2>2, SMTT(30) DEF InCall
    <2>4. {j} \subseteq {j} \cup doomed /\ j \in {j}
      BY Zenon
    <2> QED
      BY <1>5, <1>10, <2>1, <2>2, <2>3, <2>4, Zenon
  <1>11. ASSUME GiveUp(a, {j} \cup doomed), UNCHANGED lost, idle' = idle \ {j} PROVE Fate(i)
    <2>1. /\ kills' = [kills EXCEPT ![c] = @ \cup ({j} \cup doomed)]
          /\ call'[a].id = None /\ call'[a].doomed = {}
          /\ \A b \in Callers : b # a => call'[b] = call[b]
      BY <1>2, <1>11, GiveUpEffect, Zenon
    <2>2. ~InCall(i, a)'
      BY <1>2, <2>1, Zenon DEF InCall
    <2> QED
      BY <1>9, <1>11, <2>1, <2>2, SMTT(30)
  <1>12. ASSUME ScheduleKill(c, {j} \cup doomed), Return(a), UNCHANGED lost, idle' = idle \ {j}
         PROVE  Fate(i)
    BY <1>6, <1>9, <1>12, Zenon DEF ScheduleKill
  <1> QED
    BY <1>7, <1>8, <1>10, <1>11, <1>12, Zenon DEF AcquireStale

\* A sandbox is handed to the borrower or killed; the short ones go to
\* background kills
LEMMA AcquireReturnFates ==
  ASSUME PoolInv, NEW a \in Callers, AcquireReturn(a)
  PROVE  \A i \in Sandboxes : Fate(i)
  <1> SUFFICES ASSUME NEW i \in Sandboxes PROVE Fate(i)
    BY Zenon
  <1> DEFINE c == call[a].at
             j == call[a].id
             doomed == call[a].doomed
  <1>1. UNCHANGED <<idle, warm, made, purge, drainer>>
    BY Zenon DEF AcquireReturn, storeVars, tickVars
  <1>2. /\ call \in [Callers -> CallRecord] /\ c \in Clients /\ i # None
        /\ kills \in [Clients -> SUBSET Sandboxes] /\ ServerT
        /\ "reply" \notin Env => j \notin doomed
    BY ClientPoolAssumption, Zenon DEF AcquireReturn, PoolInv, TypeInv, CallT, CallShape, Sole
  <1>3. /\ kills' = [kills EXCEPT ![c] = @ \cup doomed] /\ ~InCall(i, a)'
        /\ \A b \in Callers : b # a => call'[b] = call[b]
    BY <1>2, Zenon DEF AcquireReturn, ScheduleKill, Return, CallOut, InCall
  <1>4. \/ borrowed' = borrowed \cup {j} /\ UNCHANGED <<server, lost>>
        \/ UNCHANGED borrowed /\ \E ok \in KillResults : Kill({j}, ok)
    BY Zenon DEF AcquireReturn
  <1>5. /\ Ages(i) /\ (i \in lost => i \in lost')
        /\ \/ borrowed' = borrowed \cup {j}
           \/ UNCHANGED borrowed /\ (i = j => server'[i] # "alive" \/ i \in lost')
    <2>1. CASE borrowed' = borrowed \cup {j} /\ UNCHANGED <<server, lost>>
      BY <2>1, Zenon DEF Ages
    <2>2. CASE UNCHANGED borrowed /\ \E ok \in KillResults : Kill({j}, ok)
      BY <1>2, <2>2, KillResultTypes, KillAges, Zenon
    <2> QED
      BY <1>4, <2>1, <2>2, Zenon
  <1>6. CASE i \in doomed
    <2>1. InCall(i, a) /\ Somewhere(i)
      BY <1>6, Zenon DEF InCall, Somewhere
    <2>2. "reply" \notin Env => Only(i, "call", a) /\ i \notin idle' /\ i \notin borrowed'
      BY <1>1, <1>2, <1>5, <1>6, <2>1, OnlyThere DEF Only
    <2>3. Moves(i)
      BY <1>1, <1>2, <1>3, <1>6, <2>1, <2>2, KilledLater, ZenonT(30)
    <2> QED
      BY <1>5, <2>3, Zenon DEF Fate
  <1>7. CASE i = j /\ i \notin doomed
    <2>1. InCall(i, a) /\ Somewhere(i)
      BY <1>7, Zenon DEF InCall, Somewhere
    <2>2. CASE borrowed' = borrowed \cup {j}
      <3>1. Somewhere(i)'
        BY <1>7, <2>2, Zenon DEF Somewhere
      <3>2. ASSUME "reply" \notin Env PROVE Only(i, "borrower", None)'
        <4>1. Only(i, "call", a)
          BY <2>1, <3>2, OnlyThere, Zenon
        <4> QED
          BY <1>1, <1>2, <1>3, <1>7, <2>2, <4>1 DEF Only, InTick, InCall
      <3> QED
        BY <1>5, <2>1, <3>1, <3>2, Zenon DEF Fate, Moves, Alone
    <2>3. CASE UNCHANGED borrowed /\ (i = j => server'[i] # "alive" \/ i \in lost')
      <3>1. Shrinks(i)
        BY <1>1, <1>2, <1>3, <1>7, <2>3, Zenon DEF Shrinks, InTick, InCall
      <3> QED
        BY <1>5, <1>7, <2>3, <3>1, Zenon DEF Fate, Drops
    <2> QED
      BY <1>5, <2>2, <2>3, Zenon
  <1>8. CASE i # j /\ i \notin doomed
    <2>1. Stays(i)
      BY <1>1, <1>2, <1>3, <1>5, <1>8, Zenon DEF Stays, InTick, InCall
    <2> QED
      BY <1>5, <2>1, Zenon DEF Fate
  <1> QED
    BY <1>6, <1>7, <1>8, Zenon

(***************************************************************************)
(* The theorems on where a sandbox is.                                     *)
(***************************************************************************)
\* Every step gives every sandbox a fate
LEMMA Fates ==
  ASSUME PoolInv, [Next]_vars
  PROVE  \A i \in Sandboxes : Fate(i)
  <1> DEFINE All == \A i \in Sandboxes : Fate(i)
  <1>1. ASSUME NEW c \in Clients, Tick(c) PROVE All
    BY <1>1, QuietClientFates, EndFates, TickReapFates, TakeFates, WarmBuildFates, TickRenewFates,
       TickPutFates, KillFates DEF Tick
  <1>2. ASSUME NEW c \in Clients, Lifecycle(c) PROVE All
    BY <1>2, QuietClientFates, EndFates, KillFates, Zenon DEF Lifecycle
  <1>3. ASSUME NEW a \in Callers, Acquire(a) PROVE All
    BY <1>3, QuietCallFates, AcquireTakeFates, AcquireStaleFates, AcquireCreateFates,
       AcquireReturnFates DEF Acquire
  <1>4. CASE Drain
    BY <1>4, QuietDrainFates, TakeFates, DrainKillFates, Zenon DEF Drain
  <1>5. CASE Environment
    BY <1>5, QuietEnvironmentFates, QuietDrainFates, BorrowerFates, CrashFates, EndFates
    DEF Environment
  <1> QED
    BY <1>1, <1>2, <1>3, <1>4, <1>5, QuietEnvironmentFates DEF Next

\* The candidate of a call stays out of the ones it is to kill
LEMMA ApartStep ==
  ASSUME PoolInv, [Next]_vars, "reply" \notin Env, NEW b \in Callers
  PROVE  call'[b].id \notin call'[b].doomed
  <1>1. /\ call[b].id \notin call[b].doomed /\ call \in [Callers -> CallRecord]
        /\ call[b].doomed \subseteq Sandboxes /\ None \notin Sandboxes /\ CallT
    BY ClientPoolAssumption, Zenon DEF PoolInv, Sole, TypeInv, CallT, CallRecord
  <1>2. CASE call'[b] = call[b]
    BY <1>1, <1>2, Zenon
  <1>3. CASE call'[b].doomed = {}
    BY <1>3, Zenon
  <1>4. CASE call'[b].id = None /\ call'[b].doomed = call[b].doomed
    BY <1>1, <1>4, Zenon
  <1>5. ASSUME NEW c \in Clients, Tick(c) \/ Lifecycle(c) PROVE UNCHANGED call
    BY <1>5, Zenon DEF Tick, TickStart, TickCheck, TickStop, TickLock, TickReap, TickCount, TickShrink,
                TickPop, WarmBuild, TickRenew, TickPut, TickDiscard, WarmFinish, Lifecycle, Start,
                Shutdown, ShutdownNow, HaltTick, Join, Drained, BackgroundKill
  <1>6. CASE Drain
    BY <1>2, <1>6, Zenon DEF Drain, Destroy, ReleaseAllIdle, DrainTake, DrainKill, ClearPoolState,
                      MarkDestroyed
  <1>7. CASE Environment
    <2>1. call'[b] = call[b] \/ call'[b].doomed = {}
      <3>1. ASSUME NEW c \in Clients, Crash(c) PROVE call'[b] = call[b] \/ call'[b] = CallOut
        BY <3>1, Zenon DEF Crash
      <3>2. CASE ~\E c \in Clients : Crash(c)
        BY <1>7, <3>2, Zenon DEF Environment, LockExpires, DestroyRaises, Age, Dies, BorrowerKills, Resize,
                          TickRaises
      <3> QED
        BY <3>1, <3>2, SMTT(30) DEF CallOut
    <2> QED
      BY <1>2, <1>3, <2>1, Zenon
  <1>8. ASSUME NEW a \in Callers, Acquire(a) PROVE call'[b].id \notin call'[b].doomed
    <2>1. CASE AcquireTake(a) /\ a = b
      <3>1. ASSUME NEW S, GiveUp(a, S) PROVE call'[b].doomed = {}
        BY <1>1, <2>1, <3>1, GiveUpEffect, Zenon
      <3>2. ASSUME NEW t \in Takes(Short), t.id # None,
                   CallAt(a, "connect", t.id, call[a].tries + 1,
                          call[a].doomed \cup (t.gone \ Expired))
            PROVE  call'[b].id \notin call'[b].doomed
        <4>1. t.id \in idle \ Short /\ t.gone \subseteq Short /\ t.id \in Sandboxes
          BY <3>2, TakesTypes, SMTT(30) DEF PoolInv, TypeInv, StoreT, Short
        <4>2. t.id \notin call[a].doomed
          BY <4>1, OnlyThere, Zenon DEF Only, InCall
        <4>3. call'[b].id = t.id /\ call'[b].doomed = call[a].doomed \cup (t.gone \ Expired)
          BY <1>1, <2>1, <3>2, Zenon DEF CallAt
        <4> QED
          BY <4>1, <4>2, <4>3, SMTT(30)
      <3> QED
        BY <1>3, <2>1, <3>1, <3>2, ZenonT(30) DEF AcquireTake
    <2>2. CASE AcquireStale(a) /\ a = b
      <3>1. ASSUME Return(a) PROVE call'[b].doomed = {}
        BY <1>1, <2>2, <3>1 DEF Return, CallOut
      <3>2. ASSUME NEW S, GiveUp(a, S) PROVE call'[b].doomed = {}
        BY <1>1, <2>2, <3>2, GiveUpEffect, Zenon
      <3>3. ASSUME CallAt(a, "take", None, call[a].tries, call[a].doomed)
            PROVE  call'[b].id = None /\ call'[b].doomed = call[b].doomed
        BY <1>1, <2>2, <3>3, Zenon DEF CallAt
      <3> QED
        BY <1>3, <1>4, <2>2, <3>1, <3>2, <3>3, Zenon DEF AcquireStale
    <2>3. CASE AcquireCreate(a) /\ a = b
      <3>1. call[a].doomed = {}
        BY <2>3, Zenon DEF AcquireCreate, PoolInv, TypeInv, CallT, CallShape
      <3> QED
        BY <1>1, <1>3, <2>3, <3>1 DEF AcquireCreate, CallAt, Return, CallOut
    <2>4. CASE ((\E c \in Clients : AcquireBegin(a, c)) \/ AcquireCheck(a) \/ AcquireConnect(a))
               /\ a = b
      <3>1. call'[b].doomed = {} \/ (call'[b].id = call[b].id /\ call'[b].doomed = call[b].doomed)
        BY <1>1, <2>4 DEF AcquireBegin, AcquireCheck, AcquireConnect, CallGoesOn, CallAt, Return,
                          CallOut, Count
      <3> QED
        BY <1>1, <3>1, Zenon
    <2>5. CASE AcquireReturn(a) /\ a = b
      BY <1>1, <1>3, <2>5, Zenon DEF AcquireReturn, Return, CallOut
    <2>6. CASE a # b
      <3>1. call'[b] = call[b]
        BY <1>1, <1>8, <2>6, Zenon DEF Acquire, AcquireBegin, AcquireCheck, AcquireTake, AcquireConnect,
           AcquireStale, AcquireCreate, AcquireReturn, CallGoesOn, CallAt, Return, GiveUp, Count
      <3> QED
        BY <1>2, <3>1, Zenon
    <2> QED
      BY <1>8, <2>1, <2>2, <2>3, <2>4, <2>5, <2>6, Zenon DEF Acquire
  <1> QED
    BY <1>2, <1>5, <1>6, <1>7, <1>8, Zenon DEF Next, vars

\* Only a put writes an entry, and only time ages one
LEMMA EntriesKept ==
  ASSUME PoolInv, Next, ~\E c \in Clients : TickPut(c), ~\E i \in Sandboxes : Age(i)
  PROVE  idle' \subseteq idle /\ UNCHANGED ttl
  <1> DEFINE Kept == idle' \subseteq idle /\ UNCHANGED ttl
  <1> USE DEF storeVars
  <1>1. ASSUME NEW c \in Clients, Tick(c) PROVE Kept
    <2>1. CASE TickPop(c)
      BY <2>1, TakesEbb, Zenon DEF TickPop, PoolInv, TypeInv
    <2>2. ASSUME NEW i \in Sandboxes, TickDiscard(c, i) \/ WarmFinish(c, i) PROVE Kept
      BY <2>2, Zenon DEF TickDiscard, WarmFinish
    <2>3. CASE \/ TickStart(c) \/ TickCheck(c) \/ TickStop(c) \/ TickLock(c) \/ TickReap(c)
               \/ TickCount(c) \/ TickShrink(c) \/ WarmBuild(c) \/ TickRenew(c)
      BY <2>3, Zenon DEF TickStart, TickCheck, TickStop, TickLock, TickReap, TickCount, TickShrink,
                  WarmBuild, TickRenew
    <2> QED
      BY <1>1, <2>1, <2>2, <2>3, Zenon DEF Tick
  <1>2. ASSUME NEW c \in Clients, Lifecycle(c) PROVE Kept
    BY <1>2, Zenon DEF Lifecycle, Start, Shutdown, ShutdownNow, HaltTick, Join, Drained, BackgroundKill
  <1>3. ASSUME NEW a \in Callers, Acquire(a) PROVE Kept
    <2>1. CASE AcquireTake(a)
      BY <2>1, TakesEbb, Zenon DEF AcquireTake, PoolInv, TypeInv
    <2> QED
      BY <1>3, <2>1, Zenon DEF Acquire, AcquireBegin, AcquireCheck, AcquireConnect, AcquireStale,
                        AcquireCreate, AcquireReturn
  <1>4. CASE Drain
    <2>1. CASE DrainTake
      BY <2>1, TakesEbb, Zenon DEF DrainTake, PoolInv, TypeInv
    <2> QED
      BY <1>4, <2>1, Zenon DEF Drain, Destroy, ReleaseAllIdle, DrainKill, ClearPoolState, MarkDestroyed
  <1>5. CASE Environment
    BY <1>5, Zenon DEF Environment, LockExpires, DestroyRaises, Dies, BorrowerKills, Resize, Crash,
                TickRaises
  <1> QED
    BY <1>1, <1>2, <1>3, <1>4, <1>5 DEF Next

\* The sandbox of an expired entry is over
LEMMA ExpiredStep ==
  ASSUME PoolInv, [Next]_vars, NEW i \in idle', ttl'[i] = "expired"
  PROVE  server'[i] # "alive"
  <1>1. idle' \subseteq Sandboxes
    BY TypesStep, Zenon DEF PoolInv, TypeInv, StoreT
  <1>2. ASSUME i \in idle, ttl[i] = "expired" PROVE server'[i] # "alive"
    <2>1. server[i] # "alive" /\ server[i] # "unborn"
      BY <1>1, <1>2, Zenon DEF PoolInv, Known, Somewhere
    <2> QED
      BY <1>1, <2>1, Fates, Zenon DEF Fate, Ages, Appears
  <1>3. ASSUME NEW c \in Clients, TickPut(c) PROVE i \in idle /\ ttl[i] = "expired"
    <2>1. PICK j \in made[c], r \in PutOutcomes :
               /\ idle' = IF r \in {"stored", "unknown"} THEN idle \cup {j} ELSE idle
               /\ ttl' = IF r \in {"stored", "unknown"} THEN [ttl EXCEPT ![j] = "fresh"] ELSE ttl
      BY <1>3, Zenon DEF TickPut
    <2>2. ttl \in [Sandboxes -> {"fresh", "near", "expired"}] /\ j \in Sandboxes
      BY Zenon DEF PoolInv, TypeInv, StoreT, TickT
    <2> QED
      BY <1>1, <2>1, <2>2, Zenon
  <1>4. ASSUME NEW j \in Sandboxes, Age(j) PROVE server'[i] # "alive"
    <2>1. /\ ttl \in [Sandboxes -> {"fresh", "near", "expired"}]
          /\ server \in [Sandboxes -> {"unborn", "alive", "dead"}]
      BY Zenon DEF PoolInv, TypeInv, StoreT, ServerT
    <2>2. CASE i = j
      BY <1>4, <2>1, <2>2, Zenon DEF Age
    <2>3. CASE i # j
      BY <1>1, <1>2, <1>4, <2>1, <2>3, SMTT(30) DEF Age
    <2> QED
      BY <2>2, <2>3, Zenon
  <1>5. CASE UNCHANGED vars
    BY <1>2, <1>5, Zenon DEF vars, storeVars
  <1> QED
    BY <1>2, <1>3, <1>4, <1>5, EntriesKept

\* Every step keeps the invariant
LEMMA PoolStep ==
  ASSUME PoolInv, [Next]_vars
  PROVE  PoolInv'
  <1>1. TypeInv' /\ DestroyedIsEmpty'
    BY TypesStep, DestroyedStep, Zenon DEF PoolInv
  <1>2. /\ "reply" \notin Env => \A i \in Sandboxes : Alone(i)'
        /\ \A i \in Sandboxes : server'[i] = "unborn" => ~Somewhere(i)'
        /\ \A i \in Sandboxes : server'[i] = "alive" => Somewhere(i)' \/ i \in lost'
    BY Fates, FatesKeep, Zenon
  <1>3. Sole'
    BY <1>2, ApartStep, Zenon DEF Sole
  <1>4. Known'
    BY <1>2, ExpiredStep, Zenon DEF Known
  <1> QED
    BY <1>1, <1>3, <1>4, Zenon DEF PoolInv

\* The first state
LEMMA PoolInit == Init => PoolInv
  <1> SUFFICES ASSUME Init PROVE PoolInv
    BY Zenon
  <1>1. TypeInv /\ DestroyedIsEmpty
    BY TypesInit, Zenon DEF Init, DestroyedIsEmpty, DrainerOut
  <1>2. ASSUME NEW i \in Sandboxes PROVE ~Somewhere(i) /\ server[i] = "unborn"
    BY ClientPoolAssumption, Zenon DEF Init, Somewhere, InTick, InCall, DrainerOut, CallOut
  <1>3. ASSUME NEW i \in Sandboxes PROVE Only(i, "idle", None)
    BY <1>2, Zenon DEF Only, Somewhere
  <1>4. Sole
    BY <1>3, Zenon DEF Sole, Alone, Init, CallOut
  <1>5. Known
    BY <1>2, Zenon DEF Known, Init
  <1> QED
    BY <1>1, <1>4, <1>5, Zenon DEF PoolInv

\* Of any number of clients, callers and sandboxes, through crashes, lock expiry,
\* outages and destroy(), as long as no put loses its reply: a sandbox is held
\* by one party at a time, so no two acquire() calls get the same one
THEOREM SandboxesAreHeldOnce == "reply" \notin Env => (Spec => []HeldOnce)
  <1> SUFFICES ASSUME "reply" \notin Env PROVE Spec => []HeldOnce
    BY Zenon
  <1>1. PoolInv => HeldOnce
    BY AloneHeld, Zenon DEF PoolInv, Sole, HeldOnce
  <1> QED
    BY <1>1, PoolInit, PoolStep, PTL DEF Spec

\* For any number of clients, callers and sandboxes and through every fault of
\* Env: a running sandbox of the pool is in somebody's hands, unless one of the
\* causes listed with `lost` took it out of them: a kill that failed or was
\* cancelled, a closed client, a tick or a call that raised, a take, a reap or a
\* create whose answer was lost, a process that died
THEOREM NoSandboxIsForgotten == Spec => []NothingForgotten
  <1>1. PoolInv => NothingForgotten
    BY SomewherePlaces, Zenon DEF PoolInv, Known, NothingForgotten
  <1> QED
    BY <1>1, PoolInit, PoolStep, PTL DEF Spec

=============================================================================
