----------------------------- MODULE DockerProofs -----------------------------
(***************************************************************************)
(* Proofs about DockerSandboxes, for any number of sandboxes, requests,    *)
(* renewals, callbacks and crashes and any clock: its variables have their *)
(* types, a sandbox that expires keeps a timer, a sidecar its sandbox, and *)
(* an expiration ends a sandbox only when the promised time has passed.    *)
(*                                                                         *)
(* Every step but the start of the server and its death acts on one        *)
(* sandbox.  So the inductive invariant is said of one sandbox: LifeOf, of *)
(* its container, timer and sidecar, and DueOf, of the places that know    *)
(* its expiration.                                                         *)
(***************************************************************************)
EXTENDS DockerSandboxes, TLAPS

ThreadRecord == [at : Places, on : Sandboxes \cup {NoSandbox}, exp : 0 .. MaxTime]
MainLoop == {"list", "expired", "serving"}
Unoccupied == {"idle"} \cup MainLoop
Renewing == {"reschedule", "persist", "label"}

\* Types, the roles of the threads, and what the server knows when it starts
ThreadsInv ==
    /\ TypeOK
    /\ \A t \in Threads : thread[t].at \in Unoccupied <=> thread[t].on = NoSandbox
    /\ \A t \in Threads : thread[t].at \in MainLoop => t = Main
    /\ thread[Main].at \in {"list", "serving"} => deferred = {}
    /\ thread[Main].at = "list" =>
          /\ \A t \in Threads \ {Main} : thread[t].on = NoSandbox
          /\ \A s \in Sandboxes : tracked[s] = 0 /\ timer[s] = 0
          /\ unsaved = {}

\* Nothing of the sandbox exists but a thread that is about to create it
Unborn(s) ==
    /\ s \notin containers \cup deferred
    /\ label[s] = 0 /\ file[s] = 0 /\ tracked[s] = 0 /\ timer[s] = 0

On(s, places) == \E t \in Threads : thread[t].on = s /\ thread[t].at \in places

\* Threads that will arm a timer for s, or end it
Watchers == {"start", "schedule", "reschedule", "fetch", "check", "rearm", "remove"}

\* Threads that will create the container of s, or remove its sidecar
Cleaners == {"create", "start", "rollback", "remove", "untrack"}

\* What a thread may rely on about the container it works on
LifeAt(t, s) ==
    /\ thread[t].at \in {"provision", "create"} =>
          /\ Unborn(s)
          /\ \A u \in Threads \ {t} : thread[u].on # s
    /\ thread[t].at = "provision" => s \notin sidecar
    /\ thread[t].at \in {"start", "schedule"} /\ s \in containers =>
          (label[s] = 0 <=> thread[t].exp = 0)
    /\ thread[t].at \in Renewing => thread[t].exp # 0 /\ (s \in containers => label[s] # 0)
    /\ thread[t].at = "rearm" => thread[t].exp # 0
    /\ thread[t].at \in {"untrack", "forget", "rollback"} => s \notin containers \/ s \in dropped

LifeOf(s) ==
    /\ s \notin used => Unborn(s) /\ s \notin sidecar /\ \A t \in Threads : thread[t].on # s
    /\ \A t \in Threads : thread[t].on = s => LifeAt(t, s)
    /\ thread[Main].at # "list" /\ s \in containers /\ label[s] # 0 =>
          timer[s] # 0 \/ s \in deferred \/ blind \/ s \in dropped \/ On(s, Watchers)
    /\ Serving /\ s \in sidecar =>
          s \in containers \/ blind \/ s \in dropped \/ On(s, Cleaners)

LifeInv == ThreadsInv /\ \A s \in Sandboxes : LifeOf(s)

Removing == {"remove", "untrack", "forget"}

\* Memory knows the expiration of s, or all that was promised has passed
Due(s) == tracked[s] # 0 \/ promised[s] <= now

\* The places that know the expiration of s are not before the promise, the file
\* and the label unless the last renewal was not saved; an expiration is under
\* way only when it will find the time in memory, or may go on without
KnownDue(s) ==
    /\ tracked[s] # 0 => promised[s] <= tracked[s]
    /\ s \notin unsaved /\ file[s] # 0 => promised[s] <= file[s]
    /\ s \notin unsaved /\ file[s] = 0 => promised[s] <= label[s]
    /\ timer[s] # 0 \/ s \in deferred => Due(s)

\* What a thread may rely on about the promise made for its sandbox, unless
\* the sandbox is gone or its promise forfeited
DueAt(t, s) ==
    /\ thread[t].at \in {"start", "schedule", "reschedule", "persist", "label"} =>
          promised[s] <= thread[t].exp
    /\ thread[t].at \in {"persist", "label"} => tracked[s] = thread[t].exp
    /\ thread[t].at = "label" => s \in unsaved \/ file[s] = thread[t].exp
    /\ thread[t].at \in {"fetch", "check", "rearm"} => Due(s)
    /\ thread[t].at \notin Removing

DueOf(s) ==
    /\ s \in unsaved \cup forfeited => s \in used
    /\ s \in forfeited => promised[s] = 0
    /\ \A t \in Threads : thread[t].on = s =>
          /\ thread[t].at \in {"provision", "create"} => promised[s] = thread[t].exp
          /\ thread[t].at = "check" => s \in containers \/ promised[s] = 0
    /\ s \in containers /\ s \notin forfeited =>
          /\ KnownDue(s)
          /\ \A t, u \in Setters(s) : t = u
          /\ \A t \in Threads : thread[t].on = s => DueAt(t, s)

DueInv == \A s \in Sandboxes : DueOf(s)

-----------------------------------------------------------------------------
(* One thread moves, one sandbox changes *)

\* The state of sandbox r is left alone
Same(r) ==
    /\ r \in containers' <=> r \in containers
    /\ r \in sidecar' <=> r \in sidecar
    /\ r \in deferred' <=> r \in deferred
    /\ r \in used' <=> r \in used
    /\ r \in unsaved' <=> r \in unsaved
    /\ r \in forfeited' <=> r \in forfeited
    /\ r \in dropped' <=> r \in dropped
    /\ label'[r] = label[r] /\ file'[r] = file[r] /\ tracked'[r] = tracked[r]
    /\ timer'[r] = timer[r] /\ promised'[r] = promised[r]

\* Thread t, which works on s or on nothing, moves and changes at most s
Local(t, s) ==
    /\ thread[t].on \in {s, NoSandbox} /\ thread'[t].on \in {s, NoSandbox}
    /\ \A u \in Threads \ {t} : thread'[u] = thread[u]
    /\ thread'[Main].at = "list" <=> thread[Main].at = "list"
    /\ thread'[Main].at = "serving" <=> thread[Main].at = "serving"
    /\ blind' = blind
    /\ now' = now
    /\ \A r \in Sandboxes \ {s} : Same(r)

\* What every variable but the threads and the clock must be after a step
CellsOK ==
    /\ label' \in [Sandboxes -> 0 .. MaxTime] /\ file' \in [Sandboxes -> 0 .. MaxTime]
    /\ tracked' \in [Sandboxes -> 0 .. MaxTime] /\ timer' \in [Sandboxes -> 0 .. MaxTime]
    /\ promised' \in [Sandboxes -> 0 .. MaxTime]
    /\ containers' \subseteq Sandboxes /\ sidecar' \subseteq Sandboxes /\ deferred' \subseteq Sandboxes
    /\ used' \subseteq Sandboxes /\ forfeited' \subseteq Sandboxes /\ dropped' \subseteq Sandboxes
    /\ unsaved' \subseteq Sandboxes
    /\ blind' \in BOOLEAN

\* The types, one by one.
LEMMA Types ==
    ASSUME TypeOK
    PROVE  /\ now \in 0 .. MaxTime /\ now \in Nat /\ MaxTime \in Nat /\ crashes \in 0 .. MaxCrashes
           /\ label \in [Sandboxes -> 0 .. MaxTime] /\ file \in [Sandboxes -> 0 .. MaxTime]
           /\ tracked \in [Sandboxes -> 0 .. MaxTime] /\ timer \in [Sandboxes -> 0 .. MaxTime]
           /\ promised \in [Sandboxes -> 0 .. MaxTime]
           /\ containers \subseteq Sandboxes /\ sidecar \subseteq Sandboxes /\ deferred \subseteq Sandboxes
           /\ used \subseteq Sandboxes /\ forfeited \subseteq Sandboxes /\ dropped \subseteq Sandboxes
           /\ unsaved \subseteq Sandboxes
           /\ blind \in BOOLEAN
           /\ thread \in [Threads -> ThreadRecord]
           /\ thread[Main].at # "idle"
           /\ Main \in Threads /\ NoSandbox \notin Sandboxes
  <1>1. now \in Nat /\ MaxTime \in Nat
    BY BoundsAreNat DEF TypeOK
  <1>2. /\ label \in [Sandboxes -> 0 .. MaxTime] /\ file \in [Sandboxes -> 0 .. MaxTime]
        /\ tracked \in [Sandboxes -> 0 .. MaxTime] /\ timer \in [Sandboxes -> 0 .. MaxTime]
        /\ promised \in [Sandboxes -> 0 .. MaxTime]
    BY Zenon DEF TypeOK
  <1>3. Main \in Threads /\ NoSandbox \notin Sandboxes
    BY RolesAreDistinct, Zenon DEF Threads
  <1> QED
    BY <1>1, <1>2, <1>3, Zenon DEF TypeOK, ThreadRecord

\* The types again, from a step's effect on every variable.
LEMMA TypesAfter ==
    ASSUME now' \in 0 .. MaxTime, crashes' \in 0 .. MaxCrashes, CellsOK,
           thread' \in [Threads -> ThreadRecord], thread'[Main].at # "idle"
    PROVE  TypeOK'
  <1>1. \A f \in {label', file', tracked', timer', promised'} : f \in [Sandboxes -> 0 .. MaxTime]
    BY Zenon DEF CellsOK
  <1> QED
    BY <1>1, Zenon DEF TypeOK, CellsOK, ThreadRecord

\* A thread is given a new record.
LEMMA Moved ==
    ASSUME TypeOK, NEW t \in Threads, NEW x \in ThreadRecord,
           thread' = [thread EXCEPT ![t] = x]
    PROVE  /\ thread' \in [Threads -> ThreadRecord]
           /\ thread'[t] = x
           /\ \A u \in Threads \ {t} : thread'[u] = thread[u]
  BY Types, Zenon

\* Goto moves a thread and keeps its sandbox and its time.
LEMMA GotoMoves ==
    ASSUME TypeOK, NEW t \in Threads, NEW place \in Places, Goto(t, place)
    PROVE  /\ thread' \in [Threads -> ThreadRecord]
           /\ thread'[t].at = place /\ thread'[t].on = thread[t].on /\ thread'[t].exp = thread[t].exp
           /\ \A u \in Threads \ {t} : thread'[u] = thread[u]
  <1>1. thread \in [Threads -> ThreadRecord] /\ thread[t] \in ThreadRecord
    BY Types, Zenon
  <1>2. DOMAIN thread' = Threads /\ \A u \in Threads \ {t} : thread'[u] = thread[u]
    BY <1>1, Zenon DEF Goto
  <1>3. thread'[t] = [thread[t] EXCEPT !.at = place]
    BY <1>1, Zenon DEF Goto
  <1>4. thread'[t] = [at |-> place, on |-> thread[t].on, exp |-> thread[t].exp]
    BY <1>1, <1>3, Zenon DEF ThreadRecord
  <1>5. [at |-> place, on |-> thread[t].on, exp |-> thread[t].exp] \in ThreadRecord
    BY <1>1, Zenon DEF ThreadRecord
  <1>6. thread' = [u \in Threads |-> thread'[u]]
    BY <1>1, Zenon DEF Goto
  <1>7. thread' \in [Threads -> ThreadRecord]
    BY <1>1, <1>2, <1>4, <1>5, <1>6, Zenon
  <1> QED
    BY <1>2, <1>4, <1>7

\* Start gives a thread a place, a sandbox and a time.
LEMMA StartMoves ==
    ASSUME TypeOK, NEW t \in Threads, NEW place \in Places, NEW s \in Sandboxes,
           NEW e \in 0 .. MaxTime, Start(t, place, s, e)
    PROVE  /\ thread' \in [Threads -> ThreadRecord]
           /\ thread'[t].at = place /\ thread'[t].on = s /\ thread'[t].exp = e
           /\ \A u \in Threads \ {t} : thread'[u] = thread[u]
  <1>1. [at |-> place, on |-> s, exp |-> e] \in ThreadRecord
    BY Zenon DEF ThreadRecord
  <1> QED
    BY <1>1, Moved, Zenon DEF Start

\* Return ends a thread's work; the starting thread goes on with its loop.
LEMMA ReturnMoves ==
    ASSUME TypeOK, NEW t \in Threads, Return(t)
    PROVE  /\ thread' \in [Threads -> ThreadRecord]
           /\ thread'[t].at = (IF t = Main THEN "expired" ELSE "idle")
           /\ thread'[t].on = NoSandbox
           /\ \A u \in Threads \ {t} : thread'[u] = thread[u]
  <1>1. MaxTime \in Nat
    BY Types, Zenon
  <1>2. Idle \in ThreadRecord /\ Loop("expired") \in ThreadRecord
    BY <1>1 DEF Idle, Loop, ThreadRecord, Places
  <1>3. Idle.at = "idle" /\ Idle.on = NoSandbox
    BY Zenon DEF Idle
  <1>4. Loop("expired").at = "expired" /\ Loop("expired").on = NoSandbox
    BY Zenon DEF Loop
  <1> QED
    BY <1>2, <1>3, <1>4, Moved, Zenon DEF Return

\* The threads after a local step of t, which is at work or the server's loop.
LEMMA ThreadsAfter ==
    ASSUME ThreadsInv, NEW t \in Threads, NEW s \in Sandboxes, Local(t, s),
           thread[Main].at # "list",
           now' \in 0 .. MaxTime, crashes' \in 0 .. MaxCrashes, CellsOK,
           thread' \in [Threads -> ThreadRecord],
           thread'[t].at \in Unoccupied <=> thread'[t].on = NoSandbox,
           thread'[t].at \in MainLoop => t = Main,
           t = Main => thread'[t].at # "idle",
           deferred' \subseteq deferred
    PROVE  ThreadsInv'
  <1>1. thread'[Main].at # "idle"
    BY Types, Zenon DEF Local, ThreadsInv
  <1>2. TypeOK'
    BY <1>1, TypesAfter, Zenon
  <1>3. thread'[Main].at # "list"
    BY Zenon DEF Local
  <1>4. thread'[Main].at = "serving" => deferred' = {}
    BY Zenon DEF Local, ThreadsInv
  <1> QED
    BY <1>2, <1>3, <1>4, Zenon DEF Local, ThreadsInv

\* A local step disturbs no other sandbox.
LEMMA OthersLive ==
    ASSUME LifeInv, NEW t \in Threads, NEW s \in Sandboxes, Local(t, s),
           NEW r \in Sandboxes, r # s
    PROVE  LifeOf(r)'
  <1>0. NoSandbox \notin Sandboxes /\ Main \in Threads
    BY Types, Zenon DEF LifeInv, ThreadsInv
  <1>1. Same(r) /\ LifeOf(r)
    BY Zenon DEF Local, LifeInv
  <1>2. \A u \in Threads :
           /\ thread'[u].on = r <=> thread[u].on = r
           /\ thread[u].on = r => thread'[u] = thread[u]
    BY <1>0, Zenon DEF Local
  <1>3. (On(r, Watchers)' <=> On(r, Watchers)) /\ (On(r, Cleaners)' <=> On(r, Cleaners))
    BY <1>2, Zenon DEF On
  <1>4. Unborn(r)' <=> Unborn(r)
    BY <1>1, Zenon DEF Same, Unborn
  <1>5. ASSUME NEW u \in Threads, thread'[u].on = r PROVE LifeAt(u, r)'
    BY <1>1, <1>2, <1>4, <1>5 DEF LifeOf, LifeAt, Same
  <1> QED
    BY <1>1, <1>2, <1>3, <1>4, <1>5, Zenon DEF LifeOf, Local, Same, Serving

\* Nor what is promised for it.
LEMMA OthersDue ==
    ASSUME LifeInv, DueInv, NEW t \in Threads, NEW s \in Sandboxes, Local(t, s),
           NEW r \in Sandboxes, r # s
    PROVE  DueOf(r)'
  <1>0. NoSandbox \notin Sandboxes
    BY Types, Zenon DEF LifeInv, ThreadsInv
  <1>1. Same(r) /\ DueOf(r)
    BY Zenon DEF Local, DueInv
  <1>2. \A u \in Threads :
           /\ thread'[u].on = r <=> thread[u].on = r
           /\ thread[u].on = r => thread'[u] = thread[u]
    BY <1>0, Zenon DEF Local
  <1>3. Setters(r)' = Setters(r)
    BY <1>2, Zenon DEF Setters
  <1>4. (Due(r)' <=> Due(r)) /\ (KnownDue(r)' <=> KnownDue(r))
    BY <1>1, Zenon DEF Due, KnownDue, Same, Local
  <1>5. ASSUME NEW u \in Threads, thread[u].on = r, DueAt(u, r) PROVE DueAt(u, r)'
    BY <1>1, <1>2, <1>4, <1>5, Zenon DEF DueAt, Same
  <1> QED
    BY <1>1, <1>2, <1>3, <1>4, <1>5, Zenon DEF DueOf, Same

\* The inductive invariant
DockerInv == LifeInv /\ DueInv

\* A local step keeps the invariant if it keeps it of its threads and sandbox.
LEMMA LocalStep ==
    ASSUME DockerInv, NEW t \in Threads, NEW s \in Sandboxes, Local(t, s),
           ThreadsInv', LifeOf(s)', DueOf(s)'
    PROVE  DockerInv'
  <1>1. \A r \in Sandboxes : LifeOf(r)'
    BY OthersLive, Zenon DEF DockerInv
  <1>2. \A r \in Sandboxes : DueOf(r)'
    BY OthersDue, Zenon DEF DockerInv
  <1> QED
    BY <1>1, <1>2, Zenon DEF DockerInv, LifeInv, DueInv

\* What is known of a thread at work and of its sandbox.
LEMMA AtWork ==
    ASSUME DockerInv, NEW t \in Threads, thread[t].at \notin Unoccupied
    PROVE  /\ ThreadsInv /\ TypeOK
           /\ thread[t] \in ThreadRecord
           /\ thread[t].on \in Sandboxes
           /\ thread[Main].at # "list"
           /\ t = Main => thread[Main].at # "serving"
           /\ LifeOf(thread[t].on) /\ DueOf(thread[t].on)
           /\ LifeAt(t, thread[t].on)
  <1>1. ThreadsInv /\ TypeOK /\ thread[t] \in ThreadRecord
    BY Types, Zenon DEF DockerInv, LifeInv, ThreadsInv
  <1>2. thread[t].on \in Sandboxes
    BY <1>1, Zenon DEF ThreadsInv, ThreadRecord
  <1>3. thread[Main].at # "list"
    BY <1>1, Zenon DEF ThreadsInv, Unoccupied, MainLoop
  <1>4. t = Main => thread[Main].at # "serving"
    BY Zenon DEF Unoccupied, MainLoop
  <1>5. LifeOf(thread[t].on) /\ DueOf(thread[t].on)
    BY <1>2, Zenon DEF DockerInv, LifeInv, DueInv
  <1> QED
    BY <1>1, <1>2, <1>3, <1>4, <1>5, Zenon DEF LifeOf

\* No thread but t is about to create s
NoCreator(t, s) ==
    \A u \in Threads \ {t} : thread[u].on = s => thread[u].at \notin {"provision", "create"}

At(t, s, places) == thread[t].on = s /\ thread[t].at \in places

\* What the other threads rely on about the container of s stays true
KeptLife(s) ==
    /\ s \in containers' => s \in containers /\ (label'[s] = 0 <=> label[s] = 0)
    /\ s \in dropped => s \in dropped'

\* What kept s timed is replaced by something that does
KeptTimed(t, s) ==
    /\ s \in containers' /\ label'[s] # 0
    /\ timer[s] # 0 \/ s \in deferred \/ At(t, s, Watchers)
    =>  timer'[s] # 0 \/ s \in deferred' \/ s \in dropped' \/ At(t, s, Watchers)'

\* What accounted for the sidecar of s is replaced by something that does
KeptClean(t, s) ==
    s \in sidecar' =>
        \/ s \in containers' \/ s \in dropped' \/ At(t, s, Cleaners)'
        \/ s \in sidecar /\ s \notin containers /\ ~At(t, s, Cleaners)

\* Only one thread creates a sandbox, and none once there is something of it.
LEMMA NoOtherCreator ==
    ASSUME NEW t \in Threads, NEW s \in Sandboxes, LifeOf(s),
           thread[t].on = s \/ ~Unborn(s)
    PROVE  NoCreator(t, s)
  BY Zenon DEF LifeOf, LifeAt, NoCreator

\* The sandbox of a local step keeps LifeOf.
LEMMA LifeAfter ==
    ASSUME NEW t \in Threads, NEW s \in Sandboxes, ThreadsInv, LifeOf(s), Local(t, s),
           thread[Main].at # "list",
           s \in used', NoCreator(t, s),
           KeptLife(s), KeptTimed(t, s), KeptClean(t, s),
           thread'[t].on = s => LifeAt(t, s)'
    PROVE  LifeOf(s)'
  <1>1. \A u \in Threads \ {t} : thread'[u] = thread[u]
    BY Zenon DEF Local
  <1>2. ASSUME NEW u \in Threads \ {t}, thread'[u].on = s PROVE LifeAt(u, s)'
    <2>1. LifeAt(u, s) /\ thread'[u] = thread[u] /\ thread[u].at \notin {"provision", "create"}
      BY <1>1, <1>2, Zenon DEF LifeOf, NoCreator
    <2> QED
      BY <2>1, Zenon DEF LifeAt, KeptLife
  <1>3. On(s, Watchers) => At(t, s, Watchers) \/ On(s, Watchers)'
    BY <1>1, Zenon DEF On, At
  <1>4. On(s, Cleaners) => At(t, s, Cleaners) \/ On(s, Cleaners)'
    BY <1>1, Zenon DEF On, At
  <1>5. /\ At(t, s, Watchers)' => On(s, Watchers)'
        /\ At(t, s, Cleaners)' => On(s, Cleaners)'
    BY Zenon DEF On, At
  <1>6. s \in containers' /\ label'[s] # 0 =>
          timer'[s] # 0 \/ s \in deferred' \/ blind' \/ s \in dropped' \/ On(s, Watchers)'
    BY <1>3, <1>5, Zenon DEF KeptTimed, KeptLife, LifeOf, Local
  <1>7. Serving' /\ s \in sidecar' =>
          s \in containers' \/ blind' \/ s \in dropped' \/ On(s, Cleaners)'
    BY <1>4, <1>5, Zenon DEF KeptClean, KeptLife, LifeOf, Local, Serving
  <1> QED
    BY <1>2, <1>6, <1>7, Zenon DEF LifeOf

Setting == {"create", "start", "schedule", "reschedule", "persist", "label"}

\* What the other threads rely on about the promise for s stays true
KeptDue(t, s) ==
    /\ s \notin containers' /\ promised[s] = 0 => promised'[s] = 0
    /\ s \in containers /\ s \notin containers' => promised'[s] = 0
    /\ s \in forfeited' => promised'[s] = 0
    /\ s \in containers' /\ s \notin forfeited' =>
          /\ s \in containers /\ s \notin forfeited
          /\ KnownDue(s)'
          /\ At(t, s, Setting)' => At(t, s, Setting) \/ Setters(s) = {}
          /\ Due(s) => Due(s)'
          /\ \/ /\ tracked'[s] = tracked[s] /\ file'[s] = file[s] /\ promised'[s] = promised[s]
                /\ s \in unsaved' <=> s \in unsaved
             \/ At(t, s, Setting) \/ Setters(s) = {}

\* What thread t relies on after the step
DueThread(t, s) ==
    /\ thread[t].at \in {"provision", "create"} => promised[s] = thread[t].exp
    /\ thread[t].at = "check" => s \in containers \/ promised[s] = 0
    /\ s \in containers /\ s \notin forfeited => DueAt(t, s)

\* The sandbox of a local step keeps DueOf.
LEMMA DueAfter ==
    ASSUME NEW t \in Threads, NEW s \in Sandboxes, ThreadsInv, DueOf(s), Local(t, s),
           s \in used', NoCreator(t, s), KeptDue(t, s),
           thread'[t].on = s => DueThread(t, s)'
    PROVE  DueOf(s)'
  <1>1. \A u \in Threads \ {t} : thread'[u] = thread[u]
    BY Zenon DEF Local
  <1>2. ASSUME NEW u \in Threads, thread'[u].on = s
        PROVE  /\ thread'[u].at \in {"provision", "create"} => promised'[s] = thread'[u].exp
               /\ thread'[u].at = "check" => s \in containers' \/ promised'[s] = 0
    BY <1>1, <1>2, Zenon DEF DueOf, DueThread, KeptDue, NoCreator
  <1>3. ASSUME s \in containers', s \notin forfeited'
        PROVE  /\ KnownDue(s)'
               /\ \A u, v \in Setters(s)' : u = v
               /\ \A u \in Threads : thread'[u].on = s => DueAt(u, s)'
    <2>1. s \in containers /\ s \notin forfeited /\ KnownDue(s)'
      BY <1>3, Zenon DEF KeptDue
    <2>2. \A u, v \in Setters(s) : u = v
      BY <2>1, Zenon DEF DueOf
    <2>3. \A u \in Threads : (u \in Setters(s) <=> At(u, s, Setting)) /\ (u \in Setters(s)' <=> At(u, s, Setting)')
      BY Zenon DEF Setters, At, Setting
    <2>4. \A u \in Threads \ {t} : u \in Setters(s)' <=> u \in Setters(s)
      BY <1>1, <2>3, Zenon DEF At
    <2>5. t \in Setters(s)' => t \in Setters(s) \/ Setters(s) = {}
      BY <1>3, <2>3, Zenon DEF KeptDue
    <2>6. \A u, v \in Setters(s)' : u = v
      <3>1. Setters(s)' \subseteq Threads
        BY Zenon DEF Setters
      <3> QED
        BY <2>2, <2>4, <2>5, <3>1, Zenon
    <2>7. ASSUME NEW u \in Threads \ {t}, thread'[u].on = s PROVE DueAt(u, s)'
      <3>1. DueAt(u, s) /\ thread'[u] = thread[u] /\ thread[u].on = s
        BY <1>1, <2>1, <2>7, Zenon DEF DueOf
      <3>2. Due(s) => Due(s)'
        BY <1>3, Zenon DEF KeptDue
      <3>3. CASE /\ tracked'[s] = tracked[s] /\ file'[s] = file[s] /\ promised'[s] = promised[s]
                 /\ s \in unsaved' <=> s \in unsaved
        BY <3>1, <3>2, <3>3, Zenon DEF DueAt
      <3>4. CASE At(t, s, Setting) \/ Setters(s) = {}
        <4>1. ~At(u, s, Setting)
          BY <2>2, <2>3, <3>4, Zenon
        <4> QED
          BY <3>1, <3>2, <4>1, Zenon DEF DueAt, At, Setting
      <3> QED
        BY <1>3, <3>3, <3>4, Zenon DEF KeptDue
    <2> QED
      BY <1>3, <2>1, <2>6, <2>7, Zenon DEF DueThread
  <1> QED
    BY <1>2, <1>3, Zenon DEF DueOf, KeptDue

\* Thread t goes on with s, or returns
Moves(t, s) ==
    /\ thread' \in [Threads -> ThreadRecord]
    /\ \A u \in Threads \ {t} : thread'[u] = thread[u]
    /\ thread'[t].on \in {s, NoSandbox}
    /\ thread'[t].at \in Unoccupied <=> thread'[t].on = NoSandbox
    /\ thread'[t].at \in MainLoop => t = Main
    /\ t = Main => thread'[t].at \notin {"idle", "list", "serving"}

\* No sandbox but s changes
Touches(s) ==
    /\ now' = now /\ crashes' = crashes /\ blind' = blind
    /\ CellsOK
    /\ deferred' \subseteq deferred /\ used \subseteq used'
    /\ \A r \in Sandboxes \ {s} : Same(r)

\* The invariant after a step of a thread that works on s, or turns to it.
LEMMA WorkStep ==
    ASSUME DockerInv, NEW t \in Threads, NEW s \in Sandboxes,
           thread[Main].at # "list",
           t = Main => thread[Main].at # "serving",
           thread[t].on = s \/ (thread[t].on = NoSandbox /\ ~Unborn(s)),
           Moves(t, s), Touches(s),
           KeptLife(s), KeptTimed(t, s), KeptClean(t, s),
           thread'[t].on = s => LifeAt(t, s)',
           KeptDue(t, s),
           thread'[t].on = s => DueThread(t, s)'
    PROVE  DockerInv'
  <1>1. ThreadsInv /\ TypeOK /\ LifeOf(s) /\ DueOf(s) /\ Main \in Threads
    BY Types, Zenon DEF DockerInv, LifeInv, DueInv, ThreadsInv
  <1>2. NoCreator(t, s) /\ s \in used
    BY <1>1, NoOtherCreator, Zenon DEF LifeOf
  <1>3. Local(t, s)
    BY <1>1, Zenon DEF Local, Moves, Touches
  <1>4. now' \in 0 .. MaxTime /\ crashes' \in 0 .. MaxCrashes /\ CellsOK /\ deferred' \subseteq deferred
    BY <1>1, Types, Zenon DEF Touches
  <1>5. ThreadsInv'
    BY <1>1, <1>3, <1>4, ThreadsAfter, Zenon DEF Moves
  <1>6. LifeOf(s)'
    BY <1>1, <1>2, <1>3, LifeAfter, Zenon DEF Touches
  <1>7. DueOf(s)'
    BY <1>1, <1>2, <1>3, DueAfter, Zenon DEF Touches
  <1> QED
    BY <1>3, <1>5, <1>6, <1>7, LocalStep, Zenon

\* A thread goes on with its sandbox.
LEMMA GoesOn ==
    ASSUME DockerInv, NEW t \in Threads, thread[t].at \notin Unoccupied,
           NEW place \in Places \ Unoccupied, Goto(t, place)
    PROVE  /\ Moves(t, thread[t].on)
           /\ thread'[t].at = place /\ thread'[t].on = thread[t].on /\ thread'[t].exp = thread[t].exp
  <1>1. TypeOK /\ thread[t].on \in Sandboxes /\ NoSandbox \notin Sandboxes
    BY AtWork, Types, Zenon
  <1> QED
    BY <1>1, GotoMoves, Zenon DEF Moves, Unoccupied, MainLoop

\* A thread turns to a sandbox.
LEMMA TurnsTo ==
    ASSUME TypeOK, NEW t \in Threads, NEW s \in Sandboxes, NEW e \in 0 .. MaxTime,
           NEW place \in Places \ Unoccupied, Start(t, place, s, e)
    PROVE  /\ Moves(t, s)
           /\ thread'[t].at = place /\ thread'[t].on = s /\ thread'[t].exp = e
  <1>1. NoSandbox \notin Sandboxes
    BY Types, Zenon
  <1> QED
    BY <1>1, StartMoves DEF Moves, Unoccupied, MainLoop

\* A thread is done with its sandbox.
LEMMA IsDone ==
    ASSUME TypeOK, NEW t \in Threads, NEW s \in Sandboxes, Return(t)
    PROVE  /\ Moves(t, s)
           /\ thread'[t].on = NoSandbox
           /\ thread'[t].on # s
  <1>1. NoSandbox \notin Sandboxes
    BY Types, Zenon
  <1> QED
    BY <1>1, ReturnMoves, Zenon DEF Moves, Unoccupied, MainLoop

\* What was promised for s does not change
Undisturbed(s) ==
    /\ promised'[s] = promised[s]
    /\ s \in unsaved' <=> s \in unsaved
    /\ s \in forfeited' <=> s \in forfeited

\* A step that changes nothing a promise rests on keeps it.
LEMMA PromiseKept ==
    ASSUME NEW t \in Threads, NEW s \in Sandboxes, DueOf(s),
           containers' = containers, now' = now,
           Undisturbed(s) \/ (s \in forfeited' /\ promised'[s] = 0),
           label'[s] = label[s], file'[s] = file[s], tracked'[s] = tracked[s],
           s \in containers /\ s \notin forfeited /\ timer'[s] # 0 => timer[s] # 0 \/ Due(s),
           s \in deferred' => s \in deferred,
           At(t, s, Setting)' => At(t, s, Setting) \/ Setters(s) = {} \/ s \in forfeited'
    PROVE  KeptDue(t, s)
  <1>1. CASE s \in forfeited' /\ promised'[s] = 0
    BY <1>1, Zenon DEF KeptDue
  <1>2. CASE Undisturbed(s)
    <2>1. s \in containers /\ s \notin forfeited => KnownDue(s)
      BY Zenon DEF DueOf
    <2>2. Due(s) <=> Due(s)'
      BY <1>2, Zenon DEF Due, Undisturbed
    <2>3. s \in containers /\ s \notin forfeited /\ KnownDue(s) => KnownDue(s)'
      BY <1>2, <2>2, Zenon DEF KnownDue, Undisturbed
    <2> QED
      BY <1>2, <2>1, <2>2, <2>3, Zenon DEF KeptDue, Undisturbed, DueOf
  <1> QED
    BY <1>1, <1>2, Zenon

\* A step of a thread that sets the expiration keeps the promise if the places
\* that know it do not come before it.
LEMMA PromiseSet ==
    ASSUME NEW t \in Threads, NEW s \in Sandboxes, DueOf(s), At(t, s, Setting),
           containers' = containers, forfeited' = forfeited,
           promised[s] = 0 /\ (s \notin containers \/ s \in forfeited) => promised'[s] = 0,
           s \in containers /\ s \notin forfeited => tracked'[s] # 0 /\ KnownDue(s)'
    PROVE  KeptDue(t, s)
  BY Zenon DEF KeptDue, DueOf, Due

\* Where a promise is given up, no other is touched.
LEMMA Forfeiting ==
    ASSUME TypeOK, NEW s \in Sandboxes, NEW S \in SUBSET {s}, Forfeit(S)
    PROVE  /\ promised' \in [Sandboxes -> 0 .. MaxTime]
           /\ unsaved' \subseteq Sandboxes /\ forfeited' \subseteq Sandboxes
           /\ \A r \in Sandboxes \ {s} :
                 /\ promised'[r] = promised[r]
                 /\ r \in unsaved' <=> r \in unsaved
                 /\ r \in forfeited' <=> r \in forfeited
           /\ s \notin S => Undisturbed(s)
           /\ s \in S => s \in forfeited' /\ promised'[s] = 0
  <1>1. 0 \in 0 .. MaxTime
    BY BoundsAreNat
  <1>2. promised' \in [Sandboxes -> 0 .. MaxTime]
    BY <1>1, Types, Zenon DEF Forfeit
  <1>3. \A r \in Sandboxes : promised'[r] = IF r \in S THEN 0 ELSE promised[r]
    BY Zenon DEF Forfeit
  <1> QED
    BY <1>2, <1>3, Types, Zenon DEF Forfeit, Undisturbed

\* A step that gives nothing up.
LEMMA NothingForfeited ==
    ASSUME TypeOK, UNCHANGED <<promised, unsaved, forfeited>>
    PROVE  Forfeit({})
  BY Types, Zenon DEF Forfeit

-----------------------------------------------------------------------------
(* The steps *)

\* _metadata_store.delete: the container is gone or was given up.
LEMMA ForgetStep ==
    ASSUME DockerInv, NEW t \in Threads, NEW s, s = thread[t].on, Forget(t)
    PROVE  DockerInv'
  <1>1. thread[t].at = "forget" /\ thread[t].at \notin Unoccupied
    BY Zenon DEF Forget, Unoccupied, MainLoop
  <1>2. /\ TypeOK /\ s \in Sandboxes
        /\ thread[Main].at # "list" /\ (t = Main => thread[Main].at # "serving")
        /\ DueOf(s) /\ LifeAt(t, s)
    BY <1>1, AtWork, Zenon
  <1>3. Moves(t, s) /\ thread'[t].on # s
    BY <1>2, IsDone, Zenon DEF Forget
  <1>4. Touches(s)
    BY <1>2, Types DEF Forget, Touches, CellsOK, Same, daemonVars, memoryVars, historyVars
  <1>5. KeptLife(s) /\ KeptTimed(t, s) /\ KeptClean(t, s)
    BY <1>1, <1>2, Zenon DEF Forget, KeptLife, KeptTimed, KeptClean, LifeAt, At, Watchers, Cleaners,
       daemonVars, memoryVars, historyVars
  <1>6. KeptDue(t, s)
    BY <1>1, <1>2, Zenon DEF Forget, KeptDue, DueOf, DueAt, Removing, daemonVars, memoryVars, historyVars
  <1> QED
    BY <1>2, <1>3, <1>4, <1>5, <1>6, WorkStep, Zenon

\* The tracking goes, and the sidecar if the daemon removes it.
LEMMA UntrackStep ==
    ASSUME DockerInv, NEW t \in Threads, NEW s, s = thread[t].on, Untrack(t)
    PROVE  DockerInv'
  <1>1. thread[t].at = "untrack" /\ thread[t].at \notin Unoccupied
    BY Zenon DEF Untrack, Unoccupied, MainLoop
  <1>2. /\ TypeOK /\ s \in Sandboxes
        /\ thread[Main].at # "list" /\ (t = Main => thread[Main].at # "serving")
        /\ LifeOf(s) /\ DueOf(s) /\ LifeAt(t, s)
    BY <1>1, AtWork, Zenon
  <1>3. Moves(t, s) /\ (thread'[t].on = s => thread'[t].at = "forget")
    <2>1. CASE Goto(t, "forget")
      BY <1>1, <2>1, GoesOn, Zenon DEF Places, Unoccupied, MainLoop
    <2>2. CASE Return(t)
      BY <1>2, <2>2, IsDone, Zenon
    <2> QED
      BY <2>1, <2>2, Zenon DEF Untrack
  <1>4. Touches(s)
    BY <1>2, Types DEF Untrack, RemoveExpirationTracking, CleanupEgressSidecar, Touches, CellsOK, Same
  <1>5. KeptLife(s) /\ KeptTimed(t, s) /\ KeptClean(t, s)
    BY <1>1, <1>2, <1>3, Zenon DEF Untrack, RemoveExpirationTracking, CleanupEgressSidecar,
       KeptLife, KeptTimed, KeptClean, LifeAt, At, Watchers, Cleaners
  <1>6. KeptDue(t, s)
    BY <1>1, <1>2, Zenon DEF Untrack, KeptDue, DueOf, DueAt, Removing
  <1>7. thread'[t].on = s => LifeAt(t, s)'
    BY <1>1, <1>2, <1>3, Zenon DEF Untrack, CleanupEgressSidecar, LifeAt, Renewing
  <1>8. thread'[t].on = s => DueThread(t, s)'
    BY <1>1, <1>2, <1>3, Zenon DEF Untrack, DueThread, DueOf, DueAt, Removing
  <1> QED
    BY <1>2, <1>3, <1>4, <1>5, <1>6, <1>7, <1>8, WorkStep, Zenon

\* The except branch of a creation removes the sidecar.
LEMMA CreateRollbackStep ==
    ASSUME DockerInv, NEW t \in Threads, NEW s, s = thread[t].on, CreateRollback(t)
    PROVE  DockerInv'
  <1>1. thread[t].at = "rollback" /\ thread[t].at \notin Unoccupied
    BY Zenon DEF CreateRollback, Unoccupied, MainLoop
  <1>2. /\ TypeOK /\ s \in Sandboxes
        /\ thread[Main].at # "list" /\ (t = Main => thread[Main].at # "serving")
        /\ LifeOf(s) /\ DueOf(s) /\ LifeAt(t, s)
    BY <1>1, AtWork, Zenon
  <1>3. Moves(t, s) /\ thread'[t].on # s
    BY <1>2, IsDone, Zenon DEF CreateRollback
  <1>4. Touches(s)
    BY <1>2, Types, Zenon DEF CreateRollback, CleanupEgressSidecar, Touches, CellsOK, Same, daemonVars, memoryVars, historyVars
  <1>5. KeptLife(s) /\ KeptTimed(t, s) /\ KeptClean(t, s)
    BY <1>1, <1>2, <1>3, Zenon DEF CreateRollback, CleanupEgressSidecar, KeptLife, KeptTimed, KeptClean, LifeAt, At, Watchers, Cleaners, daemonVars, memoryVars, historyVars
  <1>6. KeptDue(t, s)
    BY <1>2, <1>3, PromiseKept, Zenon DEF CreateRollback, At, Undisturbed, daemonVars, memoryVars, historyVars
  <1> QED
    BY <1>2, <1>3, <1>4, <1>5, <1>6, WorkStep, Zenon

\* The creation ends with the timer, unless the sandbox does not expire.
LEMMA CreateScheduleStep ==
    ASSUME DockerInv, NEW t \in Threads, NEW s, s = thread[t].on, CreateSchedule(t)
    PROVE  DockerInv'
  <1>1. thread[t].at = "schedule" /\ thread[t].at \notin Unoccupied
    BY Zenon DEF CreateSchedule, Unoccupied, MainLoop
  <1>2. /\ TypeOK /\ s \in Sandboxes
        /\ thread[Main].at # "list" /\ (t = Main => thread[Main].at # "serving")
        /\ LifeOf(s) /\ DueOf(s) /\ LifeAt(t, s)
    BY <1>1, AtWork, Zenon
  <1>3. Moves(t, s) /\ thread'[t].on # s
    BY <1>2, IsDone, Zenon DEF CreateSchedule
  <1>9. thread[t].exp \in 0 .. MaxTime
    BY <1>2, Types, Zenon DEF ThreadRecord
  <1>4. Touches(s)
    BY <1>2, <1>9, Types DEF CreateSchedule, Schedule, Touches, CellsOK, Same, daemonVars, memoryVars, historyVars
  <1>5. KeptLife(s) /\ KeptTimed(t, s) /\ KeptClean(t, s)
    BY <1>1, <1>2, <1>3, <1>9, Types, Zenon DEF CreateSchedule, Schedule, KeptLife, KeptTimed, KeptClean, LifeAt, At, Watchers, Cleaners, daemonVars, memoryVars, historyVars
  <1>6. KeptDue(t, s)
    <2>1. CASE thread[t].exp = 0
      BY <1>2, <1>3, <2>1, PromiseKept, Zenon DEF CreateSchedule, At, Undisturbed, daemonVars, memoryVars, historyVars
    <2>2. CASE thread[t].exp # 0
      <3>1. At(t, s, Setting)
        BY <1>1, Zenon DEF At, Setting
      <3>2. tracked'[s] = thread[t].exp
        BY <1>2, <2>2, Types DEF CreateSchedule, Schedule
      <3>3. s \in containers /\ s \notin forfeited => KnownDue(s)'
        BY <1>1, <1>2, <2>2, <3>2, Zenon DEF CreateSchedule, DueOf, DueAt, KnownDue, Due, daemonVars, memoryVars, historyVars
      <3> QED
        BY <1>2, <2>2, <3>1, <3>2, <3>3, PromiseSet, Zenon DEF CreateSchedule, daemonVars, historyVars
    <2> QED
      BY <2>1, <2>2, Zenon
  <1> QED
    BY <1>2, <1>3, <1>4, <1>5, <1>6, WorkStep, Zenon

\* A renewal moves memory and timer.
LEMMA RenewScheduleStep ==
    ASSUME DockerInv, NEW t \in Threads, NEW s, s = thread[t].on, RenewSchedule(t)
    PROVE  DockerInv'
  <1>1. thread[t].at = "reschedule" /\ thread[t].at \notin Unoccupied
    BY Zenon DEF RenewSchedule, Unoccupied, MainLoop
  <1>2. /\ TypeOK /\ s \in Sandboxes
        /\ thread[Main].at # "list" /\ (t = Main => thread[Main].at # "serving")
        /\ LifeOf(s) /\ DueOf(s) /\ LifeAt(t, s)
    BY <1>1, AtWork, Zenon
  <1>3. Moves(t, s) /\ thread'[t].at = "persist" /\ thread'[t].on = s /\ thread'[t].exp = thread[t].exp
    BY <1>1, GoesOn, Zenon DEF RenewSchedule, Places, Unoccupied, MainLoop
  <1>9. thread[t].exp \in 0 .. MaxTime /\ promised[s] \in Nat /\ MaxTime \in Nat
    BY <1>2, Types DEF ThreadRecord
  <1>4. Touches(s)
    BY <1>2, <1>9, Types, Zenon DEF RenewSchedule, Schedule, Touches, CellsOK, Same, daemonVars, memoryVars, historyVars
  <1>5. KeptLife(s) /\ KeptTimed(t, s) /\ KeptClean(t, s)
    BY <1>1, <1>2, <1>3, <1>9, Types, Zenon DEF RenewSchedule, Schedule, Renewing, KeptLife, KeptTimed, KeptClean, LifeAt, At, Watchers, Cleaners, daemonVars, memoryVars, historyVars
  <1>6. KeptDue(t, s)
    <2>1. At(t, s, Setting)
      BY <1>1, Zenon DEF At, Setting
    <2>2. tracked'[s] = thread[t].exp /\ thread[t].exp # 0
      BY <1>1, <1>2, Types, Zenon DEF RenewSchedule, Schedule, LifeAt, Renewing
    <2>3. s \in containers /\ s \notin forfeited => KnownDue(s)'
      BY <1>1, <1>2, <2>2, Zenon DEF RenewSchedule, DueOf, DueAt, KnownDue, Due, daemonVars, historyVars
    <2> QED
      BY <1>2, <2>1, <2>2, <2>3, PromiseSet, Zenon DEF RenewSchedule, daemonVars, historyVars
  <1>7. LifeAt(t, s)'
    BY <1>1, <1>2, <1>3, <1>9, Types, Zenon DEF RenewSchedule, Schedule, LifeAt, Unborn, Renewing, daemonVars, memoryVars, historyVars
  <1>8. DueThread(t, s)'
    BY <1>1, <1>2, <1>3, <1>9, Types DEF RenewSchedule, Schedule, DueThread, Due, DueOf, DueAt, Removing, daemonVars, memoryVars, historyVars
  <1> QED
    BY <1>2, <1>3, <1>4, <1>5, <1>6, <1>7, <1>8, WorkStep, Zenon

\* The callback arms the timer of the expiration it read.
LEMMA ExpireRearmStep ==
    ASSUME DockerInv, NEW t \in Threads, NEW s, s = thread[t].on, ExpireRearm(t)
    PROVE  DockerInv'
  <1>1. thread[t].at = "rearm" /\ thread[t].at \notin Unoccupied
    BY Zenon DEF ExpireRearm, Unoccupied, MainLoop
  <1>2. /\ TypeOK /\ s \in Sandboxes
        /\ thread[Main].at # "list" /\ (t = Main => thread[Main].at # "serving")
        /\ LifeOf(s) /\ DueOf(s) /\ LifeAt(t, s)
    BY <1>1, AtWork, Zenon
  <1>3. Moves(t, s) /\ thread'[t].on # s
    BY <1>2, IsDone, Zenon DEF ExpireRearm
  <1>9. thread[t].exp \in 0 .. MaxTime
    BY <1>2, Types, Zenon DEF ThreadRecord
  <1>4. Touches(s)
    BY <1>2, <1>9, Types, Zenon DEF ExpireRearm, Schedule, Touches, CellsOK, Same, daemonVars, memoryVars, historyVars
  <1>5. KeptLife(s) /\ KeptTimed(t, s) /\ KeptClean(t, s)
    BY <1>1, <1>2, <1>3, <1>9, Types, Zenon DEF ExpireRearm, Schedule, KeptLife, KeptTimed, KeptClean, LifeAt, At, Watchers, Cleaners, daemonVars, memoryVars, historyVars
  <1>6. KeptDue(t, s)
    <2>1. s \in containers /\ s \notin forfeited => Due(s)
      BY <1>1, <1>2, Zenon DEF DueOf, DueAt
    <2>2. UNCHANGED <<now, daemonVars, file, deferred, historyVars>> /\ tracked' = tracked
      BY Zenon DEF ExpireRearm, Schedule
    <2> QED
      BY <1>2, <1>3, <2>1, <2>2, PromiseKept, Zenon DEF At, Undisturbed, daemonVars, historyVars
  <1> QED
    BY <1>2, <1>3, <1>4, <1>5, <1>6, WorkStep, Zenon

\* The container goes with its label and its promise.
LEMMA GoneTouches ==
    ASSUME TypeOK, NEW s \in Sandboxes, Gone(s), sidecar' = sidecar,
           dropped' = dropped \/ dropped' = dropped \cup {s},
           UNCHANGED <<now, file, memoryVars, deferred, used, blind, crashes>>
    PROVE  Touches(s)
  BY Types DEF Gone, Touches, CellsOK, Same, memoryVars

\* Where the container is gone nothing is timed and nothing is promised.
LEMMA GoneKeeps ==
    ASSUME TypeOK, NEW t \in Threads, NEW s \in Sandboxes, Gone(s), dropped \subseteq dropped',
           \/ thread'[t].on = s /\ thread'[t].at \in {"untrack", "rollback"}
           \/ thread'[t].on # s /\ s \in dropped'
    PROVE  /\ KeptLife(s) /\ KeptTimed(t, s) /\ KeptClean(t, s) /\ KeptDue(t, s)
           /\ thread'[t].on = s => LifeAt(t, s)' /\ DueThread(t, s)'
  <1>1. s \notin containers' /\ promised'[s] = 0
    BY Types, Zenon DEF Gone
  <1>2. KeptLife(s) /\ KeptTimed(t, s) /\ KeptClean(t, s)
    BY <1>1, Zenon DEF KeptLife, KeptTimed, KeptClean, At, Cleaners
  <1>3. KeptDue(t, s)
    BY <1>1, Zenon DEF KeptDue
  <1>4. thread'[t].on = s => LifeAt(t, s)'
    BY <1>1, Zenon DEF LifeAt, Renewing
  <1>5. thread'[t].on = s => DueThread(t, s)'
    BY <1>1, Zenon DEF DueThread
  <1> QED
    BY <1>2, <1>3, <1>4, <1>5, Zenon

\* The daemon starts the container, or refuses, and then it may refuse as well
\* to remove what it created.
LEMMA StartContainerStep ==
    ASSUME DockerInv, NEW t \in Threads, NEW s, s = thread[t].on, StartContainer(t)
    PROVE  DockerInv'
  <1>1. thread[t].at = "start" /\ thread[t].at \notin Unoccupied
    BY Zenon DEF StartContainer, Unoccupied, MainLoop
  <1>2. /\ TypeOK /\ s \in Sandboxes
        /\ thread[Main].at # "list" /\ (t = Main => thread[Main].at # "serving")
        /\ LifeOf(s) /\ DueOf(s) /\ LifeAt(t, s)
    BY <1>1, AtWork, Zenon
  <1>3. UNCHANGED <<now, sidecar, file, memoryVars, deferred, used, blind, crashes>>
    BY Zenon DEF StartContainer
  <1>4. CASE Gone(s) /\ Goto(t, "rollback") /\ UNCHANGED dropped
    <2>1. Moves(t, s) /\ thread'[t].at = "rollback" /\ thread'[t].on = s
      BY <1>1, <1>4, GoesOn, Zenon DEF Places, Unoccupied, MainLoop
    <2> QED
      BY <1>2, <1>3, <1>4, <2>1, GoneTouches, GoneKeeps, WorkStep, Zenon
  <1>5. CASE /\ Exists(s) /\ Goto(t, "schedule")
             /\ UNCHANGED <<containers, label, promised, unsaved, forfeited, dropped>>
    <2>1. Moves(t, s) /\ thread'[t].at = "schedule" /\ thread'[t].on = s /\ thread'[t].exp = thread[t].exp
      BY <1>1, <1>5, GoesOn, Zenon DEF Places, Unoccupied, MainLoop
    <2>2. Touches(s)
      BY <1>2, <1>3, <1>5, Types, Zenon DEF Touches, CellsOK, Same, memoryVars
    <2>3. KeptLife(s) /\ KeptTimed(t, s) /\ KeptClean(t, s)
      BY <1>3, <1>5, <2>1, Zenon DEF KeptLife, KeptTimed, KeptClean, At, Watchers, Exists
    <2>4. KeptDue(t, s)
      BY <1>1, <1>2, <1>3, <1>5, <2>1, PromiseKept, Zenon DEF At, Setting, Undisturbed, memoryVars
    <2>5. LifeAt(t, s)' /\ DueThread(t, s)'
      BY <1>1, <1>2, <1>3, <1>5, <2>1, Zenon DEF LifeAt, Renewing, DueThread, DueOf, DueAt, Removing
    <2> QED
      BY <1>2, <2>1, <2>2, <2>3, <2>4, <2>5, WorkStep, Zenon
  <1>6. CASE /\ Exists(s) /\ dropped' = dropped \cup {s} /\ Goto(t, "rollback")
             /\ UNCHANGED <<containers, label, promised, unsaved, forfeited>>
    <2>1. Moves(t, s) /\ thread'[t].at = "rollback" /\ thread'[t].on = s /\ thread'[t].exp = thread[t].exp
      BY <1>1, <1>6, GoesOn, Zenon DEF Places, Unoccupied, MainLoop
    <2>2. Touches(s)
      BY <1>2, <1>3, <1>6, Types, Zenon DEF Touches, CellsOK, Same, memoryVars
    <2>3. KeptLife(s) /\ KeptTimed(t, s) /\ KeptClean(t, s)
      BY <1>3, <1>6, <2>1, Zenon DEF KeptLife, KeptTimed, KeptClean
    <2>4. KeptDue(t, s)
      BY <1>1, <1>2, <1>3, <1>6, <2>1, PromiseKept, Zenon DEF At, Setting, Undisturbed, memoryVars
    <2>5. LifeAt(t, s)' /\ DueThread(t, s)'
      BY <1>3, <1>6, <2>1, Zenon DEF LifeAt, Renewing, DueThread, DueAt, Removing
    <2> QED
      BY <1>2, <2>1, <2>2, <2>3, <2>4, <2>5, WorkStep, Zenon
  <1> QED
    BY <1>4, <1>5, <1>6, Zenon DEF StartContainer

\* kill and remove: the container goes, or the daemon refuses.
LEMMA RemoveStep ==
    ASSUME DockerInv, NEW t \in Threads, NEW s, s = thread[t].on, Remove(t)
    PROVE  DockerInv'
  <1>1. thread[t].at = "remove" /\ thread[t].at \notin Unoccupied
    BY Zenon DEF Remove, Unoccupied, MainLoop
  <1>2. /\ TypeOK /\ s \in Sandboxes
        /\ thread[Main].at # "list" /\ (t = Main => thread[Main].at # "serving")
        /\ LifeOf(s) /\ DueOf(s) /\ LifeAt(t, s)
    BY <1>1, AtWork, Zenon
  <1>3. \/ Goto(t, "untrack") /\ (dropped' = dropped \/ dropped' = dropped \cup {s})
        \/ Return(t) /\ dropped' = dropped \cup {s}
    BY Zenon DEF Remove
  <1>4. /\ Moves(t, s) /\ (dropped' = dropped \/ dropped' = dropped \cup {s})
        /\ \/ thread'[t].at = "untrack" /\ thread'[t].on = s
           \/ thread'[t].on # s /\ s \in dropped'
    <2>1. CASE Goto(t, "untrack")
      BY <1>1, <1>3, <2>1, GoesOn, Zenon DEF Places, Unoccupied, MainLoop
    <2>2. CASE Return(t) /\ dropped' = dropped \cup {s}
      BY <1>2, <2>2, IsDone, Zenon
    <2> QED
      BY <1>3, <2>1, <2>2, Zenon
  <1>5. UNCHANGED <<now, sidecar, file, memoryVars, deferred, used, blind, crashes>>
    BY Zenon DEF Remove
  <1>6. CASE Gone(s)
    BY <1>2, <1>4, <1>5, <1>6, GoneTouches, GoneKeeps, WorkStep, Zenon
  <1>7. CASE dropped' = dropped \cup {s} /\ UNCHANGED <<containers, label, promised, unsaved, forfeited>>
    <2>1. Touches(s)
      BY <1>2, <1>5, <1>7, Types, Zenon DEF Touches, CellsOK, Same, memoryVars
    <2>2. KeptLife(s) /\ KeptTimed(t, s) /\ KeptClean(t, s)
      BY <1>7, Zenon DEF KeptLife, KeptTimed, KeptClean
    <2>3. KeptDue(t, s)
      BY <1>2, <1>4, <1>5, <1>7, PromiseKept, Zenon DEF At, Setting, Undisturbed, memoryVars
    <2>4. thread'[t].on = s => LifeAt(t, s)'
      BY <1>4, <1>7, Zenon DEF LifeAt, Renewing
    <2>5. thread'[t].on = s => DueThread(t, s)'
      BY <1>1, <1>2, <1>4, <1>7, Zenon DEF DueThread, DueOf, DueAt, Removing
    <2> QED
      BY <1>2, <1>4, <2>1, <2>2, <2>3, <2>4, <2>5, WorkStep, Zenon
  <1> QED
    BY <1>6, <1>7, Zenon DEF Remove

\* The file is written, or not.
LEMMA RenewPersistStep ==
    ASSUME DockerInv, NEW t \in Threads, NEW s, s = thread[t].on, RenewPersist(t)
    PROVE  DockerInv'
  <1>1. thread[t].at = "persist" /\ thread[t].at \notin Unoccupied
    BY Zenon DEF RenewPersist, Unoccupied, MainLoop
  <1>2. /\ TypeOK /\ s \in Sandboxes
        /\ thread[Main].at # "list" /\ (t = Main => thread[Main].at # "serving")
        /\ LifeOf(s) /\ DueOf(s) /\ LifeAt(t, s)
    BY <1>1, AtWork, Zenon
  <1>3. UNCHANGED <<now, daemonVars, memoryVars, deferred, used, promised, forfeited, dropped, blind, crashes>>
    BY Zenon DEF RenewPersist
  <1>4. thread[t].exp \in 0 .. MaxTime /\ thread[t].exp # 0
    BY <1>1, <1>2, Types, Zenon DEF ThreadRecord, LifeAt, Renewing
  <1>5. At(t, s, Setting)
    BY <1>1, Zenon DEF At, Setting
  <1>6. s \in containers /\ s \notin forfeited =>
          tracked[s] = thread[t].exp /\ promised[s] <= thread[t].exp /\ KnownDue(s)
    BY <1>1, <1>2, Zenon DEF DueOf, DueAt
  <1>7. \/ file' = [file EXCEPT ![s] = thread[t].exp] /\ unsaved' = unsaved \ {s}
        \/ file' = file /\ unsaved' = unsaved \cup (({s} \cap containers) \ forfeited)
    BY Zenon DEF RenewPersist
  <1>8. Moves(t, s) /\ thread'[t].at = "label" /\ thread'[t].on = s /\ thread'[t].exp = thread[t].exp
    BY <1>1, GoesOn, Zenon DEF RenewPersist, Places, Unoccupied, MainLoop
  <1>9. s \in containers /\ s \notin forfeited => s \in unsaved' \/ file'[s] = thread[t].exp
    BY <1>2, <1>7, Types, Zenon
  <1>10. Touches(s)
    BY <1>2, <1>3, <1>4, <1>7, Types DEF Touches, CellsOK, Same, daemonVars, memoryVars
  <1>11. KeptLife(s) /\ KeptTimed(t, s) /\ KeptClean(t, s)
    BY <1>1, <1>3, <1>8, Zenon DEF KeptLife, KeptTimed, KeptClean, At, Watchers, Cleaners, daemonVars, memoryVars
  <1>12. s \in containers /\ s \notin forfeited => tracked'[s] # 0 /\ KnownDue(s)'
    BY <1>3, <1>4, <1>6, <1>9, Zenon DEF KnownDue, Due, daemonVars, memoryVars
  <1>13. KeptDue(t, s)
    BY <1>2, <1>3, <1>5, <1>12, PromiseSet, Zenon DEF daemonVars
  <1>14. LifeAt(t, s)'
    BY <1>1, <1>2, <1>3, <1>8, Zenon DEF LifeAt, Renewing, daemonVars
  <1>15. DueThread(t, s)'
    BY <1>3, <1>6, <1>8, <1>9, Zenon DEF DueThread, DueAt, Removing, daemonVars, memoryVars
  <1> QED
    BY <1>2, <1>8, <1>10, <1>11, <1>13, <1>14, <1>15, WorkStep, Zenon

\* The label follows if it can, and the time becomes the promise.
LEMMA RenewLabelStep ==
    ASSUME DockerInv, NEW t \in Threads, NEW s, s = thread[t].on, RenewLabel(t)
    PROVE  DockerInv'
  <1>1. thread[t].at = "label" /\ thread[t].at \notin Unoccupied
    BY Zenon DEF RenewLabel, Unoccupied, MainLoop
  <1>2. /\ TypeOK /\ s \in Sandboxes
        /\ thread[Main].at # "list" /\ (t = Main => thread[Main].at # "serving")
        /\ LifeOf(s) /\ DueOf(s) /\ LifeAt(t, s)
    BY <1>1, AtWork, Zenon
  <1>3. Moves(t, s) /\ thread'[t].on # s
    BY <1>2, IsDone, Zenon DEF RenewLabel
  <1>4. thread[t].exp \in 0 .. MaxTime /\ thread[t].exp # 0 /\ (s \in containers => label[s] # 0)
    BY <1>1, <1>2, Types, Zenon DEF ThreadRecord, LifeAt, Renewing
  <1>5. UNCHANGED <<now, containers, sidecar, file, memoryVars, deferred,
                    used, unsaved, forfeited, dropped, blind, crashes>>
    BY Zenon DEF RenewLabel
  <1>6. label' = label \/ (s \in containers /\ label' = [label EXCEPT ![s] = thread[t].exp])
    BY Zenon DEF RenewLabel, Exists
  <1>7. \/ promised' = promised
        \/ s \in containers /\ s \notin forfeited /\ promised' = [promised EXCEPT ![s] = thread[t].exp]
    BY Zenon DEF RenewLabel, Exists
  <1>8. Touches(s)
    BY <1>2, <1>4, <1>5, <1>6, <1>7, Types DEF Touches, CellsOK, Same, memoryVars
  <1>9. KeptLife(s) /\ KeptTimed(t, s) /\ KeptClean(t, s)
    <2>1. s \in containers => label'[s] # 0
      BY <1>2, <1>4, <1>6, Types, Zenon
    <2> QED
      BY <1>1, <1>4, <1>5, <2>1, Zenon DEF KeptLife, KeptTimed, KeptClean, At, Watchers, Cleaners, memoryVars
  <1>10. KeptDue(t, s)
    <2>1. At(t, s, Setting)
      BY <1>1, Zenon DEF At, Setting
    <2>2. ASSUME s \in containers, s \notin forfeited PROVE tracked'[s] # 0 /\ KnownDue(s)'
      <3>1. tracked[s] = thread[t].exp /\ promised[s] <= thread[t].exp /\ KnownDue(s)
        BY <1>1, <1>2, <2>2, Zenon DEF DueOf, DueAt
      <3>2. s \in unsaved \/ file[s] = thread[t].exp
        BY <1>1, <1>2, <2>2, Zenon DEF DueOf, DueAt
      <3>3. label'[s] = label[s] \/ label'[s] = thread[t].exp
        BY <1>2, <1>6, Types, Zenon
      <3>4. promised'[s] = promised[s] \/ promised'[s] = thread[t].exp
        BY <1>2, <1>7, Types, Zenon
      <3> QED
        BY <1>4, <1>5, <3>1, <3>2, <3>3, <3>4 DEF KnownDue, Due, memoryVars
    <2> QED
      BY <1>2, <1>5, <1>7, <2>1, <2>2, PromiseSet, Zenon
  <1> QED
    BY <1>2, <1>3, <1>8, <1>9, <1>10, WorkStep, Zenon

\* The callback looks for the container: it finds it, or removes its traces, or
\* tries again later, or leaves the sandbox to the timer of a renewal.
LEMMA ExpireFetchStep ==
    ASSUME DockerInv, NEW t \in Threads, NEW s, s = thread[t].on, ExpireFetch(t)
    PROVE  DockerInv'
  <1>1. thread[t].at = "fetch" /\ thread[t].at \notin Unoccupied
    BY Zenon DEF ExpireFetch, Unoccupied, MainLoop
  <1>2. /\ TypeOK /\ s \in Sandboxes
        /\ thread[Main].at # "list" /\ (t = Main => thread[Main].at # "serving")
        /\ LifeOf(s) /\ DueOf(s) /\ LifeAt(t, s)
    BY <1>1, AtWork, Zenon
  <1>3. UNCHANGED <<now, daemonVars, file, deferred, used, promised, unsaved, forfeited, blind, crashes>>
    BY Zenon DEF ExpireFetch
  <1>4. CASE Exists(s) /\ Start(t, "check", s, label[s]) /\ UNCHANGED <<memoryVars, dropped>>
    <2>1. label[s] \in 0 .. MaxTime
      BY <1>2, Types, Zenon
    <2>2. Moves(t, s) /\ thread'[t].at = "check" /\ thread'[t].on = s /\ thread'[t].exp = label[s]
      BY <1>2, <1>4, <2>1, TurnsTo DEF Places, Unoccupied, MainLoop
    <2>3. Touches(s)
      BY <1>2, <1>3, <1>4, Types, Zenon DEF Touches, CellsOK, Same, daemonVars, memoryVars
    <2>4. KeptLife(s) /\ KeptTimed(t, s) /\ KeptClean(t, s)
      BY <1>3, <1>4, <2>2, Zenon DEF KeptLife, KeptTimed, KeptClean, At, Watchers, Exists, daemonVars
    <2>5. KeptDue(t, s)
      BY <1>2, <1>3, <1>4, <2>2, PromiseKept, Zenon DEF At, Setting, Undisturbed, daemonVars, memoryVars
    <2>6. LifeAt(t, s)'
      BY <2>2, Zenon DEF LifeAt, Renewing
    <2>7. DueThread(t, s)'
      BY <1>1, <1>2, <1>3, <1>4, <2>2, Zenon DEF DueThread, DueOf, DueAt, Due, Removing, Exists, daemonVars, memoryVars
    <2> QED
      BY <1>2, <2>2, <2>3, <2>4, <2>5, <2>6, <2>7, WorkStep, Zenon
  <1>5. CASE ~Exists(s) /\ RemoveExpirationTracking(s) /\ Goto(t, "forget") /\ UNCHANGED dropped
    <2>1. Moves(t, s) /\ thread'[t].at = "forget" /\ thread'[t].on = s
      BY <1>1, <1>5, GoesOn, Zenon DEF Places, Unoccupied, MainLoop
    <2>2. s \notin containers' /\ s \notin containers
      BY <1>3, <1>5, Zenon DEF Exists, daemonVars
    <2>3. Touches(s)
      BY <1>2, <1>3, <1>5, Types DEF RemoveExpirationTracking, Touches, CellsOK, Same, daemonVars
    <2>4. KeptLife(s) /\ KeptTimed(t, s) /\ KeptClean(t, s)
      BY <1>1, <1>3, <1>5, <2>1, <2>2, Zenon DEF KeptLife, KeptTimed, KeptClean, At, Cleaners, daemonVars
    <2>5. KeptDue(t, s)
      BY <1>2, <1>3, <2>2, Zenon DEF KeptDue, DueOf
    <2>6. LifeAt(t, s)' /\ DueThread(t, s)'
      BY <2>1, <2>2, Zenon DEF LifeAt, Renewing, DueThread
    <2> QED
      BY <1>2, <2>1, <2>3, <2>4, <2>5, <2>6, WorkStep, Zenon
  <1>6. CASE Retry(s) /\ Return(t) /\ UNCHANGED dropped
    <2>1. Moves(t, s) /\ thread'[t].on # s
      BY <1>2, <1>6, IsDone, Zenon
    <2>2. Smaller(now + 1, MaxTime) \in 1 .. MaxTime
      BY <1>2, BoundsAreNat, Types DEF Smaller
    <2>3. timer' = [timer EXCEPT ![s] = Smaller(now + 1, MaxTime)] /\ tracked' = tracked
      BY <1>6, Zenon DEF Retry, Schedule
    <2>4. timer'[s] # 0
      BY <1>2, <2>2, <2>3, Types
    <2>5. Touches(s)
      BY <1>2, <1>3, <1>6, <2>2, <2>3, Types DEF Touches, CellsOK, Same, daemonVars
    <2>6. KeptLife(s) /\ KeptTimed(t, s) /\ KeptClean(t, s)
      BY <1>1, <1>3, <1>6, <2>4, Zenon DEF KeptLife, KeptTimed, KeptClean, At, Cleaners, daemonVars
    <2>7. KeptDue(t, s)
      <3>1. s \in containers /\ s \notin forfeited => Due(s)
        BY <1>1, <1>2, Zenon DEF DueOf, DueAt
      <3> QED
        BY <1>2, <1>3, <2>1, <2>3, <3>1, PromiseKept, Zenon DEF At, Undisturbed, daemonVars
    <2> QED
      BY <1>2, <2>1, <2>5, <2>6, <2>7, WorkStep, Zenon
  <1>7. CASE /\ dropped' = (IF timer[s] = 0 THEN dropped \cup {s} ELSE dropped)
             /\ Return(t) /\ UNCHANGED memoryVars
    <2>1. Moves(t, s) /\ thread'[t].on # s
      BY <1>2, <1>7, IsDone, Zenon
    <2>2. Touches(s)
      BY <1>2, <1>3, <1>7, Types, Zenon DEF Touches, CellsOK, Same, daemonVars, memoryVars
    <2>3. KeptLife(s) /\ KeptTimed(t, s) /\ KeptClean(t, s)
      BY <1>1, <1>3, <1>7, Zenon DEF KeptLife, KeptTimed, KeptClean, At, Cleaners, daemonVars, memoryVars
    <2>4. KeptDue(t, s)
      BY <1>2, <1>3, <1>7, <2>1, PromiseKept, Zenon DEF At, Undisturbed, daemonVars, memoryVars
    <2> QED
      BY <1>2, <2>1, <2>2, <2>3, <2>4, WorkStep, Zenon
  <1> QED
    BY <1>4, <1>5, <1>6, <1>7, Zenon DEF ExpireFetch

\* At most the promise for s is given up
ForfeitsAtMost(s) == \E S \in SUBSET {s} : Forfeit(S)

\* A thread turns to its next statement about s; at most the promise is forfeited.
LEMMA TurnStep ==
    ASSUME DockerInv, NEW t \in Threads, NEW s \in Sandboxes,
           thread[Main].at # "list", t = Main => thread[Main].at # "serving",
           thread[t].on = s \/ (thread[t].on = NoSandbox /\ ~Unborn(s)),
           NEW place \in Places \ Unoccupied, NEW e \in 0 .. MaxTime, Start(t, place, s, e),
           UNCHANGED <<now, daemonVars, file, memoryVars, deferred, used, dropped, blind, crashes>>,
           ForfeitsAtMost(s),
           At(t, s, Watchers) => place \in Watchers,
           At(t, s, Cleaners) => place \in Cleaners,
           place \in {"candidate", "reschedule", "rearm", "remove"},
           place = "reschedule" =>
              label[s] # 0 /\ (s \in forfeited' \/ (Setters(s) = {} /\ promised[s] <= e)),
           place \in {"reschedule", "rearm"} => e # 0,
           place = "rearm" => At(t, s, {"check"}),
           place = "remove" => s \in forfeited'
    PROVE  DockerInv'
  <1>0. PICK S \in SUBSET {s} : Forfeit(S)
    BY Zenon DEF ForfeitsAtMost
  <1>1. TypeOK /\ LifeOf(s) /\ DueOf(s)
    BY Zenon DEF DockerInv, LifeInv, DueInv, ThreadsInv
  <1>2. Moves(t, s) /\ thread'[t].at = place /\ thread'[t].on = s /\ thread'[t].exp = e
    BY <1>1, TurnsTo, Zenon
  <1>3. Touches(s)
    BY <1>0, <1>1, Forfeiting, Types, Zenon DEF Touches, CellsOK, Same, daemonVars, memoryVars
  <1>4. KeptLife(s) /\ KeptTimed(t, s) /\ KeptClean(t, s)
    BY <1>2, Zenon DEF KeptLife, KeptTimed, KeptClean, At, daemonVars, memoryVars
  <1>5. KeptDue(t, s)
    <2>1. Undisturbed(s) \/ (s \in forfeited' /\ promised'[s] = 0)
      BY <1>0, <1>1, Forfeiting, Zenon
    <2> QED
      BY <1>1, <1>2, <2>1, PromiseKept, Zenon DEF At, Setting, daemonVars, memoryVars
  <1>6. LifeAt(t, s)'
    BY <1>2, Zenon DEF LifeAt, Renewing, daemonVars
  <1>7. DueThread(t, s)'
    <2>1. s \notin forfeited' => Undisturbed(s)
      BY <1>0, <1>1, Forfeiting, Zenon
    <2>2. At(t, s, {"check"}) /\ s \in containers /\ s \notin forfeited => Due(s)
      BY <1>1, Zenon DEF At, DueOf, DueAt
    <2>3. place = "rearm" /\ s \in containers' /\ s \notin forfeited' => Due(s)'
      BY <2>1, <2>2, Zenon DEF Due, Undisturbed, daemonVars, memoryVars
    <2>4. place = "reschedule" /\ s \notin forfeited' => promised'[s] <= e
      BY <2>1, Zenon DEF Undisturbed
    <2> QED
      BY <1>2, <2>3, <2>4, Zenon DEF DueThread, DueAt, Removing
  <1> QED
    BY <1>2, <1>3, <1>4, <1>5, <1>6, <1>7, WorkStep, Zenon

\* The callback compares the expiration with the clock.
LEMMA ExpireCheckStep ==
    ASSUME DockerInv, NEW t \in Threads, NEW s, s = thread[t].on, ExpireCheck(t)
    PROVE  DockerInv'
  <1>1. thread[t].at = "check" /\ thread[t].at \notin Unoccupied
    BY Zenon DEF ExpireCheck, Unoccupied, MainLoop
  <1>2. /\ TypeOK /\ s \in Sandboxes
        /\ thread[Main].at # "list" /\ (t = Main => thread[Main].at # "serving")
    BY <1>1, AtWork, Zenon
  <1>3. UNCHANGED <<now, daemonVars, file, memoryVars, deferred, used, dropped, blind, crashes>>
    BY Zenon DEF ExpireCheck
  <1>4. {"rearm", "remove"} \subseteq (Places \ Unoccupied) \cap Watchers /\ ~At(t, s, Cleaners)
    BY <1>1, Zenon DEF Places, Unoccupied, MainLoop, Watchers, At, Cleaners
  <1>5. PICK saved \in Reads(s) :
           LET current == TrackedExpiration(s, saved, thread[t].exp)
           IN \/ current > now /\ Start(t, "rearm", s, current) /\ Forfeit({})
              \/ current <= now /\ Start(t, "remove", s, 0) /\ Forfeit({s})
    BY Zenon DEF ExpireCheck
  <1> DEFINE current == TrackedExpiration(s, saved, thread[t].exp)
  <1>6. current \in 0 .. MaxTime /\ now \in Nat /\ 0 \in 0 .. MaxTime
    BY <1>2, Types DEF TrackedExpiration, ThreadRecord, Reads
  <1>7. At(t, s, {"check"})
    BY <1>1, Zenon DEF At
  <1> HIDE DEF current
  <1>8. CASE current > now /\ Start(t, "rearm", s, current) /\ Forfeit({})
    <2>1. current # 0
      BY <1>6, <1>8
    <2>2. ForfeitsAtMost(s)
      BY <1>8, Zenon DEF ForfeitsAtMost
    <2> QED
      BY <1>2, <1>3, <1>4, <1>6, <1>7, <1>8, <2>1, <2>2, TurnStep, Zenon
  <1>9. CASE Start(t, "remove", s, 0) /\ Forfeit({s})
    <2>1. ForfeitsAtMost(s) /\ s \in forfeited'
      BY <1>9, Zenon DEF ForfeitsAtMost, Forfeit
    <2> QED
      BY <1>2, <1>3, <1>4, <1>6, <1>9, <2>1, TurnStep, Zenon
  <1> QED
    BY <1>5, <1>8, <1>9, Zenon DEF current

\* A renewal of an existing sandbox that expires begins.
LEMMA RenewBegins ==
    ASSUME DockerInv, NEW t \in Threads, NEW s \in Sandboxes, NEW new \in 0 .. MaxTime,
           thread[Main].at # "list", t = Main => thread[Main].at # "serving",
           thread[t].on \in {s, NoSandbox}, ~At(t, s, Watchers), ~At(t, s, Cleaners),
           RenewBegin(t, s, new),
           UNCHANGED <<now, daemonVars, file, memoryVars, deferred, used, dropped, blind, crashes>>,
           ForfeitsAtMost(s), s \in forfeited' \/ (Setters(s) = {} /\ promised[s] <= new)
    PROVE  DockerInv'
  <1>1. s \in containers /\ label[s] # 0 /\ ~Unborn(s)
    BY Zenon DEF RenewBegin, Exists, Unborn
  <1>2. now \in Nat /\ MaxTime \in Nat
    BY Types, Zenon DEF DockerInv, LifeInv, ThreadsInv
  <1>3. new # 0
    BY <1>2 DEF RenewBegin
  <1>4. "reschedule" \in Places \ Unoccupied
    BY Zenon DEF Places, Unoccupied, MainLoop
  <1>5. Start(t, "reschedule", s, new)
    BY Zenon DEF RenewBegin
  <1> QED
    BY <1>1, <1>3, <1>4, <1>5, TurnStep, Zenon

\* What is known of an idle thread.
LEMMA AtRest ==
    ASSUME DockerInv, NEW t \in Threads, thread[t] = Idle
    PROVE  /\ ThreadsInv /\ TypeOK /\ t # Main
           /\ thread[t].on = NoSandbox
           /\ \A s \in Sandboxes : thread[t].on # s /\ ~At(t, s, Watchers) /\ ~At(t, s, Cleaners)
           /\ Serving => thread[Main].at # "list"
  <1>1. ThreadsInv /\ TypeOK
    BY Zenon DEF DockerInv, LifeInv, ThreadsInv
  <1>2. thread[t].at = "idle" /\ thread[t].on = NoSandbox
    BY DEF Idle
  <1>3. t # Main
    BY <1>1, <1>2, Types, Zenon
  <1> QED
    BY <1>1, <1>2, <1>3, Types, Zenon DEF At, Serving

\* A renewal by the API, which lowers the promise if it asks for less.
LEMMA RenewFetchStep ==
    ASSUME DockerInv, NEW t \in Threads, NEW s \in Sandboxes, NEW e \in Times, RenewFetch(t, s, e)
    PROVE  DockerInv'
  <1>1. thread[t] = Idle /\ Serving /\ RenewBegin(t, s, e)
    BY Zenon DEF RenewFetch
  <1>2. e \in 0 .. MaxTime /\ e # 0
    BY DEF Times
  <1>3. UNCHANGED <<now, daemonVars, file, memoryVars, deferred, used, dropped, blind, crashes>>
    BY Zenon DEF RenewFetch
  <1>4. CASE Setters(s) # {} /\ Forfeit({s})
    <2>1. ForfeitsAtMost(s) /\ s \in forfeited'
      BY <1>4, Zenon DEF ForfeitsAtMost, Forfeit
    <2> QED
      BY <1>1, <1>2, <1>3, <2>1, AtRest, RenewBegins, Zenon
  <1>5. CASE /\ Setters(s) = {}
             /\ promised' = [promised EXCEPT ![s] = Smaller(@, e)]
             /\ UNCHANGED <<unsaved, forfeited>>
    <2>1. TypeOK /\ LifeOf(s) /\ DueOf(s) /\ thread[t].on = NoSandbox /\ thread[t].on # s
          /\ t # Main /\ thread[Main].at # "list"
          /\ ~At(t, s, Watchers) /\ ~At(t, s, Cleaners)
      BY <1>1, AtRest, Zenon DEF DockerInv, LifeInv, DueInv
    <2>2. s \in containers /\ label[s] # 0 /\ ~Unborn(s) /\ Start(t, "reschedule", s, e)
      BY <1>1, Zenon DEF RenewBegin, Exists, Unborn
    <2>3. "reschedule" \in Places \ Unoccupied
      BY Zenon DEF Places, Unoccupied, MainLoop
    <2>4. Moves(t, s) /\ thread'[t].at = "reschedule" /\ thread'[t].on = s /\ thread'[t].exp = e
      BY <1>2, <2>1, <2>2, <2>3, TurnsTo, Zenon
    <2>5. promised'[s] <= promised[s] /\ promised'[s] <= e /\ promised'[s] \in 0 .. MaxTime
          /\ promised' \in [Sandboxes -> 0 .. MaxTime]
          /\ \A r \in Sandboxes \ {s} : promised'[r] = promised[r]
      <3>1. promised \in [Sandboxes -> 0 .. MaxTime] /\ MaxTime \in Nat
        BY <2>1, Types, BoundsAreNat, Zenon
      <3>2. Smaller(promised[s], e) \in 0 .. MaxTime
            /\ Smaller(promised[s], e) <= promised[s] /\ Smaller(promised[s], e) <= e
        BY <1>2, <3>1 DEF Smaller
      <3> QED
        BY <1>5, <3>1, <3>2, Zenon
    <2>6. Touches(s)
      BY <1>3, <1>5, <2>1, <2>5, Types, Zenon DEF Touches, CellsOK, Same, daemonVars, memoryVars
    <2>7. KeptLife(s) /\ KeptTimed(t, s) /\ KeptClean(t, s)
      BY <1>3, <2>1, <2>4, Zenon DEF KeptLife, KeptTimed, KeptClean, At, daemonVars, memoryVars
    <2>8. LifeAt(t, s)'
      BY <1>2, <1>3, <2>2, <2>4, Zenon DEF LifeAt, Renewing, daemonVars
    <2>9. DueThread(t, s)'
      BY <2>4, <2>5, Zenon DEF DueThread, DueAt, Removing
    <2>10. KeptDue(t, s)
      <3>1. now \in Nat /\ tracked[s] \in Nat /\ file[s] \in Nat /\ label[s] \in Nat
            /\ promised[s] \in Nat /\ promised'[s] \in Nat
        BY <2>1, <2>5, Types, BoundsAreNat
      <3>2. UNCHANGED <<now, containers, label, file, tracked, timer, deferred>>
        BY <1>3, Zenon DEF daemonVars, memoryVars
      <3>3. Due(s) => Due(s)'
        BY <2>5, <3>1, <3>2 DEF Due
      <3>4. KnownDue(s) => KnownDue(s)'
        BY <1>5, <2>5, <3>1, <3>2, <3>3 DEF KnownDue
      <3>5. s \notin forfeited => KnownDue(s)
        BY <2>1, <2>2, Zenon DEF DueOf
      <3>6. s \in forfeited => promised'[s] = 0
        BY <2>1, <2>5, <3>1 DEF DueOf
      <3> QED
        BY <1>5, <2>2, <3>2, <3>3, <3>4, <3>5, <3>6, Zenon DEF KeptDue
    <2> QED
      BY <2>1, <2>2, <2>4, <2>6, <2>7, <2>8, <2>9, <2>10, WorkStep, Zenon
  <1> QED
    BY <1>4, <1>5, Zenon DEF RenewFetch

\* The access controller reads the sandbox.
LEMMA AccessReadStep ==
    ASSUME DockerInv, NEW t \in Threads, NEW s \in Sandboxes, AccessRead(t, s)
    PROVE  DockerInv'
  <1>1. thread[t] = Idle /\ Serving /\ ~Unborn(s)
    BY Zenon DEF AccessRead, Exists, Unborn
  <1>2. PICK saved \in Reads(s) : Start(t, "candidate", s, TrackedExpiration(s, saved, label[s]))
    BY Zenon DEF AccessRead
  <1>3. TypeOK
    BY <1>1, AtRest, Zenon
  <1>4. TrackedExpiration(s, saved, label[s]) \in 0 .. MaxTime
    BY <1>3, Types DEF TrackedExpiration, Reads
  <1>5. "candidate" \in Places \ Unoccupied
    BY Zenon DEF Places, Unoccupied, MainLoop
  <1>6. /\ UNCHANGED <<now, daemonVars, file, memoryVars, deferred, used, dropped, blind, crashes>>
        /\ UNCHANGED <<promised, unsaved, forfeited>>
    BY Zenon DEF AccessRead, historyVars
  <1>7. ForfeitsAtMost(s)
    BY <1>3, <1>6, NothingForfeited, Zenon DEF ForfeitsAtMost
  <1> QED
    BY <1>1, <1>2, <1>4, <1>5, <1>6, <1>7, AtRest, TurnStep, Zenon

\* A deletion finds its container.
LEMMA DeleteFetchStep ==
    ASSUME DockerInv, NEW t \in Threads, NEW s \in Sandboxes, DeleteFetch(t, s)
    PROVE  DockerInv'
  <1>1. thread[t] = Idle /\ Serving /\ ~Unborn(s)
    BY Zenon DEF DeleteFetch, Exists, Unborn
  <1>2. 0 \in 0 .. MaxTime
    BY BoundsAreNat
  <1>3. "remove" \in Places \ Unoccupied
    BY Zenon DEF Places, Unoccupied, MainLoop
  <1>4. Start(t, "remove", s, 0) /\ Forfeit({s})
    BY Zenon DEF DeleteFetch
  <1>5. UNCHANGED <<now, daemonVars, file, memoryVars, deferred, used, dropped, blind, crashes>>
    BY Zenon DEF DeleteFetch
  <1>6. ForfeitsAtMost(s) /\ s \in forfeited'
    BY <1>4, Zenon DEF ForfeitsAtMost, Forfeit
  <1> QED
    BY <1>1, <1>2, <1>3, <1>4, <1>5, <1>6, AtRest, TurnStep, Zenon

\* The access controller asks for its renewal, or finds nothing to renew.
LEMMA AccessCandidateStep ==
    ASSUME DockerInv, NEW t \in Threads, NEW s, s = thread[t].on, AccessCandidate(t)
    PROVE  DockerInv'
  <1> DEFINE new == Larger(thread[t].exp, Smaller(now + Extend, MaxTime))
  <1>1. thread[t].at = "candidate" /\ thread[t].at \notin Unoccupied
    BY Zenon DEF AccessCandidate, Unoccupied, MainLoop
  <1>2. /\ TypeOK /\ s \in Sandboxes
        /\ thread[Main].at # "list" /\ (t = Main => thread[Main].at # "serving")
        /\ DueOf(s)
    BY <1>1, AtWork, Zenon
  <1>3. UNCHANGED <<now, daemonVars, file, memoryVars, deferred, used, dropped, blind, crashes>>
    BY Zenon DEF AccessCandidate
  <1>4. ~At(t, s, Watchers) /\ ~At(t, s, Cleaners)
    BY <1>1, Zenon DEF At, Watchers, Cleaners
  <1>5. CASE /\ RenewBegin(t, s, new)
             /\ Forfeit({x \in {s} : Setters(s) # {} \/ new < promised[s]})
    <2>1. thread[t].exp \in 0 .. MaxTime /\ now \in 0 .. MaxTime
      BY <1>2, Types, Zenon DEF ThreadRecord
    <2>2. new \in 0 .. MaxTime
      BY <2>1, BoundsAreNat DEF Larger, Smaller
    <2> HIDE DEF new
    <2>3. ~(new < promised[s]) => promised[s] <= new
      BY <1>2, <2>2, Types, BoundsAreNat
    <2>4. ForfeitsAtMost(s) /\ (s \in forfeited' \/ (Setters(s) = {} /\ promised[s] <= new))
      BY <1>5, <2>3, Zenon DEF ForfeitsAtMost, Forfeit
    <2> QED
      BY <1>2, <1>3, <1>4, <1>5, <2>2, <2>4, RenewBegins, Zenon
  <1>6. CASE Return(t) /\ Forfeit({})
    <2>1. Moves(t, s) /\ thread'[t].on # s
      BY <1>2, <1>6, IsDone, Zenon
    <2>2. Touches(s)
      BY <1>2, <1>3, <1>6, Forfeiting, Types, Zenon DEF Touches, CellsOK, Same, daemonVars, memoryVars
    <2>3. KeptLife(s) /\ KeptTimed(t, s) /\ KeptClean(t, s)
      BY <1>3, <1>4, Zenon DEF KeptLife, KeptTimed, KeptClean, daemonVars, memoryVars
    <2>4. KeptDue(t, s)
      <3>1. Undisturbed(s)
        BY <1>2, <1>6, Types, Zenon DEF Forfeit, Undisturbed
      <3> QED
        BY <1>2, <1>3, <2>1, <3>1, PromiseKept, Zenon DEF At, daemonVars, memoryVars
    <2> QED
      BY <1>2, <2>1, <2>2, <2>3, <2>4, WorkStep, Zenon
  <1> QED
    BY <1>5, <1>6, Zenon DEF AccessCandidate

\* A timer's thread, or the restoration, takes up a sandbox that is due.
LEMMA FetchStep ==
    ASSUME DockerInv, NEW t \in Threads, NEW s \in Sandboxes,
           thread[Main].at # "list", t = Main => thread[Main].at # "serving",
           thread[t].on = NoSandbox, ~Unborn(s), Start(t, "fetch", s, 0),
           UNCHANGED <<now, daemonVars, file, tracked, historyVars>>,
           timer[s] # 0 \/ s \in deferred,
           \/ timer' = [timer EXCEPT ![s] = 0] /\ deferred' = deferred
           \/ timer' = timer /\ deferred' = deferred \ {s}
    PROVE  DockerInv'
  <1>1. TypeOK /\ LifeOf(s) /\ DueOf(s) /\ thread[t].on # s
    BY Types, Zenon DEF DockerInv, LifeInv, DueInv, ThreadsInv
  <1>2. 0 \in 0 .. MaxTime /\ "fetch" \in Places \ Unoccupied
    BY BoundsAreNat DEF Places, Unoccupied, MainLoop
  <1>3. Moves(t, s) /\ thread'[t].at = "fetch" /\ thread'[t].on = s
    BY <1>1, <1>2, TurnsTo, Zenon
  <1>4. Touches(s)
    BY <1>1, <1>2, Types DEF Touches, CellsOK, Same, daemonVars, historyVars
  <1>5. KeptLife(s) /\ KeptTimed(t, s) /\ KeptClean(t, s)
    BY <1>1, <1>3, Zenon DEF KeptLife, KeptTimed, KeptClean, At, Watchers, daemonVars, historyVars
  <1>6. KeptDue(t, s)
    <2>1. timer'[s] # 0 => timer[s] # 0
      BY <1>1, Types, Zenon
    <2> QED
      BY <1>1, <1>3, <2>1, PromiseKept, Zenon DEF At, Setting, Undisturbed, daemonVars, historyVars
  <1>7. LifeAt(t, s)' /\ DueThread(t, s)'
    <2>1. s \in containers' /\ s \notin forfeited' => Due(s)'
      BY <1>1, Zenon DEF DueOf, KnownDue, Due, daemonVars, historyVars
    <2> QED
      BY <1>3, <2>1, Zenon DEF LifeAt, Renewing, DueThread, DueAt, Removing
  <1> QED
    BY <1>1, <1>3, <1>4, <1>5, <1>6, <1>7, WorkStep, Zenon

\* A due timer fires.
LEMMA FireStep ==
    ASSUME DockerInv, NEW t \in Threads, NEW s \in Sandboxes, Fire(t, s)
    PROVE  DockerInv'
  <1>1. thread[t] = Idle /\ timer[s] # 0 /\ ~Unborn(s)
    BY Zenon DEF Fire, Unborn
  <1>2. thread[Main].at # "list"
    BY <1>1, Zenon DEF DockerInv, LifeInv, ThreadsInv
  <1> QED
    BY <1>1, <1>2, AtRest, FetchStep, Zenon DEF Fire

\* The restoration expires the next sandbox that is overdue.
LEMMA RestoreExpiredStep ==
    ASSUME DockerInv, RestoreExpired
    PROVE  DockerInv'
  <1>1. PICK s \in deferred : deferred' = deferred \ {s} /\ Start(Main, "fetch", s, 0)
    BY Zenon DEF RestoreExpired
  <1>2. ThreadsInv /\ TypeOK
    BY Zenon DEF DockerInv, LifeInv, ThreadsInv
  <1>3. Main \in Threads /\ s \in Sandboxes /\ ~Unborn(s)
    BY <1>2, Types, Zenon DEF Unborn
  <1>4. thread[Main].at = "expired" /\ thread[Main].on = NoSandbox
    BY <1>2, <1>3, Zenon DEF RestoreExpired, ThreadsInv, Unoccupied, MainLoop
  <1>5. UNCHANGED <<now, daemonVars, file, tracked, historyVars>> /\ timer' = timer
    BY Zenon DEF RestoreExpired, memoryVars
  <1> QED
    BY <1>1, <1>3, <1>4, <1>5, FetchStep, Zenon

\* The sidecar starts before the container is created.
LEMMA CreateSidecarStep ==
    ASSUME DockerInv, NEW t \in Threads, NEW s, s = thread[t].on, CreateSidecar(t)
    PROVE  DockerInv'
  <1>1. thread[t].at = "provision" /\ thread[t].at \notin Unoccupied
    BY Zenon DEF CreateSidecar, Unoccupied, MainLoop
  <1>2. /\ TypeOK /\ s \in Sandboxes
        /\ thread[Main].at # "list" /\ (t = Main => thread[Main].at # "serving")
        /\ LifeOf(s) /\ DueOf(s) /\ LifeAt(t, s)
    BY <1>1, AtWork, Zenon
  <1>3. UNCHANGED <<now, containers, label, file, memoryVars, deferred,
                    used, promised, unsaved, forfeited, blind, crashes>>
    BY Zenon DEF CreateSidecar
  <1>4. Unborn(s) /\ s \notin sidecar /\ s \notin containers
    BY <1>1, <1>2, Zenon DEF LifeAt, Unborn
  <1>5. CASE sidecar' = sidecar \cup ({s} \cap WithSidecar) /\ Goto(t, "create") /\ UNCHANGED dropped
    <2>1. Moves(t, s) /\ thread'[t].at = "create" /\ thread'[t].on = s /\ thread'[t].exp = thread[t].exp
      BY <1>1, <1>5, GoesOn, Zenon DEF Places, Unoccupied, MainLoop
    <2>2. Touches(s)
      BY <1>2, <1>3, <1>5, Types, Zenon DEF Touches, CellsOK, Same, memoryVars
    <2>3. KeptLife(s) /\ KeptTimed(t, s) /\ KeptClean(t, s)
      BY <1>3, <1>4, <1>5, <2>1, Zenon DEF KeptLife, KeptTimed, KeptClean, At, Cleaners
    <2>4. KeptDue(t, s)
      BY <1>2, <1>3, <1>4, Zenon DEF KeptDue, DueOf
    <2>5. Unborn(s)' /\ \A u \in Threads \ {t} : thread'[u].on # s
      BY <1>1, <1>2, <1>3, <1>4, <2>1, Zenon DEF LifeAt, Unborn, Moves, memoryVars
    <2>6. LifeAt(t, s)'
      BY <2>1, <2>5, Zenon DEF LifeAt, Renewing
    <2>7. DueThread(t, s)'
      BY <1>1, <1>2, <1>3, <1>4, <2>1, Zenon DEF DueThread, DueOf
    <2> QED
      BY <1>2, <2>1, <2>2, <2>3, <2>4, <2>6, <2>7, WorkStep, Zenon
  <1>6. CASE /\ UNCHANGED <<sidecar, dropped>> \/ (sidecar' = sidecar \cup {s} /\ dropped' = dropped \cup {s})
             /\ Return(t)
    <2>1. Moves(t, s) /\ thread'[t].on # s
      BY <1>2, <1>6, IsDone, Zenon
    <2>2. Touches(s)
      BY <1>2, <1>3, <1>6, Types, Zenon DEF Touches, CellsOK, Same, memoryVars
    <2>3. KeptLife(s) /\ KeptTimed(t, s) /\ KeptClean(t, s)
      BY <1>3, <1>4, <1>6, Zenon DEF KeptLife, KeptTimed, KeptClean
    <2>4. KeptDue(t, s)
      BY <1>2, <1>3, <1>4, Zenon DEF KeptDue, DueOf
    <2> QED
      BY <1>2, <2>1, <2>2, <2>3, <2>4, WorkStep, Zenon
  <1> QED
    BY <1>5, <1>6, Zenon DEF CreateSidecar

\* Only the thread that creates a sandbox knows of it before it exists.
LEMMA AloneStep ==
    ASSUME DockerInv, NEW t \in Threads, NEW s \in Sandboxes,
           thread[Main].at # "list", t = Main => thread[Main].at # "serving",
           thread[t].on \in {s, NoSandbox},
           \A u \in Threads \ {t} : thread[u].on # s,
           Moves(t, s), thread'[t].on = s, Touches(s),
           s \in used', LifeAt(t, s)', DueThread(t, s)',
           s \in containers' => (At(t, s, Watchers)' \/ s \in dropped') /\ KnownDue(s)',
           s \in forfeited' => promised'[s] = 0,
           s \in sidecar' => At(t, s, Cleaners)'
    PROVE  DockerInv'
  <1>1. ThreadsInv /\ TypeOK /\ Main \in Threads
    BY Types, Zenon DEF DockerInv, LifeInv, DueInv, ThreadsInv
  <1>2. Local(t, s)
    BY <1>1, Zenon DEF Local, Moves, Touches
  <1>3. now' \in 0 .. MaxTime /\ crashes' \in 0 .. MaxCrashes /\ CellsOK /\ deferred' \subseteq deferred
    BY <1>1, Types, Zenon DEF Touches
  <1>4. ThreadsInv'
    BY <1>1, <1>2, <1>3, ThreadsAfter, Zenon DEF Moves
  <1>5. \A u \in Threads : thread'[u].on = s => u = t
    BY Zenon DEF Moves
  <1>6. LifeOf(s)'
    BY <1>5, Zenon DEF LifeOf, On, At
  <1>7. \A u, v \in Setters(s)' : u = v
    BY <1>5, Zenon DEF Setters
  <1>8. DueOf(s)'
    BY <1>5, <1>7, Zenon DEF DueOf, DueThread, KnownDue
  <1> QED
    BY <1>2, <1>4, <1>6, <1>8, LocalStep, Zenon

\* A creation begins with an id that was never given out.
LEMMA CreateBeginStep ==
    ASSUME DockerInv, NEW t \in Threads, NEW s \in Sandboxes, NEW d \in Lifetimes, CreateBegin(t, s, d)
    PROVE  DockerInv'
  <1> DEFINE exp == IF d = 0 THEN 0 ELSE now + d
  <1>1. thread[t] = Idle /\ Serving /\ s \notin used
    BY Zenon DEF CreateBegin
  <1>2. TypeOK /\ t # Main /\ thread[t].on = NoSandbox /\ thread[Main].at # "list" /\ now \in Nat
    BY <1>1, AtRest, Types, Zenon
  <1>3. Unborn(s) /\ s \notin sidecar /\ \A u \in Threads : thread[u].on # s
    BY <1>1, Zenon DEF DockerInv, LifeInv, LifeOf
  <1>4. exp \in 0 .. MaxTime
    BY <1>2, BoundsAreNat DEF CreateBegin
  <1>5. Start(t, "provision", s, exp) /\ promised' = [promised EXCEPT ![s] = exp]
    BY Zenon DEF CreateBegin
  <1>6. /\ UNCHANGED <<now, daemonVars, file, memoryVars, deferred, unsaved, forfeited, dropped, blind, crashes>>
        /\ used' = used \cup {s}
    BY Zenon DEF CreateBegin
  <1> HIDE DEF exp
  <1>7. Moves(t, s) /\ thread'[t].at = "provision" /\ thread'[t].on = s /\ thread'[t].exp = exp
    BY <1>2, <1>4, <1>5, TurnsTo, Zenon DEF Places, Unoccupied, MainLoop
  <1>8. Touches(s)
    BY <1>2, <1>4, <1>5, <1>6, Types, Zenon DEF Touches, CellsOK, Same, daemonVars, memoryVars
  <1>9. Unborn(s)' /\ s \notin sidecar' /\ \A u \in Threads \ {t} : thread'[u].on # s
    BY <1>3, <1>6, <1>7, Zenon DEF Unborn, daemonVars, memoryVars, Moves
  <1>10. LifeAt(t, s)'
    BY <1>7, <1>9, Zenon DEF LifeAt, Renewing
  <1>11. promised'[s] = exp /\ s \notin containers' /\ s \in used' /\ s \notin forfeited'
    BY <1>1, <1>2, <1>5, <1>6, <1>9, Types, Zenon DEF Unborn, DockerInv, DueInv, DueOf
  <1>12. DueThread(t, s)'
    BY <1>7, <1>11, Zenon DEF DueThread
  <1> QED
    BY <1>2, <1>3, <1>7, <1>8, <1>9, <1>10, <1>11, <1>12, AloneStep, Zenon

\* The container is created with its label, or the creation is rolled back.
LEMMA CreateContainerStep ==
    ASSUME DockerInv, NEW t \in Threads, NEW s, s = thread[t].on, CreateContainer(t)
    PROVE  DockerInv'
  <1>1. thread[t].at = "create" /\ thread[t].at \notin Unoccupied
    BY Zenon DEF CreateContainer, Unoccupied, MainLoop
  <1>2. /\ TypeOK /\ s \in Sandboxes
        /\ thread[Main].at # "list" /\ (t = Main => thread[Main].at # "serving")
        /\ LifeOf(s) /\ DueOf(s) /\ LifeAt(t, s)
    BY <1>1, AtWork, Zenon
  <1>3. UNCHANGED <<now, sidecar, file, memoryVars, deferred, used, promised, unsaved, forfeited, blind, crashes>>
    BY Zenon DEF CreateContainer
  <1>4. Unborn(s) /\ s \in used /\ \A u \in Threads \ {t} : thread[u].on # s
    BY <1>1, <1>2, Zenon DEF LifeAt, LifeOf
  <1>5. thread[t].exp \in 0 .. MaxTime /\ promised[s] = thread[t].exp
    BY <1>1, <1>2, Types, Zenon DEF ThreadRecord, DueOf
  <1>6. CASE /\ containers' = containers \cup {s} /\ label' = [label EXCEPT ![s] = thread[t].exp]
             /\ \/ Goto(t, "start") /\ UNCHANGED dropped
                \/ Goto(t, "rollback") /\ dropped' = dropped \cup {s}
    <2>1. /\ Moves(t, s) /\ thread'[t].on = s /\ thread'[t].exp = thread[t].exp
          /\ thread'[t].at = "start" \/ (thread'[t].at = "rollback" /\ s \in dropped')
      BY <1>1, <1>6, GoesOn, Zenon DEF Places, Unoccupied, MainLoop
    <2>2. Touches(s)
      BY <1>2, <1>3, <1>5, <1>6, Types, Zenon DEF Touches, CellsOK, Same, memoryVars
    <2>3. label'[s] = thread[t].exp
      BY <1>2, <1>6, Types, Zenon
    <2>4. LifeAt(t, s)'
      BY <2>1, <2>3, Zenon DEF LifeAt, Renewing
    <2>5. /\ promised'[s] = thread[t].exp /\ file'[s] = 0 /\ tracked'[s] = 0 /\ timer'[s] = 0
          /\ s \notin deferred' /\ (s \in forfeited' => promised'[s] = 0)
      BY <1>2, <1>3, <1>4, <1>5, Zenon DEF Unborn, DueOf, memoryVars
    <2>6. KnownDue(s)' /\ DueThread(t, s)'
      BY <1>5, <2>1, <2>3, <2>5 DEF KnownDue, DueThread, DueAt, Removing
    <2>7. (At(t, s, Watchers)' \/ s \in dropped') /\ At(t, s, Cleaners)'
      BY <2>1, Zenon DEF At, Watchers, Cleaners
    <2>8. s \in used'
      BY <1>3, <1>4, Zenon
    <2> QED
      BY <1>2, <1>4, <2>1, <2>2, <2>4, <2>5, <2>6, <2>7, <2>8, AloneStep, Zenon
  <1>7. CASE UNCHANGED <<containers, label, dropped>> /\ Goto(t, "rollback")
    <2>1. Moves(t, s) /\ thread'[t].at = "rollback" /\ thread'[t].on = s
      BY <1>1, <1>7, GoesOn, Zenon DEF Places, Unoccupied, MainLoop
    <2>2. Touches(s)
      BY <1>2, <1>3, <1>7, Types, Zenon DEF Touches, CellsOK, Same, memoryVars
    <2>3. s \notin containers' /\ s \notin containers
      BY <1>4, <1>7, Zenon DEF Unborn
    <2>4. KeptLife(s) /\ KeptTimed(t, s) /\ KeptClean(t, s)
      BY <1>3, <1>7, <2>1, <2>3, Zenon DEF KeptLife, KeptTimed, KeptClean, At, Cleaners
    <2>5. KeptDue(t, s)
      BY <1>2, <1>3, <2>3, Zenon DEF KeptDue, DueOf
    <2>6. LifeAt(t, s)' /\ DueThread(t, s)'
      BY <2>1, <2>3, Zenon DEF LifeAt, Renewing, DueThread
    <2> QED
      BY <1>2, <2>1, <2>2, <2>4, <2>5, <2>6, WorkStep, Zenon
  <1> QED
    BY <1>6, <1>7, Zenon DEF CreateContainer

\* The clock moves and nothing else does.
LEMMA TickStep ==
    ASSUME DockerInv, Tick
    PROVE  DockerInv'
  <1>1. ThreadsInv /\ TypeOK
    BY Zenon DEF DockerInv, LifeInv, ThreadsInv
  <1>2. now' \in 0 .. MaxTime
    BY <1>1, Types DEF Tick
  <1>3. UNCHANGED <<daemonVars, file, memoryVars, thread, deferred, historyVars>>
    BY Zenon DEF Tick
  <1>4. TypeOK'
    BY <1>1, <1>2, <1>3, Zenon DEF TypeOK, daemonVars, memoryVars, historyVars
  <1>5. ThreadsInv'
    BY <1>1, <1>3, <1>4, Zenon DEF ThreadsInv, memoryVars, historyVars
  <1>6. ASSUME NEW s \in Sandboxes PROVE LifeOf(s)'
    <2>1. LifeOf(s)
      BY Zenon DEF DockerInv, LifeInv
    <2> QED
      BY <1>3, <2>1, Zenon DEF LifeOf, LifeAt, Unborn, On, Serving, daemonVars, memoryVars, historyVars
  <1>7. ASSUME NEW s \in Sandboxes PROVE DueOf(s)'
    <2>1. DueOf(s)
      BY Zenon DEF DockerInv, DueInv
    <2>2. /\ tracked' = tracked /\ timer' = timer /\ file' = file /\ label' = label /\ deferred' = deferred
          /\ promised' = promised /\ unsaved' = unsaved /\ forfeited' = forfeited /\ used' = used
          /\ containers' = containers /\ thread' = thread
      BY <1>3, Zenon DEF daemonVars, memoryVars, historyVars
    <2>3. Due(s) => Due(s)'
      <3>1. promised[s] \in Nat /\ now \in Nat /\ now' = now + 1
        BY <1>1, Types DEF Tick
      <3> QED
        BY <2>2, <3>1 DEF Due
    <2>4. KnownDue(s) => KnownDue(s)'
      BY <2>2, <2>3, Zenon DEF KnownDue
    <2>5. \A t \in Threads : DueAt(t, s) => DueAt(t, s)'
      BY <2>2, <2>3, Zenon DEF DueAt
    <2>6. Setters(s)' = Setters(s)
      BY <2>2, Zenon DEF Setters
    <2> QED
      BY <2>1, <2>2, <2>4, <2>5, <2>6, Zenon DEF DueOf
  <1> QED
    BY <1>5, <1>6, <1>7, Zenon DEF DockerInv, LifeInv, DueInv

\* The state of a server that has just died, or has never run: what is known of
\* a sandbox is what the daemon and the file hold
NothingRuns ==
    /\ TypeOK
    /\ thread = [t \in Threads |-> IF t = Main THEN Loop("list") ELSE Idle]
    /\ tracked = [s \in Sandboxes |-> 0] /\ timer = [s \in Sandboxes |-> 0] /\ deferred = {}
    /\ \A s \in Sandboxes : s \notin used =>
          s \notin containers /\ s \notin sidecar /\ label[s] = 0 /\ file[s] = 0
    /\ unsaved = {} /\ \A s \in forfeited : s \in used /\ promised[s] = 0
    /\ \A s \in Sandboxes : s \in containers /\ s \notin forfeited =>
          /\ file[s] # 0 => promised[s] <= file[s]
          /\ file[s] = 0 => promised[s] <= label[s]

\* That is enough for the invariant.
LEMMA Restarted == NothingRuns => DockerInv
  <1> SUFFICES ASSUME NothingRuns PROVE DockerInv
    BY Zenon
  <1>0. TypeOK
    BY Zenon DEF NothingRuns
  <1>1. Main \in Threads /\ NoSandbox \notin Sandboxes
    BY <1>0, Types, Zenon
  <1>2. thread[Main].at = "list" /\ \A t \in Threads : thread[t].on = NoSandbox
    BY <1>1, Zenon DEF NothingRuns, Loop, Idle
  <1>3. \A t \in Threads : thread[t].at = (IF t = Main THEN "list" ELSE "idle")
    BY Zenon DEF NothingRuns, Loop, Idle
  <1>4. ThreadsInv
    BY <1>0, <1>2, <1>3, Zenon DEF NothingRuns, ThreadsInv, Unoccupied, MainLoop
  <1>5. ASSUME NEW s \in Sandboxes PROVE LifeOf(s)
    BY <1>1, <1>2, Zenon DEF NothingRuns, LifeOf, Unborn, Serving
  <1>6. ASSUME NEW s \in Sandboxes PROVE DueOf(s)
    <2>1. Setters(s) = {}
      BY <1>1, <1>2, Zenon DEF Setters
    <2> QED
      BY <1>1, <1>2, <2>1, Zenon DEF NothingRuns, DueOf, KnownDue
  <1> QED
    BY <1>4, <1>5, <1>6, Zenon DEF DockerInv, LifeInv, DueInv

\* The server starts with nothing.
LEMMA DockerInit == Init => DockerInv
  <1> SUFFICES ASSUME Init PROVE DockerInv
    BY Zenon
  <1>1. Loop("list") \in ThreadRecord /\ Idle \in ThreadRecord
    BY BoundsAreNat DEF Loop, Idle, ThreadRecord, Places
  <1>2. thread \in [Threads -> ThreadRecord] /\ thread[Main].at # "idle"
    BY <1>1, Zenon DEF Init, Threads, Loop
  <1>3. \A f \in {label, file, tracked, timer, promised} : f \in [Sandboxes -> 0 .. MaxTime]
    BY BoundsAreNat DEF Init
  <1>4. TypeOK
    <2>1. now \in 0 .. MaxTime /\ crashes \in 0 .. MaxCrashes
      BY BoundsAreNat DEF Init
    <2> QED
      BY <1>2, <1>3, <2>1, Zenon DEF Init, TypeOK, ThreadRecord
  <1>5. NothingRuns
    BY <1>4, Zenon DEF Init, NothingRuns
  <1> QED
    BY <1>5, Restarted, Zenon

\* The process dies.
LEMMA CrashStep ==
    ASSUME DockerInv, Crash
    PROVE  DockerInv'
  <1>1. ThreadsInv /\ TypeOK
    BY Zenon DEF DockerInv, LifeInv, ThreadsInv
  <1>2. UNCHANGED <<now, daemonVars, file, used, dropped, blind>> /\ Forfeit(unsaved)
    BY Zenon DEF Crash
  <1>3. Loop("list") \in ThreadRecord /\ Idle \in ThreadRecord
    BY BoundsAreNat DEF Loop, Idle, ThreadRecord, Places
  <1>4. thread' \in [Threads -> ThreadRecord] /\ thread'[Main].at # "idle"
    BY <1>3, Zenon DEF Crash, Threads, Loop
  <1>5. crashes' \in 0 .. MaxCrashes /\ now' \in 0 .. MaxTime
    BY <1>1, <1>2, BoundsAreNat DEF TypeOK, Crash
  <1>6. CellsOK
    <2>1. promised' \in [Sandboxes -> 0 .. MaxTime] /\ tracked' \in [Sandboxes -> 0 .. MaxTime]
          /\ timer' \in [Sandboxes -> 0 .. MaxTime]
      BY <1>1, <1>2, Types, BoundsAreNat DEF Crash, Forfeit
    <2> QED
      BY <1>1, <1>2, <2>1, Types, Zenon DEF Crash, CellsOK, Forfeit, daemonVars
  <1>7. TypeOK'
    BY <1>4, <1>5, <1>6, TypesAfter, Zenon
  <1>8. \A s \in Sandboxes : s \notin used' =>
              s \notin containers' /\ s \notin sidecar' /\ label'[s] = 0 /\ file'[s] = 0
    BY <1>2, Zenon DEF DockerInv, LifeInv, LifeOf, Unborn, daemonVars
  <1>9. \A s \in Sandboxes : s \in containers' /\ s \notin forfeited' =>
              /\ file'[s] # 0 => promised'[s] <= file'[s]
              /\ file'[s] = 0 => promised'[s] <= label'[s]
    <2> SUFFICES ASSUME NEW s \in Sandboxes, s \in containers', s \notin forfeited'
                 PROVE  (file'[s] # 0 => promised'[s] <= file'[s]) /\ (file'[s] = 0 => promised'[s] <= label'[s])
      BY Zenon
    <2>1. s \in containers /\ s \notin forfeited /\ s \notin unsaved /\ promised'[s] = promised[s]
      BY <1>2, Zenon DEF Forfeit, daemonVars
    <2>2. KnownDue(s)
      BY <2>1, Zenon DEF DockerInv, DueInv, DueOf
    <2> QED
      BY <1>2, <2>1, <2>2, Zenon DEF KnownDue, daemonVars
  <1>12. unsaved' = {} /\ \A s \in forfeited' : s \in used' /\ promised'[s] = 0
    <2>1. \A s \in forfeited' : s \in Sandboxes
      BY <1>6, Zenon DEF CellsOK
    <2>2. \A s \in unsaved \cup forfeited : s \in Sandboxes
      BY <1>1, Types, Zenon
    <2>3. \A s \in unsaved \cup forfeited : DueOf(s)
      BY <2>2, Zenon DEF DockerInv, DueInv
    <2> QED
      BY <1>2, <2>1, <2>2, <2>3, Zenon DEF Forfeit, DueOf
  <1>10. NothingRuns'
    BY <1>7, <1>8, <1>9, <1>12, Zenon DEF Crash, NothingRuns
  <1>11. NothingRuns' => DockerInv'
    BY Restarted, PTL
  <1> QED
    BY <1>10, <1>11, Zenon

\* The starting thread moves within its loop.
LEMMA MainMoves ==
    ASSUME ThreadsInv, thread[Main].at \in MainLoop, NEW place \in {"expired", "serving"},
           thread' = [thread EXCEPT ![Main] = Loop(place)]
    PROVE  /\ thread' \in [Threads -> ThreadRecord]
           /\ thread'[Main].at = place
           /\ \A t \in Threads : thread'[t].on = thread[t].on
           /\ \A t \in Threads \ {Main} : thread'[t] = thread[t]
           /\ thread[Main].on = NoSandbox
  <1>1. TypeOK /\ Main \in Threads /\ thread[Main].on = NoSandbox
    BY Types, Zenon DEF ThreadsInv, Unoccupied
  <1>2. Loop(place) \in ThreadRecord
    BY BoundsAreNat DEF Loop, ThreadRecord, Places
  <1>3. Loop(place).at = place /\ Loop(place).on = NoSandbox
    BY Zenon DEF Loop
  <1> QED
    BY <1>1, <1>2, <1>3, Moved, Zenon

\* The sidecars without a sandbox are removed or given up, and the server serves.
LEMMA RestoreSidecarsStep ==
    ASSUME DockerInv, RestoreSidecars
    PROVE  DockerInv'
  <1>1. ThreadsInv /\ TypeOK /\ NoSandbox \notin Sandboxes /\ Main \in Threads
    BY Types, Zenon DEF DockerInv, LifeInv, ThreadsInv
  <1>2. thread[Main].at = "expired" /\ deferred = {}
    BY Zenon DEF RestoreSidecars
  <1>3. /\ thread' \in [Threads -> ThreadRecord] /\ thread'[Main].at = "serving"
        /\ \A t \in Threads : thread'[t].on = thread[t].on
        /\ \A t \in Threads \ {Main} : thread'[t] = thread[t]
        /\ thread[Main].on = NoSandbox
    BY <1>1, <1>2, MainMoves, Zenon DEF RestoreSidecars, MainLoop
  <1>4. UNCHANGED <<now, containers, label, file, memoryVars, deferred,
                    used, promised, unsaved, forfeited, blind, crashes>>
    BY Zenon DEF RestoreSidecars
  <1>5. PICK kept \in SUBSET {s \in sidecar : ~Exists(s)} :
           /\ sidecar' = sidecar \ ({s \in sidecar : ~Exists(s)} \ kept)
           /\ dropped' = dropped \cup kept
    BY Zenon DEF RestoreSidecars
  <1>6. CellsOK
    BY <1>1, <1>4, <1>5, Types, Zenon DEF CellsOK, memoryVars
  <1>7. TypeOK'
    BY <1>1, <1>3, <1>4, <1>6, Types, TypesAfter, Zenon
  <1>8. ThreadsInv'
    BY <1>1, <1>2, <1>3, <1>4, <1>7, Zenon DEF ThreadsInv, Unoccupied, MainLoop
  <1>9. ASSUME NEW s \in Sandboxes PROVE LifeOf(s)'
    <2>1. LifeOf(s)
      BY Zenon DEF DockerInv, LifeInv
    <2>2. Unborn(s) <=> Unborn(s)'
      BY <1>4, Zenon DEF Unborn, memoryVars
    <2>3. \A t \in Threads : thread[t].on = s => thread'[t] = thread[t]
      BY <1>1, <1>3, Zenon
    <2>4. ASSUME NEW t \in Threads, thread'[t].on = s PROVE LifeAt(t, s)'
      <3>1. LifeAt(t, s) /\ thread'[t] = thread[t]
        BY <1>3, <2>1, <2>3, <2>4, Zenon DEF LifeOf
      <3> QED
        BY <1>3, <1>4, <1>5, <2>2, <3>1, Zenon DEF LifeAt
    <2>5. On(s, Watchers) => On(s, Watchers)'
      BY <2>3, Zenon DEF On
    <2>6. s \in sidecar' => s \in containers' \/ s \in dropped'
      BY <1>4, <1>5, Zenon DEF Exists
    <2>7. s \in dropped => s \in dropped'
      BY <1>5, Zenon
    <2>8. s \notin used' => Unborn(s)' /\ s \notin sidecar' /\ \A t \in Threads : thread'[t].on # s
      BY <1>3, <1>4, <1>5, <2>1, <2>2, Zenon DEF LifeOf
    <2>9. s \in containers' /\ label'[s] # 0 =>
             timer'[s] # 0 \/ s \in deferred' \/ blind' \/ s \in dropped' \/ On(s, Watchers)'
      BY <1>2, <1>4, <2>1, <2>5, <2>7, Zenon DEF LifeOf, memoryVars
    <2> QED
      BY <2>4, <2>6, <2>8, <2>9, Zenon DEF LifeOf
  <1>10. ASSUME NEW s \in Sandboxes PROVE DueOf(s)'
    <2>1. DueOf(s)
      BY Zenon DEF DockerInv, DueInv
    <2>2. \A t \in Threads : thread[t].on = s => thread'[t] = thread[t]
      BY <1>1, <1>3, Zenon
    <2>3. Setters(s)' = Setters(s)
      BY <1>3, <2>2, Zenon DEF Setters
    <2>4. ASSUME NEW t \in Threads, thread[t].on = s, DueAt(t, s) PROVE DueAt(t, s)'
      BY <1>4, <2>2, <2>4, Zenon DEF DueAt, Due, memoryVars
    <2>5. KnownDue(s) => KnownDue(s)'
      BY <1>4, Zenon DEF KnownDue, Due, memoryVars
    <2> QED
      BY <1>3, <1>4, <2>1, <2>2, <2>3, <2>4, <2>5, Zenon DEF DueOf
  <1> QED
    BY <1>8, <1>9, <1>10, Zenon DEF DockerInv, LifeInv, DueInv

\* The server starts: it arms the timers of what lives and keeps what is overdue
\* for its second pass, or it learns nothing.
LEMMA RestoreListStep ==
    ASSUME DockerInv, RestoreList
    PROVE  DockerInv'
  <1>1. ThreadsInv /\ TypeOK /\ NoSandbox \notin Sandboxes /\ Main \in Threads
    BY Types, Zenon DEF DockerInv, LifeInv, ThreadsInv
  <1>2. thread[Main].at = "list" /\ deferred = {} /\ unsaved = {}
    BY <1>1, Zenon DEF RestoreList, ThreadsInv
  <1>3. \A s \in Sandboxes : tracked[s] = 0 /\ timer[s] = 0
    BY <1>1, <1>2, Zenon DEF ThreadsInv
  <1>4. PICK place \in {"expired", "serving"} : thread' = [thread EXCEPT ![Main] = Loop(place)]
    BY Zenon DEF RestoreList
  <1>5. /\ thread' \in [Threads -> ThreadRecord] /\ thread'[Main].at = place
        /\ \A t \in Threads : thread'[t].on = NoSandbox
        /\ \A t \in Threads \ {Main} : thread'[t] = thread[t]
    BY <1>1, <1>2, <1>4, MainMoves, Zenon DEF ThreadsInv, MainLoop
  <1>6. UNCHANGED <<now, daemonVars, file, used, crashes>>
    BY Zenon DEF RestoreList
  <1>7. PICK bad \in SUBSET containers :
        /\ Forfeit(bad)
        /\ \/ /\ place = "expired" /\ blind' = FALSE /\ dropped' = {} /\ deferred' = ExpiredEntries(bad)
              /\ timer' = Restored(timer, bad) /\ tracked' = Restored(tracked, bad)
           \/ /\ place = "serving" /\ blind' = (containers \cup sidecar # {})
              /\ timer' = timer /\ tracked' = tracked /\ deferred' = deferred /\ dropped' = dropped
    <2>1. Loop("expired").at = "expired" /\ Loop("serving").at = "serving"
      BY Zenon DEF Loop
    <2>2. thread \in [Threads -> ThreadRecord]
      BY <1>1, Types, Zenon
    <2>3. thread'[Main] = Loop(place) /\ (thread' = [thread EXCEPT ![Main] = Loop("expired")] => thread'[Main] = Loop("expired"))
          /\ (thread' = [thread EXCEPT ![Main] = Loop("serving")] => thread'[Main] = Loop("serving"))
      BY <1>1, <1>4, <2>2, Zenon
    <2>4. Loop("expired") # Loop("serving")
      BY <2>1, Zenon
    <2>5. CASE thread' = [thread EXCEPT ![Main] = Loop("expired")]
      BY <2>3, <2>4, <2>5, Zenon DEF RestoreList
    <2>6. CASE thread' = [thread EXCEPT ![Main] = Loop("serving")]
      <3>1. UNCHANGED <<promised, unsaved, forfeited>>
        BY <2>3, <2>4, <2>6, Zenon DEF RestoreList
      <3>2. Forfeit({})
        BY <1>1, <3>1, NothingForfeited, Zenon
      <3> QED
        BY <2>3, <2>4, <2>6, <3>2, Zenon DEF RestoreList, memoryVars
    <2> QED
      BY <2>5, <2>6, Zenon DEF RestoreList
  <1> DEFINE E(s) == Expiry(s, bad)
  <1>8. \A s \in Sandboxes : E(s) = IF s \notin bad /\ file[s] # 0 THEN file[s] ELSE label[s]
    BY <1>3, Zenon DEF Expiry, TrackedExpiration
  <1>9. \A s \in Sandboxes : E(s) \in 0 .. MaxTime
    <2>1. \A s \in Sandboxes : label[s] \in 0 .. MaxTime /\ file[s] \in 0 .. MaxTime
      BY <1>1, Types, Zenon
    <2> HIDE DEF E
    <2> QED
      BY <1>8, <2>1
  <1>10. \A s \in Sandboxes :
            /\ timer'[s] = tracked'[s]
            /\ tracked'[s] # 0 => tracked'[s] = E(s) /\ s \in containers
            /\ tracked'[s] \in 0 .. MaxTime
    BY <1>3, <1>7, <1>9, BoundsAreNat DEF Restored, LiveEntries
  <1>11. /\ deferred' \subseteq containers /\ (place = "serving" => deferred' = {})
         /\ \A s \in deferred' : E(s) <= now
    BY <1>2, <1>7, Zenon DEF ExpiredEntries
  <1>12. ASSUME NEW s \in containers, label[s] # 0
         PROVE  timer'[s] # 0 \/ s \in deferred' \/ blind'
    <2>1. s \in Sandboxes
      BY <1>1, Types, Zenon
    <2>2. E(s) \in Nat /\ now \in Nat /\ E(s) # 0
      BY <1>1, <1>8, <1>9, <1>12, <2>1, Types
    <2> HIDE DEF E
    <2>3. CASE place = "serving"
      BY <1>7, <2>3, Zenon
    <2>4. CASE place = "expired" /\ E(s) > now
      BY <1>7, <2>1, <2>2, <2>4, Zenon DEF Restored, LiveEntries, E
    <2>5. CASE place = "expired" /\ E(s) <= now
      BY <1>7, <2>1, <2>2, <2>5, Zenon DEF ExpiredEntries, E
    <2> QED
      BY <2>2, <2>3, <2>4, <2>5
  <1>13. place = "serving" /\ sidecar # {} => blind'
    BY <1>7, Zenon
  <1>14. /\ timer' = [s \in Sandboxes |-> timer'[s]] /\ tracked' = [s \in Sandboxes |-> tracked'[s]]
         /\ blind' \in BOOLEAN /\ dropped' \subseteq dropped
    BY <1>1, <1>7, Types, Zenon DEF Restored
  <1> HIDE DEF E
  <1>15. /\ promised' \in [Sandboxes -> 0 .. MaxTime] /\ unsaved' = {} /\ forfeited' = forfeited \cup bad
         /\ \A s \in Sandboxes : promised'[s] = IF s \in bad THEN 0 ELSE promised[s]
    BY <1>1, <1>2, <1>7, Types, BoundsAreNat DEF Forfeit
  <1>16. CellsOK
    BY <1>1, <1>6, <1>10, <1>11, <1>14, <1>15, Types, Zenon DEF CellsOK, daemonVars
  <1>17. TypeOK'
    BY <1>1, <1>5, <1>6, <1>16, Types, TypesAfter, Zenon
  <1>18. ThreadsInv'
    BY <1>1, <1>2, <1>5, <1>11, <1>17, Zenon DEF ThreadsInv, Unoccupied, MainLoop
  <1>19. ASSUME NEW s \in Sandboxes PROVE LifeOf(s)'
    <2>1. LifeOf(s)
      BY Zenon DEF DockerInv, LifeInv
    <2>2. s \notin used' => Unborn(s)' /\ s \notin sidecar'
      BY <1>6, <1>10, <1>11, <2>1, Zenon DEF LifeOf, Unborn, daemonVars
    <2>3. \A t \in Threads : thread'[t].on # s
      BY <1>1, <1>5, Zenon
    <2>4. Serving' /\ s \in sidecar' => blind'
      BY <1>5, <1>6, <1>13, Zenon DEF Serving, daemonVars
    <2>5. s \in containers' /\ label'[s] # 0 => timer'[s] # 0 \/ s \in deferred' \/ blind'
      BY <1>6, <1>12, Zenon DEF daemonVars
    <2> QED
      BY <2>2, <2>3, <2>4, <2>5, Zenon DEF LifeOf
  <1>20. ASSUME NEW s \in Sandboxes PROVE DueOf(s)'
    <2>1. DueOf(s) /\ LifeOf(s)
      BY Zenon DEF DockerInv, DueInv, LifeInv
    <2>2. \A t \in Threads : thread'[t].on # s
      BY <1>1, <1>5, Zenon
    <2>3. Setters(s)' = {}
      BY <2>2, Zenon DEF Setters
    <2>4. s \in unsaved' \cup forfeited' => s \in used' /\ (s \in forfeited' => promised'[s] = 0)
      BY <1>6, <1>15, <2>1, Zenon DEF DueOf, LifeOf, Unborn
    <2>5. ASSUME s \in containers', s \notin forfeited' PROVE KnownDue(s)'
      <3>1. /\ s \in containers /\ s \notin forfeited /\ s \notin bad /\ s \notin unsaved
            /\ promised'[s] = promised[s] /\ file'[s] = file[s] /\ label'[s] = label[s] /\ now' = now
        BY <1>2, <1>6, <1>15, <2>5, Zenon DEF daemonVars
      <3>2. /\ file[s] # 0 => promised[s] <= file[s]
            /\ file[s] = 0 => promised[s] <= label[s]
        BY <2>1, <3>1, Zenon DEF DueOf, KnownDue
      <3>3. promised[s] <= E(s)
        BY <1>8, <3>1, <3>2, Zenon
      <3>4. s \in deferred' => promised[s] <= now
        <4>1. promised[s] \in Nat /\ now \in Nat /\ E(s) \in Nat
          BY <1>1, <1>9, Types
        <4> QED
          BY <1>11, <3>3, <4>1
      <3> QED
        BY <1>10, <3>1, <3>2, <3>3, <3>4, Zenon DEF KnownDue, Due
    <2> QED
      BY <2>2, <2>3, <2>4, <2>5, Zenon DEF DueOf
  <1> QED
    BY <1>18, <1>19, <1>20, Zenon DEF DockerInv, LifeInv, DueInv

-----------------------------------------------------------------------------
(* The theorems *)

\* The invariant is inductive.
LEMMA DockerNext == DockerInv /\ [Next]_vars => DockerInv'
  <1> SUFFICES ASSUME DockerInv, [Next]_vars PROVE DockerInv'
    BY Zenon
  <1>1. Requests \subseteq Threads /\ Renewals \subseteq Threads /\ Callbacks \subseteq Threads
    BY Zenon DEF Threads
  <1>2. ASSUME NEW t \in Threads, CreateStep(t) PROVE DockerInv'
    BY <1>2, CreateSidecarStep, CreateContainerStep, StartContainerStep, CreateRollbackStep,
       CreateScheduleStep, Zenon DEF CreateStep
  <1>3. ASSUME NEW t \in Threads, RemovalStep(t) PROVE DockerInv'
    BY <1>3, RemoveStep, UntrackStep, ForgetStep, Zenon DEF RemovalStep
  <1>4. ASSUME NEW t \in Threads, RenewStep(t) PROVE DockerInv'
    BY <1>4, AccessCandidateStep, RenewScheduleStep, RenewPersistStep, RenewLabelStep, Zenon DEF RenewStep
  <1>5. ASSUME NEW t \in Threads, ExpireStep(t) PROVE DockerInv'
    BY <1>5, ExpireFetchStep, ExpireCheckStep, ExpireRearmStep, Zenon DEF ExpireStep
  <1>6. CASE RestoreStep
    BY <1>6, RestoreListStep, RestoreExpiredStep, RestoreSidecarsStep, Zenon DEF RestoreStep
  <1>7. ASSUME NEW t \in Requests, NEW s \in Sandboxes,
               DeleteFetch(t, s) \/ \E d \in Lifetimes : CreateBegin(t, s, d)
        PROVE  DockerInv'
    BY <1>1, <1>7, DeleteFetchStep, CreateBeginStep, Zenon
  <1>8. ASSUME NEW t \in Renewals, NEW s \in Sandboxes,
               AccessRead(t, s) \/ \E e \in Times : RenewFetch(t, s, e)
        PROVE  DockerInv'
    BY <1>1, <1>8, AccessReadStep, RenewFetchStep, Zenon
  <1>9. ASSUME NEW t \in Callbacks, Firing(t) PROVE DockerInv'
    BY <1>1, <1>9, FireStep, Zenon DEF Firing
  <1>10. CASE UNCHANGED vars
    <2>1. UNCHANGED <<now, daemonVars, file, memoryVars, thread, deferred, historyVars>>
      BY <1>10, Zenon DEF vars
    <2> QED
      BY <2>1 DEF DockerInv, LifeInv, DueInv, ThreadsInv, TypeOK, LifeOf, LifeAt, Unborn, On, Serving,
         DueOf, DueAt, KnownDue, Due, Setters, daemonVars, memoryVars, historyVars
  <1> QED
    BY <1>1, <1>2, <1>3, <1>4, <1>5, <1>6, <1>7, <1>8, <1>9, <1>10, TickStep, CrashStep, Zenon DEF Next

\* The invariant holds throughout.
THEOREM DockerInvariant == Spec => []DockerInv
  BY DockerInit, DockerNext, PTL DEF Spec

\* Every variable keeps its type, and the starting thread its role.
THEOREM DockerTypes == Spec => []TypeOK
  <1>1. DockerInv => TypeOK
    BY Zenon DEF DockerInv, LifeInv, ThreadsInv
  <1> QED
    BY <1>1, DockerInvariant, PTL

\* A running server has a timer or a thread at work for every sandbox that
\* expires, whatever renewals, deletions, callbacks and restarts do at once,
\* unless it started without the list of containers or gave the sandbox up: the
\* daemon refused its removal, lost the answer of its creation, or timed out in
\* the callback (_expire_sandbox, renew_expiration, _restore_existing_sandboxes).
THEOREM LiveSandboxesAreTimed == Spec => []LiveIsTimed
  <1>1. DockerInv => LiveIsTimed
    <2> SUFFICES ASSUME DockerInv, Serving, NEW s \in Sandboxes, Exists(s), label[s] # 0
                 PROVE  timer[s] # 0 \/ Busy(s) \/ blind \/ s \in dropped
      BY Zenon DEF LiveIsTimed
    <2>1. LifeOf(s) /\ deferred = {}
      BY Zenon DEF DockerInv, LifeInv, ThreadsInv, Serving
    <2>2. On(s, Watchers) => Busy(s)
      BY Zenon DEF On, Busy
    <2> QED
      BY <2>1, <2>2, Zenon DEF LifeOf, Serving, Exists
  <1> QED
    BY <1>1, DockerInvariant, PTL

\* A running server leaves no sidecar without its sandbox, but for the ones the
\* daemon refused to remove, the ones a callback left when the daemon timed out,
\* and the ones a start could not see (_provision_sandbox,
\* _cleanup_egress_sidecar, _restore_existing_sandboxes).
THEOREM SidecarsHaveSandboxes == Spec => []SidecarHasSandbox
  <1>1. DockerInv => SidecarHasSandbox
    <2> SUFFICES ASSUME DockerInv, Serving, NEW s \in sidecar
                 PROVE  Exists(s) \/ Busy(s) \/ blind \/ s \in dropped
      BY Zenon DEF SidecarHasSandbox
    <2>1. s \in Sandboxes
      BY Types, Zenon DEF DockerInv, LifeInv, ThreadsInv
    <2>2. LifeOf(s)
      BY <2>1, Zenon DEF DockerInv, LifeInv
    <2>3. On(s, Cleaners) => Busy(s)
      BY Zenon DEF On, Busy
    <2> QED
      BY <2>2, <2>3, Zenon DEF LifeOf, Exists
  <1> QED
    BY <1>1, DockerInvariant, PTL

\* Only a thread that is not about to compare moves
MovesNoCheck(t) ==
    thread[t].at # "check" /\ \A u \in Threads \ {t} : thread'[u] = thread[u]

\* What moves a thread moves no other.
LEMMA OneMoves ==
    ASSUME TypeOK, NEW t \in Threads
    PROVE  /\ \A p : Goto(t, p) => \A u \in Threads \ {t} : thread'[u] = thread[u]
           /\ \A p, s, e : Start(t, p, s, e) => \A u \in Threads \ {t} : thread'[u] = thread[u]
           /\ Return(t) => \A u \in Threads \ {t} : thread'[u] = thread[u]
  BY Types, Zenon DEF Goto, Start, Return

\* A callback that turns to the removal has compared the expiration.
LEMMA OnlyCheckRemoves ==
    ASSUME DockerInv, [Next]_vars, NEW t \in Threads,
           thread[t].at = "check", thread'[t].at = "remove"
    PROVE  ExpireCheck(t)
  <1>0. TypeOK
    BY Zenon DEF DockerInv, LifeInv, ThreadsInv
  <1>1. \A u \in Threads : ~MovesNoCheck(u)
    BY Zenon DEF MovesNoCheck
  <1>2. Idle.at = "idle"
    BY Zenon DEF Idle
  <1>3. ASSUME NEW u \in Threads, CreateStep(u) PROVE FALSE
    <2>1. MovesNoCheck(u)
      BY <1>0, <1>3, OneMoves, Zenon DEF CreateStep, CreateSidecar, CreateContainer, StartContainer,
         CreateRollback, CreateSchedule, MovesNoCheck
    <2> QED
      BY <1>1, <2>1, Zenon
  <1>4. ASSUME NEW u \in Threads, RemovalStep(u) PROVE FALSE
    <2>1. MovesNoCheck(u)
      BY <1>0, <1>4, OneMoves, Zenon DEF RemovalStep, Remove, Untrack, Forget, MovesNoCheck
    <2> QED
      BY <1>1, <2>1, Zenon
  <1>5. ASSUME NEW u \in Threads, RenewStep(u) PROVE FALSE
    <2>1. MovesNoCheck(u)
      BY <1>0, <1>5, OneMoves, Zenon DEF RenewStep, AccessCandidate, RenewBegin, RenewSchedule, RenewPersist,
         RenewLabel, MovesNoCheck
    <2> QED
      BY <1>1, <2>1, Zenon
  <1>6. ASSUME NEW u \in Threads, ExpireStep(u) PROVE ExpireCheck(t)
    <2>1. ExpireFetch(u) \/ ExpireRearm(u) => MovesNoCheck(u)
      BY <1>0, OneMoves, Zenon DEF ExpireFetch, ExpireRearm, MovesNoCheck
    <2>2. ExpireCheck(u) => \A v \in Threads \ {u} : thread'[v] = thread[v]
      BY <1>0, OneMoves, Zenon DEF ExpireCheck
    <2> QED
      BY <1>1, <1>6, <2>1, <2>2, Zenon DEF ExpireStep
  <1>7. ASSUME RestoreStep PROVE FALSE
    <2>1. Main \in Threads
      BY <1>0, Types, Zenon
    <2>2. CASE RestoreExpired
      <3>1. MovesNoCheck(Main)
        BY <1>0, <2>1, <2>2, OneMoves, Zenon DEF RestoreExpired, MovesNoCheck
      <3> QED
        BY <1>1, <2>1, <3>1, Zenon
    <2>3. CASE RestoreList \/ RestoreSidecars
      <3>1. MovesNoCheck(Main)
        BY <1>0, <2>1, <2>3, Types, Zenon DEF RestoreList, RestoreSidecars, MovesNoCheck
      <3> QED
        BY <1>1, <2>1, <3>1, Zenon
    <2> QED
      BY <1>7, <2>2, <2>3, Zenon DEF RestoreStep
  <1>8. ASSUME NEW u \in Threads, NEW s,
               \/ DeleteFetch(u, s) \/ AccessRead(u, s) \/ Fire(u, s)
               \/ \E d \in Lifetimes : CreateBegin(u, s, d)
               \/ \E e \in Times : RenewFetch(u, s, e)
        PROVE  FALSE
    <2>1. MovesNoCheck(u)
      BY <1>0, <1>2, <1>8, OneMoves, Zenon DEF DeleteFetch, AccessRead, Fire, CreateBegin, RenewFetch, RenewBegin,
         MovesNoCheck
    <2> QED
      BY <1>1, <2>1, Zenon
  <1>9. ~(Tick \/ UNCHANGED vars)
    BY Zenon DEF Tick, vars
  <1>10. ~Crash
    BY DEF Crash, Idle, Loop
  <1>11. Requests \subseteq Threads /\ Renewals \subseteq Threads /\ Callbacks \subseteq Threads
    BY Zenon DEF Threads
  <1> QED
    BY <1>3, <1>4, <1>5, <1>6, <1>7, <1>8, <1>9, <1>10, <1>11, Zenon DEF Next, Firing

\* An expiration decides to end a sandbox only when the time last promised to a
\* client has passed, across renewals and restarts, unless the promise was void:
\* renewals overlapped, a renewal on access asked for less, or the server
\* restarted when the file did not hold the renewal or could not be read
\* (_get_tracked_expiration, _expire_sandbox, renew_expiration).
THEOREM SandboxesEndWhenDue == Spec => EndsOnlyWhenDue
  <1>1. DockerInv /\ [Next]_vars =>
          [\A t \in Callbacks \cup {Main} :
              thread[t].at = "check" /\ thread'[t].at = "remove" =>
                  now >= promised[thread[t].on]]_vars
    <2> SUFFICES ASSUME DockerInv, [Next]_vars, NEW t \in Callbacks \cup {Main},
                        thread[t].at = "check", thread'[t].at = "remove"
                 PROVE  now >= promised[thread[t].on]
      BY Zenon
    <2>1. t \in Threads
      BY Zenon DEF Threads
    <2>2. ExpireCheck(t)
      BY <2>1, OnlyCheckRemoves, Zenon
    <2> DEFINE s == thread[t].on
    <2>3. TypeOK /\ s \in Sandboxes /\ DueOf(s)
      BY <2>1, AtWork, Zenon DEF Unoccupied, MainLoop
    <2>4. PICK saved : TrackedExpiration(s, saved, thread[t].exp) <= now
      <3>1. ASSUME NEW e, Start(t, "rearm", s, e) PROVE FALSE
        BY <2>1, <2>3, <3>1, Types, Zenon DEF Start
      <3> QED
        BY <2>2, <3>1, Zenon DEF ExpireCheck
    <2>5. now \in Nat /\ promised[s] \in Nat /\ tracked[s] \in Nat
      BY <2>1, <2>3, Types
    <2>6. tracked[s] # 0 => tracked[s] <= now
      BY <2>4, Zenon DEF TrackedExpiration
    <2>7. CASE s \in containers /\ s \notin forfeited
      <3>1. Due(s) /\ KnownDue(s)
        BY <2>1, <2>3, <2>7, Zenon DEF DueOf, DueAt
      <3> QED
        BY <2>5, <2>6, <3>1 DEF Due, KnownDue
    <2>8. CASE s \notin containers \/ s \in forfeited
      <3>1. promised[s] = 0
        BY <2>1, <2>3, <2>8, Zenon DEF DueOf
      <3> QED
        BY <2>5, <3>1
    <2> QED
      BY <2>7, <2>8, Zenon
  <1> QED
    BY <1>1, DockerInvariant, PTL DEF Spec, EndsOnlyWhenDue
================================================================================
