---------------------------- MODULE DockerSandboxes ----------------------------
(***************************************************************************)
(* DockerSandboxService: creation, renewal (by the API and on access),     *)
(* deletion and expiration of sandboxes, each in a thread of its own, and  *)
(* the restoration of the timers when the server starts.  The OSSFS mounts *)
(* that the same operations take and release are in OssfsMounts.           *)
(*                                                                         *)
(* An expiration is known in three places: in memory, in a file that       *)
(* survives the server, and in the container's label.  Times are small     *)
(* numbers; 0 is the absent time.  A step is a statement that takes the    *)
(* lock, calls the daemon or writes a file.  Whether a container runs, is  *)
(* paused or has exited is left open: only the access renewal looks at it. *)
(*                                                                         *)
(* A call to the daemon is answered, refused or times out.  A refusal is a *)
(* DockerException, which the handlers catch.  The time-out of the client  *)
(* library is not: it leaves the handler at that call, which took effect   *)
(* by then or not at all.  During the restoration it ends the process, so  *)
(* that it is a Crash.                                                     *)
(***************************************************************************)
EXTENDS Naturals

CONSTANTS Sandboxes,     \* ids that generate_sandbox_id returns
          WithSidecar,   \* the ones created with a network policy
          Requests,      \* requests that create and delete
          Renewals,      \* requests that renew, and tasks that renew on access
          Callbacks,     \* timer callbacks that can run at once
          Lifetimes,     \* timeouts a creation may ask for, 0 for manual cleanup
          MaxTime,       \* the clock stops here
          Extend,        \* access.renew.extend.seconds
          MaxCrashes     \* crashes in a behaviour

Main == "main"
Threads == Requests \cup Renewals \cup Callbacks \cup {Main}
NoSandbox == "none"
Times == 1 .. MaxTime

ASSUME BoundsAreNat == MaxTime \in Nat \ {0} /\ Extend \in Nat \ {0} /\ MaxCrashes \in Nat
                        /\ Lifetimes \subseteq Nat
ASSUME RolesAreDistinct ==
    /\ Main \notin Requests \cup Renewals \cup Callbacks
    /\ Requests \cap Renewals = {} /\ Requests \cap Callbacks = {} /\ Renewals \cap Callbacks = {}
    /\ WithSidecar \subseteq Sandboxes /\ NoSandbox \notin Sandboxes

VARIABLES
    now,
    \* the daemon and the host
    containers,  \* sandboxes that have a container, running or not
    label,       \* sandbox -> expiration in the container's label, 0 for manual cleanup
    sidecar,     \* sandboxes whose egress sidecar exists
    file,        \* sandbox -> expiration in the metadata store, or 0
    \* the server's memory
    tracked,     \* _sandbox_expirations: sandbox -> time or 0
    timer,       \* _expiration_timers: sandbox -> time the armed timer fires, or 0
    thread,      \* thread -> [at, on, exp]: next statement, sandbox, a local time
    deferred,    \* expired_entries of the restoration
    \* history
    used,        \* ids already given out
    promised,    \* sandbox -> the earliest time the server may still end it, or 0
    unsaved,     \* sandboxes whose last renewal is in memory but not in the file
    forfeited,   \* sandboxes that are promised nothing any more: their end was decided;
                 \* another thread was setting the expiration, or a later one was
                 \* promised, when they were renewed; the server restarted with
                 \* the renewal unsaved, or with a file it could not read
    dropped,     \* sandboxes the server gave up: the daemon refused, or timed out,
                 \* when they or their sidecar should have been removed; it created
                 \* them and its answer was lost; a callback ended without a timer
    blind,       \* the last start could not list the containers there were
    crashes

daemonVars == <<containers, label, sidecar>>
memoryVars == <<tracked, timer>>
historyVars == <<used, promised, unsaved, forfeited, dropped, blind, crashes>>
vars == <<now, daemonVars, file, memoryVars, thread, deferred, historyVars>>

Larger(a, b) == IF a > b THEN a ELSE b
Smaller(a, b) == IF a < b THEN a ELSE b

Idle == [at |-> "idle", on |-> NoSandbox, exp |-> 0]
Loop(place) == [at |-> place, on |-> NoSandbox, exp |-> 0]
Start(t, place, s, exp) ==
    thread' = [thread EXCEPT ![t] = [at |-> place, on |-> s, exp |-> exp]]
Goto(t, place) == thread' = [thread EXCEPT ![t].at = place]

\* Mutant: the restoration ends with the first expired sandbox
ReturnOnce(t) == thread' = [thread EXCEPT ![t] = Idle]

\* A handler returns; after an expiration the restoration goes on with its loop
Return(t) == thread' = [thread EXCEPT ![t] = IF t = Main THEN Loop("expired") ELSE Idle]

\* The container goes, with its label and what was promised for it
Gone(s) ==
    /\ containers' = containers \ {s}
    /\ label' = [label EXCEPT ![s] = 0]
    /\ promised' = [promised EXCEPT ![s] = 0]
    /\ unsaved' = unsaved \ {s}
    /\ forfeited' = forfeited \ {s}

\* What was promised to the sandboxes of S does not bind the server any more
Forfeit(S) ==
    /\ promised' = [s \in Sandboxes |-> IF s \in S THEN 0 ELSE promised[s]]
    /\ unsaved' = unsaved \ S
    /\ forfeited' = forfeited \cup S

Serving == thread[Main].at = "serving"
Exists(s) == s \in containers

Init ==
    /\ now = 0
    /\ containers = {}
    /\ label = [s \in Sandboxes |-> 0]
    /\ sidecar = {}
    /\ file = [s \in Sandboxes |-> 0]
    /\ tracked = [s \in Sandboxes |-> 0]
    /\ timer = [s \in Sandboxes |-> 0]
    /\ thread = [t \in Threads |-> IF t = Main THEN Loop("list") ELSE Idle]
    /\ deferred = {}
    /\ used = {}
    /\ promised = [s \in Sandboxes |-> 0]
    /\ unsaved = {}
    /\ forfeited = {}
    /\ dropped = {}
    /\ blind = FALSE
    /\ crashes = 0

\* Time counts from the first creation
Tick ==
    /\ used # {}
    /\ now < MaxTime
    /\ now' = now + 1
    /\ UNCHANGED <<daemonVars, file, memoryVars, thread, deferred, historyVars>>

-----------------------------------------------------------------------------
(* Shared helpers *)

\* Mutant: the label, which cannot always be updated, before the file
TrackedExpirationByLabel(s, saved, labelled) ==
    IF tracked[s] # 0 THEN tracked[s] ELSE IF labelled # 0 THEN labelled ELSE saved

\* _get_tracked_expiration: memory, else the file, else the label
TrackedExpiration(s, saved, labelled) ==
    IF tracked[s] # 0 THEN tracked[s] ELSE IF saved # 0 THEN saved ELSE labelled

\* get_expiration: a file that cannot be read counts as absent
Reads(s) == {file[s], 0}

\* _schedule_expiration: the timer is replaced, the expiration as well on request
Schedule(s, at, update) ==
    /\ timer' = [timer EXCEPT ![s] = at]
    /\ tracked' = IF update THEN [tracked EXCEPT ![s] = at] ELSE tracked

\* Mutant: the sidecar is forgotten
CleanupNothing(s) == UNCHANGED <<sidecar, dropped>>

\* Best effort: what the daemon refuses to remove stays
CleanupEgressSidecar(s) ==
    \/ sidecar' = sidecar \ {s} /\ UNCHANGED dropped
    \/ s \in sidecar /\ UNCHANGED sidecar /\ dropped' = dropped \cup {s}

RemoveExpirationTracking(s) ==
    /\ timer' = [timer EXCEPT ![s] = 0]
    /\ tracked' = [tracked EXCEPT ![s] = 0]

\* Tracking, then _cleanup_egress_sidecar, best effort.  When that times out the
\* file is not deleted.
Untrack(t) ==
    LET s == thread[t].on
    IN /\ thread[t].at = "untrack"
       /\ RemoveExpirationTracking(s)
       /\ CleanupEgressSidecar(s)
       /\ Goto(t, "forget") \/ (t # Main /\ Return(t))
       /\ UNCHANGED <<now, containers, label, file, deferred,
                      used, promised, unsaved, forfeited, blind, crashes>>

\* _metadata_store.delete, the last statement of a removal; an OSError is logged
Forget(t) ==
    /\ thread[t].at = "forget"
    /\ file' \in {file, [file EXCEPT ![thread[t].on] = 0]}
    /\ Return(t)
    /\ UNCHANGED <<now, daemonVars, memoryVars, deferred, historyVars>>

-----------------------------------------------------------------------------
(* create_sandbox and _provision_sandbox *)

\* An expiration of 0 asks for manual cleanup
CreateBegin(t, s, timeout) ==
    LET exp == IF timeout = 0 THEN 0 ELSE now + timeout
    IN
    /\ Serving
    /\ thread[t] = Idle
    /\ s \notin used
    /\ exp <= MaxTime
    /\ used' = used \cup {s}
    /\ promised' = [promised EXCEPT ![s] = exp]
    /\ Start(t, "provision", s, exp)
    /\ UNCHANGED <<now, daemonVars, file, memoryVars, deferred, unsaved, forfeited, dropped, blind, crashes>>

\* _start_egress_sidecar: on failure the sidecar is removed again, best effort,
\* and the creation ends
CreateSidecar(t) ==
    LET s == thread[t].on
    IN /\ thread[t].at = "provision"
       /\ \/ /\ sidecar' = sidecar \cup ({s} \cap WithSidecar)
             /\ Goto(t, "create") /\ UNCHANGED dropped
          \/ /\ s \in WithSidecar
             /\ \/ UNCHANGED <<sidecar, dropped>>
                \/ sidecar' = sidecar \cup {s} /\ dropped' = dropped \cup {s}
             /\ Return(t)
       /\ UNCHANGED <<now, containers, label, file, memoryVars, deferred,
                      used, promised, unsaved, forfeited, blind, crashes>>

\* _create_and_start_container.  On failure the container is removed, best
\* effort, and everything prepared for it is rolled back.  A container whose id
\* was not answered is not removed.
CreateContainer(t) ==
    LET s == thread[t].on
    IN /\ thread[t].at = "create"
       /\ \/ /\ containers' = containers \cup {s}
             /\ label' = [label EXCEPT ![s] = thread[t].exp]
             /\ \/ Goto(t, "start") /\ UNCHANGED dropped
                \/ Goto(t, "rollback") /\ dropped' = dropped \cup {s}
          \/ /\ UNCHANGED <<containers, label, dropped>>
             /\ Goto(t, "rollback")
       /\ UNCHANGED <<now, sidecar, file, memoryVars, deferred,
                      used, promised, unsaved, forfeited, blind, crashes>>

StartContainer(t) ==
    LET s == thread[t].on
    IN /\ thread[t].at = "start"
       /\ \/ /\ Exists(s) /\ Goto(t, "schedule")
             /\ UNCHANGED <<containers, label, promised, unsaved, forfeited, dropped>>
          \/ /\ Gone(s) /\ Goto(t, "rollback") /\ UNCHANGED dropped
          \/ /\ Exists(s) /\ dropped' = dropped \cup {s} /\ Goto(t, "rollback")
             /\ UNCHANGED <<containers, label, promised, unsaved, forfeited>>
       /\ UNCHANGED <<now, sidecar, file, memoryVars, deferred, used, blind, crashes>>

\* The except branch
CreateRollback(t) ==
    LET s == thread[t].on
    IN /\ thread[t].at = "rollback"
       /\ CleanupEgressSidecar(s)
       /\ Return(t)
       /\ UNCHANGED <<now, containers, label, file, memoryVars, deferred,
                      used, promised, unsaved, forfeited, blind, crashes>>

\* The timer is armed after the container runs
CreateSchedule(t) ==
    /\ thread[t].at = "schedule"
    /\ IF thread[t].exp = 0 THEN UNCHANGED memoryVars
                            ELSE Schedule(thread[t].on, thread[t].exp, TRUE)
    /\ Return(t)
    /\ UNCHANGED <<now, daemonVars, file, deferred, historyVars>>

-----------------------------------------------------------------------------
(* delete_sandbox *)

DeleteFetch(t, s) ==
    /\ Serving
    /\ thread[t] = Idle
    /\ Exists(s)
    /\ Forfeit({s})
    /\ Start(t, "remove", s, 0)
    /\ UNCHANGED <<now, daemonVars, file, memoryVars, deferred, used, dropped, blind, crashes>>

\* kill and remove(force=True), by a request or a callback.  The daemon may
\* refuse; the callback, and the finally block of a request, go on all the same.
\* When the daemon times out the finally block still runs; a callback ends here,
\* the container removed or not, and leaves tracking, sidecar and file.
Remove(t) ==
    LET s == thread[t].on
    IN /\ thread[t].at = "remove"
       /\ \/ Gone(s) /\ UNCHANGED dropped /\ Goto(t, "untrack")
          \/ /\ Exists(s) /\ dropped' = dropped \cup {s} /\ Goto(t, "untrack")
             /\ UNCHANGED <<containers, label, promised, unsaved, forfeited>>
          \/ /\ t \in Callbacks
             /\ Gone(s) \/ UNCHANGED <<containers, label, promised, unsaved, forfeited>>
             /\ dropped' = dropped \cup {s} /\ Return(t)
       /\ UNCHANGED <<now, sidecar, file, memoryVars, deferred, used, blind, crashes>>

-----------------------------------------------------------------------------
(* renew_expiration, called by the API or by AccessRenewController *)

\* The controller reads the sandbox first and asks for at least what it read
AccessRead(t, s) ==
    /\ Serving
    /\ thread[t] = Idle
    /\ Exists(s)
    /\ \E saved \in Reads(s) :
         /\ TrackedExpiration(s, saved, label[s]) # 0
         /\ Start(t, "candidate", s, TrackedExpiration(s, saved, label[s]))
    /\ UNCHANGED <<now, daemonVars, file, memoryVars, deferred, historyVars>>

\* Threads on their way to set the expiration of s
Setters(s) ==
    {t \in Threads : thread[t].on = s /\ thread[t].at \in
        {"create", "start", "schedule", "reschedule", "persist", "label"}}

\* The sandbox must exist, expire, and the time be in the future
RenewBegin(t, s, new) ==
    /\ Exists(s)
    /\ new > now
    /\ label[s] # 0
    /\ Start(t, "reschedule", s, new)

\* The client that asks for less is promised no more than that
RenewFetch(t, s, new) ==
    /\ Serving
    /\ thread[t] = Idle
    /\ RenewBegin(t, s, new)
    /\ \/ Setters(s) # {} /\ Forfeit({s})
       \/ /\ Setters(s) = {}
          /\ promised' = [promised EXCEPT ![s] = Smaller(@, new)]
          /\ UNCHANGED <<unsaved, forfeited>>
    /\ UNCHANGED <<now, daemonVars, file, memoryVars, deferred, used, dropped, blind, crashes>>

\* What was read may be older than the last renewal.  The renewal fails when the
\* sandbox is gone or manual by now, and when the daemon does not answer.
AccessCandidate(t) ==
    LET s == thread[t].on
        new == Larger(thread[t].exp, Smaller(now + Extend, MaxTime))
    IN /\ thread[t].at = "candidate"
       /\ \/ /\ RenewBegin(t, s, new)
             /\ Forfeit({x \in {s} : Setters(s) # {} \/ new < promised[s]})
          \/ Return(t) /\ Forfeit({})
       /\ UNCHANGED <<now, daemonVars, file, memoryVars, deferred, used, dropped, blind, crashes>>

\* Memory and timer first
RenewSchedule(t) ==
    /\ thread[t].at = "reschedule"
    /\ Schedule(thread[t].on, thread[t].exp, TRUE)
    /\ Goto(t, "persist")
    /\ UNCHANGED <<now, daemonVars, file, deferred, historyVars>>

\* set_expiration; an OSError is logged, and the renewal goes on
RenewPersist(t) ==
    LET s == thread[t].on
    IN /\ thread[t].at = "persist"
       /\ \/ file' = [file EXCEPT ![s] = thread[t].exp] /\ unsaved' = unsaved \ {s}
          \/ UNCHANGED file /\ unsaved' = unsaved \cup (({s} \cap containers) \ forfeited)
       /\ Goto(t, "label")
       /\ UNCHANGED <<now, daemonVars, memoryVars, deferred,
                      used, promised, forfeited, dropped, blind, crashes>>

\* The label follows, if the daemon can change it.  The client is answered with
\* the new expiration, saved or not; when the daemon times out, with an error.
RenewLabel(t) ==
    LET s == thread[t].on
        exp == thread[t].exp
    IN /\ thread[t].at = "label"
       /\ label' \in {label} \cup (IF Exists(s) THEN {[label EXCEPT ![s] = exp]} ELSE {})
       /\ \/ Exists(s) /\ s \notin forfeited /\ promised' = [promised EXCEPT ![s] = exp]
          \/ UNCHANGED promised
       /\ Return(t)
       /\ UNCHANGED <<now, containers, sidecar, file, memoryVars, deferred,
                      used, unsaved, forfeited, dropped, blind, crashes>>

-----------------------------------------------------------------------------
(* _expire_sandbox, in a timer's thread or during the restoration *)

Fire(t, s) ==
    /\ thread[t] = Idle
    /\ timer[s] # 0 /\ timer[s] <= now
    /\ timer' = [timer EXCEPT ![s] = 0]
    /\ Start(t, "fetch", s, 0)
    /\ UNCHANGED <<now, daemonVars, file, tracked, deferred, historyVars>>

\* Mutant: the callback gives up
RetryNever(s) == UNCHANGED memoryVars

\* Thirty seconds later; the tracked expiration stays
Retry(s) == Schedule(s, Smaller(now + 1, MaxTime), FALSE)

\* The container is found; or it is gone and only its traces are removed; or
\* the daemon answers with an error.  Then a timer tries again, except after a
\* renewal, whose own timer is relied on: ExpireRearm may have replaced it.  A
\* lookup that times out ends the callback, and nothing tries again.
ExpireFetch(t) ==
    LET s == thread[t].on
    IN /\ thread[t].at = "fetch"
       /\ \/ /\ Exists(s)
             /\ Start(t, "check", s, label[s])
             /\ UNCHANGED <<memoryVars, dropped>>
          \/ /\ ~Exists(s)
             /\ RemoveExpirationTracking(s)
             /\ Goto(t, "forget")
             /\ UNCHANGED dropped
          \/ /\ tracked[s] <= now
             /\ Retry(s)
             /\ Return(t)
             /\ UNCHANGED dropped
          \/ /\ tracked[s] > now \/ t \in Callbacks
             /\ dropped' = IF timer[s] = 0 THEN dropped \cup {s} ELSE dropped
             /\ Return(t)
             /\ UNCHANGED memoryVars
       /\ UNCHANGED <<now, daemonVars, file, deferred,
                      used, promised, unsaved, forfeited, blind, crashes>>

\* A renewed sandbox gets a timer for its new expiration and stays
ExpireCheck(t) ==
    LET s == thread[t].on
    IN /\ thread[t].at = "check"
       /\ \E saved \in Reads(s) :
            LET current == TrackedExpiration(s, saved, thread[t].exp)
            IN \/ current > now /\ Start(t, "rearm", s, current) /\ Forfeit({})
               \/ current <= now /\ Start(t, "remove", s, 0) /\ Forfeit({s})
       /\ UNCHANGED <<now, daemonVars, file, memoryVars, deferred, used, dropped, blind, crashes>>

ExpireRearm(t) ==
    /\ thread[t].at = "rearm"
    /\ Schedule(thread[t].on, thread[t].exp, FALSE)
    /\ Return(t)
    /\ UNCHANGED <<now, daemonVars, file, deferred, historyVars>>

-----------------------------------------------------------------------------
(* _restore_existing_sandboxes, run before the server serves *)

\* bad: the sandboxes whose file cannot be read
Expiry(s, bad) == TrackedExpiration(s, IF s \in bad THEN 0 ELSE file[s], label[s])

\* Mutant: what expired while the server was down is left alone
NoExpiredEntries(bad) == {}

ExpiredEntries(bad) == {s \in containers : Expiry(s, bad) # 0 /\ Expiry(s, bad) <= now}

LiveEntries(bad) == {s \in containers : Expiry(s, bad) > now}

Restored(f, bad) == [s \in Sandboxes |-> IF s \in LiveEntries(bad) THEN Expiry(s, bad) ELSE f[s]]

\* Pass 1: timers for the live ones, the expired ones for later.  If the
\* daemon cannot list the containers the server starts without any of it.
RestoreList ==
    /\ thread[Main].at = "list"
    /\ \/ /\ \E bad \in SUBSET {s \in containers : file[s] # 0} :
               /\ timer' = Restored(timer, bad)
               /\ tracked' = Restored(tracked, bad)
               /\ deferred' = ExpiredEntries(bad)
               /\ Forfeit(bad)
          /\ thread' = [thread EXCEPT ![Main] = Loop("expired")]
          /\ blind' = FALSE
          /\ dropped' = {}
       \/ /\ thread' = [thread EXCEPT ![Main] = Loop("serving")]
          /\ blind' = (containers \cup sidecar # {})
          /\ UNCHANGED <<memoryVars, deferred, promised, unsaved, forfeited, dropped>>
    /\ UNCHANGED <<now, daemonVars, file, used, crashes>>

\* Pass 2: the expired ones, one after the other
RestoreExpired ==
    /\ thread[Main].at = "expired"
    /\ \E s \in deferred :
         /\ deferred' = deferred \ {s}
         /\ Start(Main, "fetch", s, 0)
    /\ UNCHANGED <<now, daemonVars, file, memoryVars, historyVars>>

\* Sidecars without a sandbox are removed, best effort
RestoreSidecars ==
    LET orphans == {s \in sidecar : ~Exists(s)}
    IN /\ thread[Main].at = "expired"
       /\ deferred = {}
       /\ \E kept \in SUBSET orphans :
            /\ sidecar' = sidecar \ (orphans \ kept)
            /\ dropped' = dropped \cup kept
       /\ thread' = [thread EXCEPT ![Main] = Loop("serving")]
       /\ UNCHANGED <<now, containers, label, file, memoryVars, deferred,
                      used, promised, unsaved, forfeited, blind, crashes>>

\* The process dies; the daemon and the files go on.  What was in memory only
\* is lost.
Crash ==
    /\ crashes < MaxCrashes
    /\ crashes' = crashes + 1
    /\ tracked' = [s \in Sandboxes |-> 0]
    /\ timer' = [s \in Sandboxes |-> 0]
    /\ thread' = [t \in Threads |-> IF t = Main THEN Loop("list") ELSE Idle]
    /\ deferred' = {}
    /\ Forfeit(unsaved)
    /\ UNCHANGED <<now, daemonVars, file, used, dropped, blind>>

-----------------------------------------------------------------------------
CreateStep(t) == CreateSidecar(t) \/ CreateContainer(t) \/ StartContainer(t) \/ CreateRollback(t) \/ CreateSchedule(t)
RemovalStep(t) == Remove(t) \/ Untrack(t) \/ Forget(t)
RenewStep(t) == AccessCandidate(t) \/ RenewSchedule(t) \/ RenewPersist(t) \/ RenewLabel(t)
ExpireStep(t) == ExpireFetch(t) \/ ExpireCheck(t) \/ ExpireRearm(t)
RestoreStep == RestoreList \/ RestoreExpired \/ RestoreSidecars
Firing(t) == \E s \in Sandboxes : Fire(t, s)

Next ==
    \/ Tick
    \/ \E t \in Requests : \/ \E s \in Sandboxes : DeleteFetch(t, s) \/ \E d \in Lifetimes : CreateBegin(t, s, d)
                           \/ CreateStep(t)
    \/ \E t \in Renewals : \/ \E s \in Sandboxes : AccessRead(t, s) \/ \E e \in Times : RenewFetch(t, s, e)
                           \/ RenewStep(t)
    \/ \E t \in Callbacks : Firing(t)
    \/ \E t \in Threads : RemovalStep(t) \/ ExpireStep(t)
    \/ RestoreStep
    \/ Crash

Spec == Init /\ [][Next]_vars

\* Time passes, a due timer's thread starts, threads that run go on, and
\* start-up goes on.  A callback whose lookup is answered with an error is run
\* again by a timer, every thirty seconds; that one of the lookups succeeds is
\* assumed of ExpireFetch (SF).  A lookup that times out is not repeated, and
\* nothing is assumed of it: its sandbox is dropped.
Fairness ==
    /\ WF_vars(Tick)
    /\ \A t \in Requests : WF_vars(CreateStep(t))
    /\ \A t \in Renewals : WF_vars(RenewStep(t))
    /\ \A t \in Callbacks : WF_vars(Firing(t))
    /\ \A t \in Threads : WF_vars(RemovalStep(t)) /\ WF_vars(ExpireStep(t))
    /\ \A t \in Callbacks : SF_vars(ExpireFetch(t) /\ thread'[t].at \in {"check", "forget"})
    /\ WF_vars(RestoreStep)

FairSpec == Spec /\ Fairness

-----------------------------------------------------------------------------
(* Properties *)

Places == {"idle", "provision", "create", "start", "rollback", "schedule", "remove", "untrack",
           "forget", "candidate", "reschedule", "persist", "label",
           "fetch", "check", "rearm", "list", "expired", "serving"}

\* Every variable holds a value its declaration describes
TypeOK ==
    /\ now \in 0 .. MaxTime
    /\ \A f \in {label, file, tracked, timer, promised} : f \in [Sandboxes -> 0 .. MaxTime]
    /\ containers \cup sidecar \cup deferred \cup used \cup unsaved \cup forfeited \cup dropped
          \subseteq Sandboxes
    /\ blind \in BOOLEAN
    /\ crashes \in 0 .. MaxCrashes
    /\ thread[Main].at # "idle"
    /\ thread \in [Threads -> [at : Places, on : Sandboxes \cup {NoSandbox},
                               exp : 0 .. MaxTime]]

Busy(s) == \E t \in Threads : thread[t].on = s

\* A running server has a timer, or a thread at work, for every sandbox that
\* expires, whatever renewals, deletions, callbacks and restarts did to the
\* timers (_schedule_expiration, _expire_sandbox, _restore_existing_sandboxes).
\* It does not have one after a start that could not list the containers
\* (blind), nor for the sandboxes it gave up until the next start (dropped):
\*  - the daemon refused to remove the container, whose tracking is dropped
\*    all the same, by a deletion, an expiration or a failed creation;
\*  - the daemon created the container and the answer was lost;
\*  - a lookup, kill or removal of the callback timed out, and left no timer;
\*  - a lookup of the callback failed after ExpireRearm had replaced the timer
\*    of a later renewal: the callback relies on that timer and sets none.
LiveIsTimed ==
    Serving => \A s \in Sandboxes :
        Exists(s) /\ label[s] # 0 => timer[s] # 0 \/ Busy(s) \/ blind \/ s \in dropped

\* A sidecar is not left without its sandbox in a running server: what a crash
\* in the middle of a creation or a removal leaves, the next start removes
\* (_provision_sandbox, _cleanup_egress_sidecar, _restore_existing_sandboxes).
\* It is left when the daemon refuses to remove the sidecar, when it times out
\* in the callback before the sidecar's turn (both dropped), and after a start
\* that could not list the containers (blind).
SidecarHasSandbox ==
    Serving => \A s \in sidecar : Exists(s) \/ Busy(s) \/ blind \/ s \in dropped

\* An expiration decides to end a sandbox only when the expiration last
\* promised to a client has passed, across restarts: memory, file and label are
\* read in the order that finds the newest (_get_tracked_expiration,
\* renew_expiration).  Four things void the promise (forfeited): a renewal that
\* overlaps another one or the creation, when memory and file may keep
\* different ones of the two times; a renewal on access that asks for less than
\* was promised since it read the sandbox; a restart after set_expiration
\* failed in a renewal that was answered all the same; and a restart that
\* cannot read the file and falls back on the label.
EndsOnlyWhenDue ==
    [][\A t \in Callbacks \cup {Main} :
          thread[t].at = "check" /\ thread'[t].at = "remove" =>
              now >= promised[thread[t].on]]_vars

\* A sandbox that expires ends, since the clock outruns every renewal, in the
\* end: it is removed, by a timer or by the next start, unless the server could
\* not see it or gave it up as LiveIsTimed lists (_expire_sandbox,
\* _restore_existing_sandboxes).
ExpiredEnds ==
    \A s \in Sandboxes :
        (Exists(s) /\ label[s] # 0) ~> (~Exists(s) \/ blind \/ s \in dropped)
================================================================================
