---------------------------- MODULE SnapshotService ----------------------------
(***************************************************************************)
(* PersistedSnapshotService over its SQLite table, with the Docker or the  *)
(* Kubernetes snapshot runtime.  Three kinds of thread act on a record:    *)
(* the executor's workers, the requests that create and delete, and the    *)
(* thread that starts the server and recovers what a crash left unfinished *)
(* before any request is served.  A statement that reads or writes the     *)
(* table, or calls the runtime, is a step of its own.                      *)
(*                                                                         *)
(* A record is its state: restore_config.image is set exactly when the     *)
(* state becomes READY, and both runtimes find the artifact from the       *)
(* snapshot's id.  created_at orders the records as their ids do.          *)
(***************************************************************************)
EXTENDS Naturals, Sequences, FiniteSets

CONSTANTS MaxSnapshots,   \* snapshots requested in a behaviour
          Workers,        \* threads of the executor
          Requests,       \* requests that can be in progress at once
          PageSizes,      \* values of SNAPSHOT_RECOVERY_PAGE_SIZE to check
          MaxCrashes,     \* crashes in a behaviour
          Kinds           \* runtimes to check: "docker", "kubernetes"

NoRecord == "NoRecord"
SnapshotState == {"CREATING", "READY", "FAILED", "DELETING"}
Snapshots == 1 .. MaxSnapshots

Main == "main"
Threads == Workers \cup Requests \cup {Main}
NoSnapshot == 0

\* The starting thread is none of the others, and no thread has two roles
ASSUME ThreadsAreDistinct ==
    /\ Workers \cap Requests = {}
    /\ Main \notin Workers \cup Requests
ASSUME BoundsAreNat ==
    /\ MaxSnapshots \in Nat /\ MaxCrashes \in Nat /\ PageSizes \subseteq Nat \ {0}
    /\ Kinds \subseteq {"docker", "kubernetes"}

VARIABLES
    config,      \* the snapshot runtime and the page size of the recovery
    created,     \* how many snapshots have been accepted; ids in order
    db,          \* id -> state of the row, or NoRecord
    artifact,    \* id -> the image, or the SandboxSnapshot object: "absent",
                 \* "pending" (commit running), "ready" or "failed"
    queue,       \* the executor's queue of snapshot ids
    thread,      \* thread -> [at, on, got]: next statement, snapshot, what
                 \* the statement before it returned
    page,        \* id -> state as listed, for the records still to recover
    progressed,  \* the recovery loop's flag
    crashes,     \* how many crashes have happened
    outlived,    \* history: snapshots whose commit was still running in the
                 \* Docker daemon when the call or the server that asked ended
    beyond       \* history: snapshots that were once beyond the first page

vars == <<config, created, db, artifact, queue, thread, page, progressed, crashes, outlived, beyond>>

Idle == [at |-> "idle", on |-> NoSnapshot, got |-> "none"]
Looping(place) == [at |-> place, on |-> NoSnapshot, got |-> "none"]
Serving == thread[Main].at = "serving"

\* Thread t goes on at a statement, keeping its snapshot, with a result
Goto(t, place, result) ==
    thread' = [thread EXCEPT ![t].at = place, ![t].got = result]

\* Mutant: the recovery ends with its first record
ReturnOnce(t) == thread' = [thread EXCEPT ![t] = Idle]

\* _complete_snapshot and delete_snapshot return: to the recovery loop in
\* the starting thread, to the pool or the client in the others
Return(t) ==
    thread' = [thread EXCEPT ![t] = IF t = Main THEN Looping("visit") ELSE Idle]

Init ==
    /\ config \in [runtime : Kinds, pageSize : PageSizes]
    /\ created = 0
    /\ db = [s \in Snapshots |-> NoRecord]
    /\ artifact = [s \in Snapshots |-> "absent"]
    /\ queue = <<>>
    /\ thread = [t \in Threads |-> IF t = Main THEN Looping("list") ELSE Idle]
    /\ page = [s \in {} |-> NoRecord]
    /\ progressed = FALSE
    /\ crashes = 0
    /\ outlived = {}
    /\ beyond = {}

-----------------------------------------------------------------------------
(* The runtimes *)

\* Commits in the daemon that nobody will wait for once the calls end
LeftRunning(calls) ==
    outlived' = outlived \cup {s \in calls : config.runtime = "docker" /\ artifact'[s] = "pending"}

\* What images.get or the custom object API shows: a Docker commit has no
\* image until it ends, a SandboxSnapshot exists from its creation on
Visible(s) == IF config.runtime = "docker" THEN artifact[s] = "ready"
                                    ELSE artifact[s] # "absent"

\* inspect_snapshot: what it may report.  When the runtime cannot be asked
\* Docker's reports FAILED and Kubernetes' CREATING.  A SandboxSnapshot that
\* succeeded without a restorable image is FAILED too.
Inspect(s) ==
    IF config.runtime = "docker"
    THEN {"FAILED"} \cup (IF Visible(s) THEN {"READY"} ELSE {})
    ELSE CASE artifact[s] = "ready"   -> {"CREATING", "READY", "FAILED"}
           [] artifact[s] = "pending" -> {"CREATING"}
           [] OTHER                   -> {"CREATING", "FAILED"}

\* delete_snapshot of a runtime that succeeds: an artifact that is not
\* visible is taken as deleted already.  With Kubernetes "absent" means that
\* the deletion was accepted: the SandboxSnapshot stays, terminating, until its
\* controller takes off the finalizer, which the server does not wait for.
RuntimeDelete(s) ==
    artifact' = IF Visible(s) THEN [artifact EXCEPT ![s] = "absent"] ELSE artifact

\* The daemon, or the SandboxSnapshot controller, ends a commit
CommitEnds(s) ==
    /\ artifact[s] = "pending"
    /\ \E end \in {"ready", IF config.runtime = "docker" THEN "absent" ELSE "failed"} :
           artifact' = [artifact EXCEPT ![s] = end]
    /\ UNCHANGED <<config, created, db, queue, thread, page, progressed, crashes, outlived, beyond>>

-----------------------------------------------------------------------------
(* create_snapshot and its worker *)

\* create_snapshot: the row is written ...
AcceptCreate(t) ==
    /\ Serving
    /\ thread[t] = Idle
    /\ created < MaxSnapshots
    /\ created' = created + 1
    /\ db' = [db EXCEPT ![created + 1] = "CREATING"]
    /\ thread' = [thread EXCEPT ![t] = [at |-> "submit", on |-> created + 1, got |-> "none"]]
    /\ UNCHANGED <<config, artifact, queue, page, progressed, crashes, outlived, beyond>>

\* Mutant: recovery leaves a snapshot that is still being created alone
SubmitOnlyNew(t) ==
    /\ thread[t].at = "submit"
    /\ queue' = IF t = Main THEN queue ELSE Append(queue, thread[t].on)
    /\ Return(t)
    /\ UNCHANGED <<config, created, db, artifact, page, progressed, crashes, outlived, beyond>>

\* ... and then the worker is submitted
Submit(t) ==
    /\ thread[t].at = "submit"
    /\ queue' = Append(queue, thread[t].on)
    /\ Return(t)
    /\ UNCHANGED <<config, created, db, artifact, page, progressed, crashes, outlived, beyond>>

\* A free thread of the executor takes the oldest submission
StartWorker(t) ==
    /\ thread[t] = Idle
    /\ queue # <<>>
    /\ queue' = Tail(queue)
    /\ thread' = [thread EXCEPT ![t] = [at |-> "create", on |-> Head(queue), got |-> "none"]]
    /\ UNCHANGED <<config, created, db, artifact, page, progressed, crashes, outlived, beyond>>

\* create_snapshot of the runtime asks for the commit.  The SandboxSnapshot
\* may exist already (409): it names the same sandbox, so the worker waits for
\* it.  The call may also fail, before or after the request took effect.
RuntimeCreate(t) ==
    LET s == thread[t].on
        asked == [artifact EXCEPT ![s] = IF @ = "absent" THEN "pending" ELSE @]
    IN /\ thread[t].at = "create"
       /\ \/ artifact' = asked /\ Goto(t, "wait", "none")
          \/ artifact' \in {artifact, asked} /\ Goto(t, "complete", "FAILED")
       /\ IF thread'[t].at = "wait" THEN UNCHANGED outlived ELSE LeftRunning({s})
       /\ UNCHANGED <<config, created, db, queue, page, progressed, crashes, beyond>>

\* The commit call returns, or a poll of _wait_for_terminal_snapshot finds a
\* terminal phase or the deadline passed; a Docker call can time out as well
\* while the daemon goes on with the commit
AwaitCommit(t) ==
    LET s == thread[t].on
        answers == IF config.runtime = "docker" /\ artifact[s] = "ready"
                   THEN {"READY", "FAILED"} ELSE Inspect(s)
    IN /\ thread[t].at = "wait"
       /\ \E answer \in (answers \ {"CREATING"}) \cup {"FAILED"} : Goto(t, "complete", answer)
       /\ UNCHANGED artifact
       /\ LeftRunning({s})
       /\ UNCHANGED <<config, created, db, queue, page, progressed, crashes, beyond>>

\* _complete_snapshot reads the row: an artifact nobody records any more is
\* cleaned up, and a record that is not CREATING is left alone
CompleteRead(t) ==
    LET s == thread[t].on
        made == thread[t].got = "READY"
    IN /\ thread[t].at = "complete"
       /\ CASE db[s] = "CREATING"             -> Goto(t, "update", thread[t].got)
            [] db[s] = "DELETING" /\ made     -> Goto(t, "cleanupErase", "none")
            [] db[s] = "DELETING" /\ ~made    -> Goto(t, "erase", "none")
            [] db[s] = NoRecord /\ made       -> Goto(t, "cleanup", "none")
            [] OTHER                          -> Return(t)
       /\ UNCHANGED <<config, created, db, artifact, queue, page, progressed, crashes, outlived, beyond>>

\* Mutant: the row is updated whatever its state has become
CompleteUpdateAlways(t) ==
    /\ thread[t].at = "update"
    /\ db' = [db EXCEPT ![thread[t].on] = thread[t].got]
    /\ Return(t)
    /\ UNCHANGED <<config, created, artifact, queue, page, progressed, crashes, outlived, beyond>>

\* update_if_state(updated, CREATING): the row changes only if it still is
CompleteUpdate(t) ==
    LET s == thread[t].on
    IN /\ thread[t].at = "update"
       /\ db' = IF db[s] = "CREATING" THEN [db EXCEPT ![s] = thread[t].got] ELSE db
       /\ Return(t)
       /\ UNCHANGED <<config, created, artifact, queue, page, progressed, crashes, outlived, beyond>>

\* _cleanup_runtime_artifact: a failure is logged and otherwise ignored, and
\* the row of a DELETING record is removed either way
Cleanup(t) ==
    /\ thread[t].at \in {"cleanup", "cleanupErase"}
    /\ \E result \in {"ok", "error"} :
          /\ IF result = "ok" THEN RuntimeDelete(thread[t].on) ELSE UNCHANGED artifact
          /\ IF thread[t].at = "cleanup" THEN Return(t) ELSE Goto(t, "erase", result)
    /\ UNCHANGED <<config, created, db, queue, page, progressed, crashes, outlived, beyond>>

-----------------------------------------------------------------------------
(* delete_snapshot *)

\* Mutant: the artifact is deleted before the row is marked
DeleteReadUnmarked(t, s) ==
    /\ Serving
    /\ thread[t] = Idle
    /\ db[s] \notin {NoRecord, "CREATING"}
    /\ thread' = [thread EXCEPT ![t] = [at |-> "purge", on |-> s, got |-> db[s]]]
    /\ UNCHANGED <<config, created, db, artifact, queue, page, progressed, crashes, outlived, beyond>>

\* The row is read: an absent one is a 404, a CREATING one a 409, a DELETING
\* one goes on where an earlier request stopped
DeleteRead(t, s) ==
    /\ Serving
    /\ thread[t] = Idle
    /\ db[s] \notin {NoRecord, "CREATING"}
    /\ thread' = [thread EXCEPT ![t] =
                    [at |-> IF db[s] = "DELETING" THEN "purge" ELSE "mark",
                     on |-> s, got |-> db[s]]]
    /\ UNCHANGED <<config, created, db, artifact, queue, page, progressed, crashes, outlived, beyond>>

\* _mark_snapshot_deleting: compare-and-set from the state that was read
Mark(t) ==
    LET s == thread[t].on
    IN /\ thread[t].at = "mark"
       /\ IF db[s] = thread[t].got
          THEN db' = [db EXCEPT ![s] = "DELETING"] /\ Goto(t, "purge", "none")
          ELSE UNCHANGED db /\ Goto(t, "reread", "none")
       /\ UNCHANGED <<config, created, artifact, queue, page, progressed, crashes, outlived, beyond>>

\* It lost the race: go on if the other one marked it too, else give up
Reread(t) ==
    /\ thread[t].at = "reread"
    /\ IF db[thread[t].on] = "DELETING" THEN Goto(t, "purge", "none") ELSE Return(t)
    /\ UNCHANGED <<config, created, db, artifact, queue, page, progressed, crashes, outlived, beyond>>

\* Mutant: a failure of the runtime is ignored
PurgeIgnoringFailure(t) ==
    /\ thread[t].at = "purge"
    /\ RuntimeDelete(thread[t].on) \/ UNCHANGED artifact
    /\ Goto(t, "erase", "ok")
    /\ UNCHANGED <<config, created, db, queue, page, progressed, crashes, outlived, beyond>>

\* The runtime deletes the artifact.  A failure, such as an image that a
\* container uses, ends the request, or this record's recovery, and the
\* record stays DELETING.
Purge(t) ==
    /\ thread[t].at = "purge"
    /\ \/ RuntimeDelete(thread[t].on) /\ Goto(t, "erase", "ok")
       \/ UNCHANGED artifact /\ Return(t)
    /\ UNCHANGED <<config, created, db, queue, page, progressed, crashes, outlived, beyond>>

\* The repository deletes the row, whatever its state
Erase(t) ==
    /\ thread[t].at = "erase"
    /\ db' = [db EXCEPT ![thread[t].on] = NoRecord]
    /\ Return(t)
    /\ progressed' = (progressed \/ t = Main)
    /\ UNCHANGED <<config, created, artifact, queue, page, crashes, outlived, beyond>>

-----------------------------------------------------------------------------
(* Recovery, run to its end before the server serves *)

Unfinished == {s \in Snapshots : db[s] \in {"CREATING", "DELETING"}}
FirstPage == {s \in Unfinished : Cardinality({r \in Unfinished : r > s}) < config.pageSize}

\* Top of the loop: list the newest unfinished records
RecoverList ==
    /\ thread[Main].at = "list"
    /\ page' = [s \in FirstPage |-> db[s]]
    /\ progressed' = FALSE
    /\ beyond' = beyond \cup (Unfinished \ FirstPage)
    /\ thread' = [thread EXCEPT ![Main] = Looping(IF Unfinished = {} THEN "serving" ELSE "visit")]
    /\ UNCHANGED <<config, created, db, artifact, queue, crashes, outlived>>

\* _recover_unfinished_snapshot for the next record of the page, newest first,
\* with the state it was listed with
RecoverVisit ==
    /\ thread[Main].at = "visit"
    /\ \E s \in DOMAIN page :
         /\ \A r \in DOMAIN page : r <= s
         /\ page' = [r \in DOMAIN page \ {s} |-> page[r]]
         /\ \/ /\ page[s] = "CREATING"
               /\ \E answer \in Inspect(s) :
                    /\ thread' = [thread EXCEPT ![Main] =
                         [at |-> IF answer = "CREATING" THEN "submit" ELSE "complete",
                          on |-> s, got |-> answer]]
                    /\ progressed' = (progressed \/ answer # "CREATING")
            \/ /\ page[s] = "DELETING"
               /\ thread' = [thread EXCEPT ![Main] = [at |-> "purge", on |-> s, got |-> "none"]]
               /\ UNCHANGED progressed
    /\ UNCHANGED <<config, created, db, artifact, queue, crashes, outlived, beyond>>

\* Mutant: again as long as the page was not empty
RecoverEndUnfinished ==
    /\ thread[Main].at = "visit"
    /\ DOMAIN page = {}
    /\ thread' = [thread EXCEPT ![Main] = Looping(IF Unfinished # {} THEN "list" ELSE "serving")]
    /\ UNCHANGED <<config, created, db, artifact, queue, page, progressed, crashes, outlived, beyond>>

\* End of the page: again if a record got further, else start serving
RecoverEnd ==
    /\ thread[Main].at = "visit"
    /\ DOMAIN page = {}
    /\ thread' = [thread EXCEPT ![Main] = Looping(IF progressed THEN "list" ELSE "serving")]
    /\ UNCHANGED <<config, created, db, artifact, queue, page, progressed, crashes, outlived, beyond>>

\* The process dies: threads, queue and loop are lost; the table, the
\* artifacts and a commit that is running are not.  close() waits for the
\* queue and the workers instead, so what it leaves a crash can leave too.
Crash ==
    /\ crashes < MaxCrashes
    /\ crashes' = crashes + 1
    /\ queue' = <<>>
    /\ thread' = [t \in Threads |-> IF t = Main THEN Looping("list") ELSE Idle]
    /\ page' = [s \in {} |-> NoRecord]
    /\ progressed' = FALSE
    /\ UNCHANGED <<config, created, db, artifact, beyond>>
    /\ LeftRunning(Snapshots)

-----------------------------------------------------------------------------
WorkerStep(t) == StartWorker(t) \/ RuntimeCreate(t) \/ AwaitCommit(t)
RequestStep(t) == Mark(t) \/ Reread(t)
SharedStep(t) == Submit(t) \/ CompleteRead(t) \/ CompleteUpdate(t)
                 \/ Cleanup(t) \/ Purge(t) \/ Erase(t)
RecoveryStep == RecoverList \/ RecoverVisit \/ RecoverEnd

Next ==
    \/ \E t \in Workers : WorkerStep(t)
    \/ \E t \in Requests : AcceptCreate(t) \/ RequestStep(t) \/ \E s \in Snapshots : DeleteRead(t, s)
    \/ \E t \in Threads : SharedStep(t)
    \/ RecoveryStep
    \/ \E s \in Snapshots : CommitEnds(s)
    \/ Crash

Spec == Init /\ [][Next]_vars

\* Every thread that has something to do is scheduled, the pool's threads
\* take queued work, and start-up goes on.  Nothing makes a client send a
\* request or a server crash, and the daemon may never answer: a worker's
\* wait ends by its timeout.
Fairness ==
    /\ \A t \in Workers : WF_vars(WorkerStep(t))
    /\ \A t \in Requests : WF_vars(RequestStep(t))
    /\ \A t \in Threads : WF_vars(SharedStep(t))
    /\ WF_vars(RecoveryStep)

FairSpec == Spec /\ Fairness

-----------------------------------------------------------------------------
(* Properties *)

Places == {"idle", "submit", "create", "wait", "complete", "update", "cleanup",
           "cleanupErase", "mark", "reread", "purge", "erase", "list", "visit", "serving"}

\* Every variable holds a value its declaration describes
TypeOK ==
    /\ config \in [runtime : Kinds, pageSize : PageSizes]
    /\ created \in 0 .. MaxSnapshots
    /\ db \in [Snapshots -> SnapshotState \cup {NoRecord}]
    /\ artifact \in [Snapshots -> {"absent", "pending", "ready", "failed"}]
    /\ queue \in Seq(Snapshots)
    /\ thread \in [Threads -> [at : Places, on : Snapshots \cup {NoSnapshot},
                               got : SnapshotState \cup {"none", "ok", "error"}]]
    /\ DOMAIN page \subseteq Snapshots
    /\ \A s \in DOMAIN page : page[s] \in {"CREATING", "DELETING"}
    /\ progressed \in BOOLEAN
    /\ crashes \in 0 .. MaxCrashes
    /\ outlived \cup beyond \subseteq Snapshots
    /\ thread[Main].at # "idle"

\* A READY snapshot can be restored: its image, or its SandboxSnapshot, is
\* there.  Workers that finish late, a deletion that failed half way and a
\* restart between the commit and the row must not leave a READY row behind
\* (_complete_snapshot, _mark_snapshot_deleting, recover_unfinished_snapshots).
ReadyIsBacked == \A s \in Snapshots : db[s] = "READY" => artifact[s] = "ready"

\* The table follows the life cycle the API describes, however many workers,
\* requests and restarts act on one row: a creation ends once, a DELETING row
\* never becomes usable again, only a DELETING row is removed
\* (update_if_state, delete).
Lifecycle == INSTANCE SnapshotLifecycle WITH created <- created, db <- db
FollowsLifecycle == Lifecycle!LifecycleSpec

\* A worker for s is running or queued
HasWorker(s) ==
    \/ \E t \in Workers : thread[t].on = s
    \/ \E i \in 1 .. Len(queue) : queue[i] = s

\* A row is removed only once nothing is left of its artifact, or with
\* Kubernetes once the deletion of its object was accepted.  With Docker the
\* one exception is a commit the daemon went on with when nobody waited for it
\* any more; with Kubernetes it is a second worker for the same snapshot, which
\* recovery submits when it visits a record twice: it may create the object
\* again, or remove the row of a deletion that is still going on
\* (delete_snapshot, _complete_snapshot, _recover_unfinished_snapshot).
EraseLeavesNothing ==
    [][\A s \in Snapshots :
         db[s] # NoRecord /\ db'[s] = NoRecord =>
            \/ artifact[s] = "absent"
            \/ IF config.runtime = "docker" THEN s \in outlived ELSE HasWorker(s)]_vars

\* Start-up ends: the recovery loop lists the first page again only while it
\* gets records out of the unfinished states (recover_unfinished_snapshots)
StartupEnds == thread[Main].at # "serving" ~> Serving

\* A snapshot does not stay CREATING: its worker ends it, or, when the server
\* died first, the recovery that follows does.  Only a record that was beyond the
\* first page may be left, behind newer ones whose deletion keeps failing
\* (_create_snapshot_worker, recover_unfinished_snapshots).
CreatingEnds ==
    \A s \in Snapshots : db[s] = "CREATING" ~> (db[s] # "CREATING" \/ s \in beyond)
================================================================================
