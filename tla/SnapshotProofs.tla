---------------------------- MODULE SnapshotProofs ----------------------------
(***************************************************************************)
(* Proofs about SnapshotService, for any number of snapshots, workers,     *)
(* requests and crashes, any page size and either runtime: its variables   *)
(* have their types, a READY snapshot has its artifact, the table follows  *)
(* SnapshotLifecycle, and a row is removed only once nothing is left of    *)
(* its artifact.                                                           *)
(*                                                                         *)
(* A thread acts on what it read some steps earlier.  The inductive        *)
(* invariant SnapshotInv says what of it is still true: a thread on its    *)
(* way to remove a row finds it DELETING or gone, and the artifact behind  *)
(* a result READY is there as long as the row is CREATING.  For the        *)
(* removals EraseInv adds which thread makes a snapshot (with Docker, one  *)
(* at a time), who waits for a commit that is running, and that a request  *)
(* past the runtime's deletion has nothing left to delete.                 *)
(***************************************************************************)
EXTENDS SnapshotService, TLAPS

Results == SnapshotState \cup {"none", "ok", "error"}
ThreadRecord == [at : Places, on : Snapshots \cup {NoSnapshot}, got : Results]
Ending == {"DELETING", NoRecord}
Unoccupied == {"idle", "list", "visit", "serving"}

\* What thread record x may rely on when n snapshots were accepted, d is the
\* table and a the artifacts
SaneIn(x, n, d, a) ==
    /\ x.at \notin Unoccupied => x.on \in 1 .. n
    /\ x.at \in {"complete", "update", "mark"} => x.got \in {"READY", "FAILED"}
    /\ x.at \in {"purge", "erase", "cleanup", "cleanupErase"} => d[x.on] \in Ending
    /\ x.at \in {"complete", "update"} /\ x.got = "READY" /\ d[x.on] = "CREATING"
           => a[x.on] = "ready"

\* The inductive invariant
SnapshotInv ==
    /\ TypeOK
    /\ queue \in Seq(1 .. created)
    /\ \A s \in Snapshots : db[s] # NoRecord => s <= created
    /\ DOMAIN page \subseteq 1 .. created
    /\ \A s \in DOMAIN page : page[s] = "DELETING" => db[s] \in Ending
    /\ \A t \in Threads : SaneIn(thread[t], created, db, artifact)
    /\ ReadyIsBacked

\* What a step may do to the record and the artifact of an accepted snapshot
\* without disturbing any thread that works on it
KeptSane(n, d, d2, a, a2) ==
    \A s \in 1 .. n :
        /\ d[s] \in Ending => d2[s] \in Ending
        /\ d2[s] = "CREATING" => d[s] = "CREATING" /\ (a[s] = "ready" => a2[s] = "ready")

\* A thread that does not move stays sane when the step keeps KeptSane.
LEMMA SaneStays ==
    ASSUME NEW x \in ThreadRecord, NEW n \in Nat, NEW n2 \in Nat, n <= n2,
           NEW d, NEW d2, NEW a, NEW a2,
           SaneIn(x, n, d, a), KeptSane(n, d, d2, a, a2)
    PROVE  SaneIn(x, n2, d2, a2)
  <1>1. x.at \notin Unoccupied => x.on \in 1 .. n /\ x.on \in 1 .. n2
    BY DEF SaneIn, ThreadRecord, Snapshots
  <1>2. CASE x.at \in Unoccupied
    BY <1>2, Zenon DEF SaneIn, Unoccupied
  <1>3. CASE x.at \notin Unoccupied
    BY <1>1, <1>3, Zenon DEF SaneIn, KeptSane
  <1> QED
    BY <1>2, <1>3, Zenon

\* Goto moves one thread and keeps its snapshot.
LEMMA GotoMoves ==
    ASSUME TypeOK, NEW t \in Threads, NEW place \in Places \ {"idle"}, NEW result \in Results,
           Goto(t, place, result)
    PROVE  /\ thread' \in [Threads -> ThreadRecord]
           /\ thread'[t] = [at |-> place, on |-> thread[t].on, got |-> result]
           /\ \A u \in Threads \ {t} : thread'[u] = thread[u]
           /\ thread'[Main].at # "idle"
  <1>1. thread \in [Threads -> ThreadRecord]
    BY Zenon DEF TypeOK, ThreadRecord, Results
  <1>2. thread[t] \in ThreadRecord
    BY <1>1, Zenon
  <1>3. [at |-> place, on |-> thread[t].on, got |-> result] \in ThreadRecord
    BY <1>2, Zenon DEF ThreadRecord
  <1>4. /\ DOMAIN thread' = Threads
        /\ \A u \in Threads \ {t} : thread'[u] = thread[u]
    BY <1>1, Zenon DEF Goto
  <1>5. thread'[t] = [[thread[t] EXCEPT !.at = place] EXCEPT !.got = result]
    BY <1>1, Zenon DEF Goto
  <1>6. thread'[t] = [at |-> place, on |-> thread[t].on, got |-> result]
    BY <1>2, <1>5, Zenon DEF ThreadRecord
  <1>7. thread' \in [Threads -> ThreadRecord]
    <2>1. thread' = [u \in Threads |-> thread'[u]]
      BY <1>1, Zenon DEF Goto
    <2> QED
      BY <2>1, <1>1, <1>3, <1>4, <1>6, Zenon
  <1>8. Main \in Threads
    BY Zenon DEF Threads
  <1> QED
    BY <1>4, <1>6, <1>7, <1>8 DEF TypeOK

\* Return leaves a thread that relies on nothing.
LEMMA ReturnMoves ==
    ASSUME TypeOK, NEW t \in Threads, Return(t)
    PROVE  /\ thread' \in [Threads -> ThreadRecord]
           /\ thread'[t].at \in Unoccupied
           /\ \A u \in Threads \ {t} : thread'[u] = thread[u]
           /\ thread'[Main].at # "idle"
  <1>1. thread \in [Threads -> ThreadRecord]
    BY Zenon DEF TypeOK, ThreadRecord, Results
  <1>2. Idle \in ThreadRecord /\ Idle.at = "idle"
    BY Zenon DEF Idle, ThreadRecord, Places, Results, NoSnapshot
  <1>3. Looping("visit") \in ThreadRecord /\ Looping("visit").at = "visit"
    BY Zenon DEF Looping, Idle, ThreadRecord, Places, Results, NoSnapshot
  <1>4. Main \in Threads
    BY Zenon DEF Threads
  <1> QED
    BY <1>1, <1>2, <1>3, <1>4, Zenon DEF Return, TypeOK, Unoccupied

\* What the steps of thread t have in common: it is left with a record that is
\* sane, and nothing the other threads rely on changes.
LEMMA ThreadsStaySane ==
    ASSUME SnapshotInv, NEW t \in Threads, created' \in Nat, created <= created',
           \A u \in Threads \ {t} : thread'[u] = thread[u],
           SaneIn(thread'[t], created', db', artifact'),
           KeptSane(created, db, db', artifact, artifact')
    PROVE  \A u \in Threads : SaneIn(thread'[u], created', db', artifact')
  <1>1. \A u \in Threads : thread[u] \in ThreadRecord /\ SaneIn(thread[u], created, db, artifact)
    BY Zenon DEF SnapshotInv, TypeOK, ThreadRecord, Results
  <1>2. created \in Nat
    BY BoundsAreNat DEF SnapshotInv, TypeOK
  <1>3. \A u \in Threads \ {t} : SaneIn(thread[u], created', db', artifact')
    BY <1>1, <1>2, SaneStays, Zenon
  <1> QED
    BY <1>3, Zenon

\* A thread without a snapshot relies on nothing.
LEMMA UnoccupiedIsSane ==
    ASSUME NEW x, x.at \in Unoccupied, NEW n, NEW d, NEW a
    PROVE  SaneIn(x, n, d, a)
  BY Zenon DEF SaneIn, Unoccupied

\* The server starts with nothing to recover.
LEMMA InitInv == Init => SnapshotInv
  <1> SUFFICES ASSUME Init PROVE SnapshotInv
    BY Zenon
  <1>1. Idle \in ThreadRecord /\ Looping("list") \in ThreadRecord
    BY Zenon DEF Idle, Looping, ThreadRecord, Places, Results, NoSnapshot
  <1>2. thread \in [Threads -> ThreadRecord]
    BY <1>1, Zenon DEF Init
  <1>3. \A t \in Threads : thread[t].at \in Unoccupied
    BY Zenon DEF Init, Idle, Looping, Unoccupied
  <1>4. thread[Main].at # "idle"
    BY Zenon DEF Init, Threads, Looping, Idle
  <1>5. TypeOK
    <2>1. created \in 0 .. MaxSnapshots /\ crashes \in 0 .. MaxCrashes
      BY BoundsAreNat DEF Init
    <2>2. queue \in Seq(Snapshots)
      BY DEF Init
    <2> QED
      BY <1>2, <1>4, <2>1, <2>2, Zenon DEF Init, TypeOK, ThreadRecord, Results
  <1>6. queue \in Seq(1 .. created)
    BY DEF Init
  <1>7. \A t \in Threads : SaneIn(thread[t], created, db, artifact)
    BY <1>3, UnoccupiedIsSane, Zenon
  <1> QED
    BY <1>5, <1>6, <1>7, Zenon DEF Init, SnapshotInv, ReadyIsBacked, NoRecord

\* Most steps leave the list of the recovery alone: what is left to prove is
\* their effect on the threads, the table, the artifacts and the queue.
LEMMA StepFacts ==
    ASSUME SnapshotInv, NEW t \in Threads,
           UNCHANGED <<config, created, page, crashes>>,
           progressed' \in BOOLEAN,
           outlived' \subseteq Snapshots, beyond' \subseteq Snapshots,
           db' \in [Snapshots -> SnapshotState \cup {NoRecord}],
           artifact' \in [Snapshots -> {"absent", "pending", "ready", "failed"}],
           queue' \in Seq(1 .. created),
           thread' \in [Threads -> ThreadRecord],
           \A u \in Threads \ {t} : thread'[u] = thread[u],
           thread'[Main].at # "idle",
           SaneIn(thread'[t], created, db', artifact'),
           KeptSane(created, db, db', artifact, artifact'),
           \A s \in Snapshots : db[s] = NoRecord => db'[s] = NoRecord,
           ReadyIsBacked'
    PROVE  SnapshotInv'
  <1>1. created \in Nat /\ created <= MaxSnapshots /\ MaxSnapshots \in Nat
    BY BoundsAreNat DEF SnapshotInv, TypeOK
  <1>2. \A u \in Threads : SaneIn(thread'[u], created', db', artifact')
    BY <1>1, ThreadsStaySane
  <1>3. queue' \in Seq(Snapshots)
    BY <1>1 DEF Snapshots
  <1>4. TypeOK'
    BY <1>3, Zenon DEF SnapshotInv, TypeOK, ThreadRecord, Results
  <1>5. \A s \in DOMAIN page : page[s] = "DELETING" => db'[s] \in Ending
    BY Zenon DEF SnapshotInv, KeptSane
  <1> QED
    BY <1>2, <1>4, <1>5, Zenon DEF SnapshotInv

\* Facts about the state a step starts from.
LEMMA BeforeStep ==
    ASSUME SnapshotInv, NEW t \in Threads
    PROVE  /\ created \in Nat
           /\ MaxSnapshots \in Nat
           /\ 1 .. created \subseteq Snapshots
           /\ thread[t] \in ThreadRecord
           /\ thread[t].at \notin Unoccupied => thread[t].on \in 1 .. created
           /\ SaneIn(thread[t], created, db, artifact)
           /\ KeptSane(created, db, db, artifact, artifact)
  <1>1. created \in Nat /\ created <= MaxSnapshots /\ MaxSnapshots \in Nat
    BY BoundsAreNat DEF SnapshotInv, TypeOK
  <1>2. thread[t] \in ThreadRecord
    BY Zenon DEF SnapshotInv, TypeOK, ThreadRecord, Results
  <1>3. SaneIn(thread[t], created, db, artifact)
    BY Zenon DEF SnapshotInv
  <1> QED
    BY <1>1, <1>2, <1>3 DEF SaneIn, KeptSane, Snapshots

\* A step that only moves a thread, or submits a snapshot.
LEMMA QuietStep ==
    ASSUME SnapshotInv, NEW t \in Threads,
           UNCHANGED <<config, created, db, artifact, page, crashes>>,
           progressed' \in BOOLEAN,
           outlived' \subseteq Snapshots, beyond' \subseteq Snapshots,
           queue' \in Seq(1 .. created),
           thread' \in [Threads -> ThreadRecord],
           \A u \in Threads \ {t} : thread'[u] = thread[u],
           thread'[Main].at # "idle",
           SaneIn(thread'[t], created, db, artifact)
    PROVE  SnapshotInv'
  <1>1. ReadyIsBacked'
    BY Zenon DEF SnapshotInv, ReadyIsBacked
  <1>2. /\ db' \in [Snapshots -> SnapshotState \cup {NoRecord}]
        /\ artifact' \in [Snapshots -> {"absent", "pending", "ready", "failed"}]
    BY Zenon DEF SnapshotInv, TypeOK
  <1>3. KeptSane(created, db, db', artifact, artifact')
    BY BeforeStep, Zenon
  <1>4. SaneIn(thread'[t], created, db', artifact')
    BY Zenon
  <1> QED
    BY <1>1, <1>2, <1>3, <1>4, StepFacts, Zenon

\* A thread goes on, with its snapshot, at a place where it is sane.
LEMMA GotoIsQuiet ==
    ASSUME SnapshotInv, NEW t \in Threads, NEW place \in Places \ {"idle"}, NEW result \in Results,
           Goto(t, place, result),
           UNCHANGED <<config, created, db, artifact, queue, page, progressed, crashes, beyond>>,
           outlived' \subseteq Snapshots,
           SaneIn([at |-> place, on |-> thread[t].on, got |-> result], created, db, artifact)
    PROVE  SnapshotInv'
  <1>1. TypeOK /\ queue' \in Seq(1 .. created) /\ progressed' \in BOOLEAN /\ beyond' \subseteq Snapshots
    BY Zenon DEF SnapshotInv, TypeOK
  <1> QED
    BY <1>1, GotoMoves, QuietStep

\* A thread returns.
LEMMA ReturnIsQuiet ==
    ASSUME SnapshotInv, NEW t \in Threads, Return(t),
           UNCHANGED <<config, created, db, artifact, page, progressed, crashes, outlived, beyond>>,
           queue' \in Seq(1 .. created)
    PROVE  SnapshotInv'
  <1>1. TypeOK /\ progressed' \in BOOLEAN /\ beyond' \subseteq Snapshots /\ outlived' \subseteq Snapshots
    BY Zenon DEF SnapshotInv, TypeOK
  <1> QED
    BY <1>1, ReturnMoves, UnoccupiedIsSane, QuietStep, Zenon

\* The executor is given the snapshot the thread worked on.
LEMMA SubmitStep ==
    ASSUME SnapshotInv, NEW t \in Threads, Submit(t)
    PROVE  SnapshotInv'
  <1>1. thread[t].on \in 1 .. created
    BY BeforeStep, Zenon DEF Submit, Unoccupied
  <1>2. queue' \in Seq(1 .. created)
    BY <1>1 DEF Submit, SnapshotInv
  <1> QED
    BY <1>2, ReturnIsQuiet, Zenon DEF Submit

\* A worker that ended learns what became of the row.
LEMMA CompleteReadStep ==
    ASSUME SnapshotInv, NEW t \in Threads, CompleteRead(t)
    PROVE  SnapshotInv'
  <1>1. /\ thread[t].on \in 1 .. created
        /\ SaneIn(thread[t], created, db, artifact)
    BY BeforeStep, Zenon DEF CompleteRead, Unoccupied
  <1>2. thread[t].got \in {"READY", "FAILED"}
    BY <1>1, Zenon DEF CompleteRead, SaneIn
  <1>3. /\ UNCHANGED <<config, created, db, artifact, queue, page, progressed, crashes, outlived, beyond>>
        /\ queue' \in Seq(1 .. created) /\ outlived' \subseteq Snapshots
    BY Zenon DEF CompleteRead, SnapshotInv, TypeOK
  <1>4. CASE Goto(t, "update", thread[t].got) /\ db[thread[t].on] = "CREATING"
    <2>1. "update" \in Places \ {"idle"} /\ thread[t].got \in Results
      BY <1>2, Zenon DEF Places, Results, SnapshotState
    <2>2. SaneIn([at |-> "update", on |-> thread[t].on, got |-> thread[t].got], created, db, artifact)
      BY <1>1, <1>2, Zenon DEF SaneIn, CompleteRead
    <2> QED
      BY <1>3, <1>4, <2>1, <2>2, GotoIsQuiet, Zenon
  <1>5. ASSUME NEW place \in {"erase", "cleanup", "cleanupErase"},
               db[thread[t].on] \in Ending, Goto(t, place, "none")
        PROVE  SnapshotInv'
    <2>1. place \in Places \ {"idle"} /\ "none" \in Results
      BY Zenon DEF Places, Results
    <2>2. SaneIn([at |-> place, on |-> thread[t].on, got |-> "none"], created, db, artifact)
      BY <1>1, <1>5, Zenon DEF SaneIn
    <2> QED
      BY <1>3, <1>5, <2>1, <2>2, GotoIsQuiet, Zenon
  <1>6. CASE Return(t)
    BY <1>3, <1>6, ReturnIsQuiet, Zenon
  <1>7. \/ Goto(t, "update", thread[t].got) /\ db[thread[t].on] = "CREATING"
        \/ Goto(t, "cleanupErase", "none") /\ db[thread[t].on] \in Ending
        \/ Goto(t, "erase", "none") /\ db[thread[t].on] \in Ending
        \/ Goto(t, "cleanup", "none") /\ db[thread[t].on] \in Ending
        \/ Return(t)
    BY Zenon DEF CompleteRead, Ending
  <1> QED
    BY <1>4, <1>5, <1>6, <1>7, Zenon

\* A creation ends in a row that is CREATING, as the runtime reported it.
LEMMA CompleteUpdateStep ==
    ASSUME SnapshotInv, NEW t \in Threads, CompleteUpdate(t)
    PROVE  SnapshotInv'
  <1>1. /\ TypeOK /\ ReadyIsBacked /\ queue \in Seq(1 .. created)
        /\ progressed \in BOOLEAN /\ outlived \subseteq Snapshots /\ beyond \subseteq Snapshots
    BY Zenon DEF SnapshotInv, TypeOK
  <1>2. /\ thread[t].on \in Snapshots
        /\ SaneIn(thread[t], created, db, artifact)
    BY BeforeStep, Zenon DEF CompleteUpdate, Unoccupied
  <1>3. thread[t].got \in {"READY", "FAILED"}
    BY <1>2, Zenon DEF CompleteUpdate, SaneIn
  <1>4. UNCHANGED <<config, created, artifact, queue, page, progressed, crashes, outlived, beyond>>
    BY Zenon DEF CompleteUpdate
  <1>5. /\ db' \in [Snapshots -> SnapshotState \cup {NoRecord}]
        /\ artifact' \in [Snapshots -> {"absent", "pending", "ready", "failed"}]
    BY <1>1, <1>2, <1>3, <1>4, Zenon DEF CompleteUpdate, TypeOK, SnapshotState
  <1>6. \A s \in Snapshots :
            db'[s] = db[s] \/ (s = thread[t].on /\ db[s] = "CREATING" /\ db'[s] = thread[t].got)
    BY <1>1, <1>2, Zenon DEF CompleteUpdate, TypeOK
  <1>7. KeptSane(created, db, db', artifact, artifact')
    BY <1>3, <1>4, <1>6, BeforeStep, Zenon DEF KeptSane, Ending, NoRecord
  <1>8. ReadyIsBacked'
    BY <1>1, <1>2, <1>4, <1>6, Zenon DEF CompleteUpdate, ReadyIsBacked, SaneIn
  <1>9. \A s \in Snapshots : db[s] = NoRecord => db'[s] = NoRecord
    BY <1>6, Zenon DEF NoRecord
  <1>10. Return(t)
    BY Zenon DEF CompleteUpdate
  <1> QED
    BY <1>1, <1>4, <1>5, <1>7, <1>8, <1>9, <1>10, ReturnMoves, UnoccupiedIsSane, StepFacts, Zenon

\* The runtime's artifact may go once the row is DELETING or gone.
LEMMA DeletedArtifact ==
    ASSUME SnapshotInv, NEW s \in Snapshots, db[s] \in Ending,
           RuntimeDelete(s) \/ UNCHANGED artifact, UNCHANGED db
    PROVE  /\ artifact' \in [Snapshots -> {"absent", "pending", "ready", "failed"}]
           /\ KeptSane(created, db, db', artifact, artifact')
           /\ ReadyIsBacked'
  <1>1. \A r \in Snapshots \ {s} : artifact'[r] = artifact[r]
    BY Zenon DEF SnapshotInv, TypeOK, RuntimeDelete
  <1>2. artifact' \in [Snapshots -> {"absent", "pending", "ready", "failed"}]
    BY Zenon DEF SnapshotInv, TypeOK, RuntimeDelete
  <1>3. 1 .. created \subseteq Snapshots
    BY BoundsAreNat DEF SnapshotInv, TypeOK, Snapshots
  <1> QED
    BY <1>1, <1>2, <1>3, Zenon DEF SnapshotInv, ReadyIsBacked, KeptSane, Ending, NoRecord

\* Removing an artifact, on the way to removing the row or not.
LEMMA ArtifactStep ==
    ASSUME SnapshotInv, NEW t \in Threads,
           thread[t].at \in {"cleanup", "cleanupErase", "purge"},
           RuntimeDelete(thread[t].on) \/ UNCHANGED artifact,
           NEW result \in Results,
           Return(t) \/ Goto(t, "erase", result),
           UNCHANGED <<config, created, db, queue, page, progressed, crashes, outlived, beyond>>
    PROVE  SnapshotInv'
  <1>1. /\ TypeOK /\ queue \in Seq(1 .. created)
        /\ progressed \in BOOLEAN /\ outlived \subseteq Snapshots /\ beyond \subseteq Snapshots
        /\ db \in [Snapshots -> SnapshotState \cup {NoRecord}]
    BY Zenon DEF SnapshotInv, TypeOK
  <1>2. /\ thread[t].on \in 1 .. created /\ thread[t].on \in Snapshots
        /\ db[thread[t].on] \in Ending
    BY BeforeStep, Zenon DEF Unoccupied, SaneIn
  <1>3. /\ thread' \in [Threads -> ThreadRecord]
        /\ \A u \in Threads \ {t} : thread'[u] = thread[u]
        /\ thread'[Main].at # "idle"
        /\ SaneIn(thread'[t], created, db', artifact')
    <2>1. CASE Return(t)
      BY <1>1, <2>1, ReturnMoves, UnoccupiedIsSane, Zenon
    <2>2. CASE Goto(t, "erase", result)
      <3>1. "erase" \in Places \ {"idle"}
        BY Zenon DEF Places
      <3>2. SaneIn([at |-> "erase", on |-> thread[t].on, got |-> result], created, db', artifact')
        BY <1>2, Zenon DEF SaneIn
      <3> QED
        BY <1>1, <2>2, <3>1, <3>2, GotoMoves, Zenon
    <2> QED
      BY <2>1, <2>2, Zenon
  <1> QED
    BY <1>1, <1>2, <1>3, DeletedArtifact, StepFacts, Zenon

\* An artifact that no row needs any more goes, or stays.
LEMMA CleanupStep ==
    ASSUME SnapshotInv, NEW t \in Threads, Cleanup(t)
    PROVE  SnapshotInv'
  BY ArtifactStep, Zenon DEF Cleanup, Results

\* A deletion removes the artifact, or ends.
LEMMA PurgeStep ==
    ASSUME SnapshotInv, NEW t \in Threads, Purge(t)
    PROVE  SnapshotInv'
  BY ArtifactStep, Zenon DEF Purge, Results

\* A row is removed.
LEMMA EraseStep ==
    ASSUME SnapshotInv, NEW t \in Threads, Erase(t)
    PROVE  SnapshotInv'
  <1>1. /\ TypeOK /\ queue \in Seq(1 .. created) /\ ReadyIsBacked
        /\ outlived \subseteq Snapshots /\ beyond \subseteq Snapshots
        /\ artifact \in [Snapshots -> {"absent", "pending", "ready", "failed"}]
    BY Zenon DEF SnapshotInv, TypeOK
  <1>2. /\ UNCHANGED <<config, created, artifact, queue, page, crashes, outlived, beyond>>
        /\ progressed' \in BOOLEAN /\ Return(t)
    BY Zenon DEF Erase
  <1>3. thread[t].on \in Snapshots
    BY BeforeStep, Zenon DEF Erase, Unoccupied
  <1>4. /\ db' \in [Snapshots -> SnapshotState \cup {NoRecord}]
        /\ \A s \in Snapshots : db'[s] = db[s] \/ db'[s] = NoRecord
    BY <1>1, <1>3, Zenon DEF Erase, TypeOK
  <1>5. KeptSane(created, db, db', artifact, artifact')
    BY <1>2, <1>4, BeforeStep, Zenon DEF KeptSane, Ending, NoRecord
  <1>6. ReadyIsBacked'
    BY <1>1, <1>2, <1>4, Zenon DEF ReadyIsBacked, NoRecord
  <1> QED
    BY <1>1, <1>2, <1>4, <1>5, <1>6, ReturnMoves, UnoccupiedIsSane, StepFacts, Zenon

\* A deletion is recorded in the row, or was by somebody else.
LEMMA MarkStep ==
    ASSUME SnapshotInv, NEW t \in Threads, Mark(t)
    PROVE  SnapshotInv'
  <1>1. /\ TypeOK /\ queue \in Seq(1 .. created) /\ ReadyIsBacked
        /\ progressed \in BOOLEAN /\ outlived \subseteq Snapshots /\ beyond \subseteq Snapshots
        /\ artifact \in [Snapshots -> {"absent", "pending", "ready", "failed"}]
    BY Zenon DEF SnapshotInv, TypeOK
  <1>2. /\ UNCHANGED <<config, created, artifact, queue, page, progressed, crashes, outlived, beyond>>
        /\ "purge" \in Places \ {"idle"} /\ "reread" \in Places \ {"idle"} /\ "none" \in Results
    BY Zenon DEF Mark, Places, Results
  <1>3. /\ thread[t].on \in Snapshots /\ thread[t].on \in 1 .. created
    BY BeforeStep, Zenon DEF Mark, Unoccupied
  <1>4. CASE db[thread[t].on] = thread[t].got
    <2>0. db' = [db EXCEPT ![thread[t].on] = "DELETING"] /\ Goto(t, "purge", "none")
      BY <1>4, Zenon DEF Mark
    <2>1. /\ db' \in [Snapshots -> SnapshotState \cup {NoRecord}]
          /\ \A s \in Snapshots : db'[s] = IF s = thread[t].on THEN "DELETING" ELSE db[s]
      BY <1>1, <1>3, <2>0, Zenon DEF TypeOK, SnapshotState
    <2>2. KeptSane(created, db, db', artifact, artifact')
      BY <1>2, <2>1, BeforeStep, Zenon DEF KeptSane, Ending
    <2>3. ReadyIsBacked'
      BY <1>1, <1>2, <2>1, Zenon DEF ReadyIsBacked
    <2>4. SaneIn([at |-> "purge", on |-> thread[t].on, got |-> "none"], created, db', artifact')
      BY <1>3, <2>1, Zenon DEF SaneIn, Ending
    <2>5. \A s \in Snapshots : db[s] = NoRecord => db'[s] = NoRecord
      <3>1. SaneIn(thread[t], created, db, artifact)
        BY BeforeStep, Zenon
      <3>2. thread[t].got \in {"READY", "FAILED"}
        BY <3>1, Zenon DEF Mark, SaneIn
      <3> QED
        BY <1>4, <2>1, <3>2, Zenon DEF NoRecord
    <2>6. /\ thread' \in [Threads -> ThreadRecord]
          /\ \A u \in Threads \ {t} : thread'[u] = thread[u]
          /\ thread'[Main].at # "idle"
          /\ SaneIn(thread'[t], created, db', artifact')
      BY <1>1, <1>2, <2>0, <2>4, GotoMoves
    <2> QED
      BY <1>1, <1>2, <2>1, <2>2, <2>3, <2>5, <2>6, StepFacts, Zenon
  <1>5. CASE db[thread[t].on] # thread[t].got
    <2>0. UNCHANGED db /\ Goto(t, "reread", "none")
      BY <1>5, Zenon DEF Mark
    <2>1. SaneIn([at |-> "reread", on |-> thread[t].on, got |-> "none"], created, db, artifact)
      BY <1>3, Zenon DEF SaneIn
    <2> QED
      BY <1>1, <1>2, <2>0, <2>1, GotoIsQuiet, Zenon
  <1> QED
    BY <1>4, <1>5, Zenon

\* A deletion that lost the race goes on if the row is DELETING.
LEMMA RereadStep ==
    ASSUME SnapshotInv, NEW t \in Threads, Reread(t)
    PROVE  SnapshotInv'
  <1>1. /\ UNCHANGED <<config, created, db, artifact, queue, page, progressed, crashes, outlived, beyond>>
        /\ queue' \in Seq(1 .. created) /\ outlived' \subseteq Snapshots
    BY Zenon DEF Reread, SnapshotInv, TypeOK
  <1>2. thread[t].on \in 1 .. created
    BY BeforeStep, Zenon DEF Reread, Unoccupied
  <1>3. CASE db[thread[t].on] = "DELETING" /\ Goto(t, "purge", "none")
    <2>1. "purge" \in Places \ {"idle"} /\ "none" \in Results
      BY Zenon DEF Places, Results
    <2>2. SaneIn([at |-> "purge", on |-> thread[t].on, got |-> "none"], created, db, artifact)
      BY <1>2, <1>3, Zenon DEF SaneIn, Ending
    <2> QED
      BY <1>1, <1>3, <2>1, <2>2, GotoIsQuiet, Zenon
  <1>4. CASE Return(t)
    BY <1>1, <1>4, ReturnIsQuiet, Zenon
  <1> QED
    BY <1>3, <1>4, Zenon DEF Reread

\* A thread takes up a snapshot, at a place where it is sane.
LEMMA TakesUp ==
    ASSUME SnapshotInv, NEW t \in Threads, NEW x \in ThreadRecord, x.at # "idle",
           SaneIn(x, created, db, artifact),
           thread' = [thread EXCEPT ![t] = x],
           UNCHANGED <<config, created, db, artifact, page, crashes, outlived, beyond>>,
           progressed' \in BOOLEAN, queue' \in Seq(1 .. created)
    PROVE  SnapshotInv'
  <1>1. /\ thread \in [Threads -> ThreadRecord] /\ thread[Main].at # "idle"
        /\ outlived' \subseteq Snapshots /\ beyond' \subseteq Snapshots
    BY Zenon DEF SnapshotInv, TypeOK, ThreadRecord, Results
  <1>2. Main \in Threads
    BY Zenon DEF Threads
  <1> QED
    BY <1>1, <1>2, QuietStep, Zenon

\* A deletion starts with the state it read.
LEMMA DeleteReadStep ==
    ASSUME SnapshotInv, NEW t \in Threads, NEW s \in Snapshots, DeleteRead(t, s)
    PROVE  SnapshotInv'
  <1> DEFINE x == [at |-> IF db[s] = "DELETING" THEN "purge" ELSE "mark", on |-> s, got |-> db[s]]
  <1>1. db[s] \in {"READY", "FAILED", "DELETING"}
    BY Zenon DEF DeleteRead, SnapshotInv, TypeOK, SnapshotState, NoRecord
  <1>2. s \in 1 .. created
    BY <1>1, BoundsAreNat DEF SnapshotInv, TypeOK, NoRecord, Snapshots
  <1>3. x \in ThreadRecord /\ x.at # "idle"
    BY <1>1, Zenon DEF ThreadRecord, Places, Results, SnapshotState
  <1>4. SaneIn(x, created, db, artifact)
    BY <1>1, <1>2, Zenon DEF SaneIn, Ending
  <1>5. /\ thread' = [thread EXCEPT ![t] = x]
        /\ UNCHANGED <<config, created, db, artifact, queue, page, progressed, crashes, outlived, beyond>>
        /\ progressed' \in BOOLEAN /\ queue' \in Seq(1 .. created)
    BY Zenon DEF DeleteRead, SnapshotInv, TypeOK
  <1> QED
    BY <1>3, <1>4, <1>5, TakesUp, Zenon

\* The first element of a sequence, and the others.
LEMMA HeadAndTail ==
    ASSUME NEW S, NEW q \in Seq(S), q # <<>>
    PROVE  Head(q) \in S /\ Tail(q) \in Seq(S)
  <1>1. Len(q) # 0
    OBVIOUS
  <1>2. Head(q) \in S
    BY <1>1
  <1>3. Tail(q) \in Seq(S)
    BY <1>1
  <1> QED
    BY <1>2, <1>3, Zenon

\* A worker takes the oldest submission.
LEMMA StartWorkerStep ==
    ASSUME SnapshotInv, NEW t \in Threads, StartWorker(t)
    PROVE  SnapshotInv'
  <1> DEFINE x == [at |-> "create", on |-> Head(queue), got |-> "none"]
  <1>1. queue \in Seq(1 .. created) /\ queue # <<>>
    BY Zenon DEF StartWorker, SnapshotInv
  <1>2. Head(queue) \in 1 .. created /\ Tail(queue) \in Seq(1 .. created)
    BY <1>1, HeadAndTail, Zenon
  <1>3. x \in ThreadRecord /\ x.at # "idle"
    <2>1. Head(queue) \in Snapshots
      BY <1>2, BeforeStep, Zenon
    <2> QED
      BY <2>1, Zenon DEF ThreadRecord, Places, Results
  <1>4. SaneIn(x, created, db, artifact)
    BY <1>2, Zenon DEF SaneIn
  <1>5. /\ thread' = [thread EXCEPT ![t] = x]
        /\ UNCHANGED <<config, created, db, artifact, page, progressed, crashes, outlived, beyond>>
        /\ progressed' \in BOOLEAN /\ queue' \in Seq(1 .. created)
    BY <1>2, Zenon DEF StartWorker, SnapshotInv, TypeOK
  <1> QED
    BY <1>3, <1>4, <1>5, TakesUp, Zenon

\* What inspect_snapshot reports as READY is there.
LEMMA InspectIsTrue ==
    ASSUME NEW s \in Snapshots
    PROVE  /\ Inspect(s) \subseteq {"CREATING", "READY", "FAILED"}
           /\ "READY" \in Inspect(s) => artifact[s] = "ready"
  BY Zenon DEF Inspect, Visible

\* A wait ends with what the runtime reports, or with its timeout.
LEMMA AwaitCommitStep ==
    ASSUME SnapshotInv, NEW t \in Threads, AwaitCommit(t)
    PROVE  SnapshotInv'
  <1>1. thread[t].on \in 1 .. created /\ thread[t].on \in Snapshots
    BY BeforeStep, Zenon DEF AwaitCommit, Unoccupied
  <1>2. PICK answer \in {"READY", "FAILED"} :
            /\ Goto(t, "complete", answer)
            /\ answer = "READY" => artifact[thread[t].on] = "ready"
    BY <1>1, InspectIsTrue, Zenon DEF AwaitCommit
  <1>3. /\ UNCHANGED <<config, created, db, artifact, queue, page, progressed, crashes, beyond>>
        /\ outlived' \subseteq Snapshots
    BY <1>1, Zenon DEF AwaitCommit, LeftRunning, SnapshotInv, TypeOK
  <1>4. "complete" \in Places \ {"idle"} /\ answer \in Results
    BY Zenon DEF Places, Results, SnapshotState
  <1>5. SaneIn([at |-> "complete", on |-> thread[t].on, got |-> answer], created, db, artifact)
    BY <1>1, <1>2, Zenon DEF SaneIn
  <1> QED
    BY <1>2, <1>3, <1>4, <1>5, GotoIsQuiet, Zenon

\* A step that only adds to the artifacts, on behalf of thread t or of nobody.
LEMMA ArtifactGrows ==
    ASSUME SnapshotInv, NEW s \in Snapshots,
           NEW end \in {"absent", "pending", "ready", "failed"},
           artifact' = [artifact EXCEPT ![s] = end] \/ UNCHANGED artifact,
           artifact[s] # "ready" \/ end = "ready",
           UNCHANGED db
    PROVE  /\ artifact' \in [Snapshots -> {"absent", "pending", "ready", "failed"}]
           /\ KeptSane(created, db, db', artifact, artifact')
           /\ ReadyIsBacked'
  <1>1. \A r \in Snapshots : artifact[r] = "ready" => artifact'[r] = "ready"
    BY Zenon DEF SnapshotInv, TypeOK
  <1>2. artifact' \in [Snapshots -> {"absent", "pending", "ready", "failed"}]
    BY Zenon DEF SnapshotInv, TypeOK
  <1>3. 1 .. created \subseteq Snapshots
    BY BoundsAreNat DEF SnapshotInv, TypeOK, Snapshots
  <1> QED
    BY <1>1, <1>2, <1>3, Zenon DEF SnapshotInv, ReadyIsBacked, KeptSane

\* The runtime is asked for the snapshot.
LEMMA RuntimeCreateStep ==
    ASSUME SnapshotInv, NEW t \in Threads, RuntimeCreate(t)
    PROVE  SnapshotInv'
  <1> DEFINE s == thread[t].on
             end == IF artifact[s] = "absent" THEN "pending" ELSE artifact[s]
  <1>1. s \in 1 .. created /\ s \in Snapshots
    BY BeforeStep, Zenon DEF RuntimeCreate, Unoccupied
  <1>2. /\ TypeOK /\ queue \in Seq(1 .. created)
        /\ progressed \in BOOLEAN /\ beyond \subseteq Snapshots /\ outlived \subseteq Snapshots
        /\ db \in [Snapshots -> SnapshotState \cup {NoRecord}]
    BY Zenon DEF SnapshotInv, TypeOK
  <1>3. end \in {"absent", "pending", "ready", "failed"} /\ (artifact[s] # "ready" \/ end = "ready")
    BY <1>1, <1>2, Zenon DEF TypeOK
  <1>4. /\ artifact' = [artifact EXCEPT ![s] = end] \/ UNCHANGED artifact
        /\ UNCHANGED <<config, created, db, queue, page, progressed, crashes, beyond>>
    BY <1>1, <1>2, Zenon DEF RuntimeCreate, TypeOK
  <1>5. outlived' \subseteq Snapshots
    BY <1>1, <1>2, Zenon DEF RuntimeCreate, LeftRunning
  <1>6. /\ thread' \in [Threads -> ThreadRecord]
        /\ \A u \in Threads \ {t} : thread'[u] = thread[u]
        /\ thread'[Main].at # "idle"
        /\ SaneIn(thread'[t], created, db', artifact')
    <2>1. /\ "wait" \in Places \ {"idle"} /\ "complete" \in Places \ {"idle"}
          /\ "none" \in Results /\ "FAILED" \in Results
      BY Zenon DEF Places, Results, SnapshotState
    <2>2. /\ SaneIn([at |-> "wait", on |-> s, got |-> "none"], created, db', artifact')
          /\ SaneIn([at |-> "complete", on |-> s, got |-> "FAILED"], created, db', artifact')
      BY <1>1, Zenon DEF SaneIn
    <2>3. Goto(t, "wait", "none") \/ Goto(t, "complete", "FAILED")
      BY Zenon DEF RuntimeCreate
    <2> QED
      BY <1>2, <2>1, <2>2, <2>3, GotoMoves
  <1>7. /\ artifact' \in [Snapshots -> {"absent", "pending", "ready", "failed"}]
        /\ KeptSane(created, db, db', artifact, artifact')
        /\ ReadyIsBacked'
    BY <1>1, <1>3, <1>4, ArtifactGrows, Zenon
  <1> HIDE DEF s, end
  <1> QED
    BY <1>2, <1>4, <1>5, <1>6, <1>7, StepFacts, Zenon

\* The daemon or the controller ends a commit; no thread moves.
LEMMA CommitEndsStep ==
    ASSUME SnapshotInv, NEW s \in Snapshots, CommitEnds(s)
    PROVE  SnapshotInv'
  <1>1. PICK end \in {"absent", "ready", "failed"} : artifact' = [artifact EXCEPT ![s] = end]
    BY Zenon DEF CommitEnds
  <1>2. /\ UNCHANGED <<config, created, db, queue, thread, page, progressed, crashes, outlived, beyond>>
        /\ artifact[s] # "ready"
    BY Zenon DEF CommitEnds
  <1>3. /\ artifact' \in [Snapshots -> {"absent", "pending", "ready", "failed"}]
        /\ KeptSane(created, db, db', artifact, artifact')
        /\ ReadyIsBacked'
    BY <1>1, <1>2, ArtifactGrows, Zenon
  <1>4. Main \in Threads /\ created \in Nat
    BY BoundsAreNat DEF Threads, SnapshotInv, TypeOK
  <1>5. SaneIn(thread[Main], created, db', artifact')
    <2>1. thread[Main] \in ThreadRecord /\ SaneIn(thread[Main], created, db, artifact)
      BY <1>4, BeforeStep, Zenon
    <2> QED
      BY <1>3, <1>4, <2>1, SaneStays
  <1>6. /\ queue \in Seq(1 .. created) /\ thread \in [Threads -> ThreadRecord]
        /\ progressed \in BOOLEAN /\ beyond \subseteq Snapshots /\ outlived \subseteq Snapshots
        /\ db \in [Snapshots -> SnapshotState \cup {NoRecord}] /\ thread[Main].at # "idle"
    BY Zenon DEF SnapshotInv, TypeOK, ThreadRecord, Results
  <1> QED
    BY <1>2, <1>3, <1>4, <1>5, <1>6, StepFacts, Zenon

\* A sequence over a set is one over any larger set.
LEMMA LargerSeq ==
    ASSUME NEW S, NEW T, S \subseteq T, NEW q \in Seq(S)
    PROVE  q \in Seq(T)
  OBVIOUS

\* A new snapshot has an identifier that nothing refers to yet.
LEMMA AcceptCreateStep ==
    ASSUME SnapshotInv, NEW t \in Threads, AcceptCreate(t)
    PROVE  SnapshotInv'
  <1> DEFINE x == [at |-> "submit", on |-> created + 1, got |-> "none"]
  <1>1. /\ created \in Nat /\ created + 1 \in Snapshots
        /\ created' = created + 1 /\ created' \in 0 .. MaxSnapshots
    BY BoundsAreNat DEF SnapshotInv, TypeOK, AcceptCreate, Snapshots
  <1>2. x \in ThreadRecord
    BY <1>1, Zenon DEF ThreadRecord, Places, Results
  <1>3. SaneIn(x, created', db', artifact')
    BY <1>1 DEF SaneIn
  <1>4. /\ thread \in [Threads -> ThreadRecord] /\ thread[Main].at # "idle" /\ Main \in Threads
        /\ db \in [Snapshots -> SnapshotState \cup {NoRecord}]
    BY Zenon DEF SnapshotInv, TypeOK, ThreadRecord, Results, Threads
  <1>5. /\ thread' \in [Threads -> ThreadRecord]
        /\ \A u \in Threads \ {t} : thread'[u] = thread[u]
        /\ thread'[t] = x
        /\ thread'[Main].at # "idle"
    BY <1>2, <1>4, Zenon DEF AcceptCreate
  <1>6. /\ db' \in [Snapshots -> SnapshotState \cup {NoRecord}]
        /\ \A s \in Snapshots : db'[s] = IF s = created + 1 THEN "CREATING" ELSE db[s]
        /\ UNCHANGED <<config, artifact, queue, page, progressed, crashes, outlived, beyond>>
    BY <1>1, <1>4, Zenon DEF AcceptCreate, SnapshotState
  <1>7. KeptSane(created, db, db', artifact, artifact')
    BY <1>1, <1>6, BeforeStep DEF KeptSane
  <1>8. \A u \in Threads : SaneIn(thread'[u], created', db', artifact')
    BY <1>1, <1>3, <1>5, <1>7, ThreadsStaySane
  <1>9. TypeOK'
    BY <1>1, <1>5, <1>6, Zenon DEF SnapshotInv, TypeOK, ThreadRecord, Results
  <1>10. queue' \in Seq(1 .. created') /\ DOMAIN page' \subseteq 1 .. created'
    <2>1. 1 .. created \subseteq 1 .. created'
      BY <1>1
    <2>2. queue \in Seq(1 .. created) /\ DOMAIN page \subseteq 1 .. created
      BY Zenon DEF SnapshotInv
    <2> QED
      BY <1>6, <2>1, <2>2, LargerSeq, Zenon
  <1>11. \A s \in DOMAIN page' : page'[s] = "DELETING" => db'[s] \in Ending
    BY <1>6, <1>7, Zenon DEF SnapshotInv, KeptSane
  <1>12. \A s \in Snapshots : db'[s] # NoRecord => s <= created'
    BY <1>1, <1>6 DEF SnapshotInv, Snapshots
  <1>13. ReadyIsBacked'
    BY <1>6, Zenon DEF SnapshotInv, ReadyIsBacked
  <1> HIDE DEF x
  <1> QED
    BY <1>8, <1>9, <1>10, <1>11, <1>12, <1>13, Zenon DEF SnapshotInv

\* The main thread goes to a place of its loop.
LEMMA MainLoops ==
    ASSUME SnapshotInv, NEW place \in {"list", "visit", "serving"},
           thread' = [thread EXCEPT ![Main] = Looping(place)]
    PROVE  /\ thread' \in [Threads -> ThreadRecord]
           /\ \A u \in Threads \ {Main} : thread'[u] = thread[u]
           /\ thread'[Main].at # "idle"
           /\ \A n, d, a : SaneIn(thread'[Main], n, d, a)
           /\ Main \in Threads
  <1>1. thread \in [Threads -> ThreadRecord] /\ Main \in Threads
    BY Zenon DEF SnapshotInv, TypeOK, ThreadRecord, Results, Threads
  <1>2. Looping(place) \in ThreadRecord /\ Looping(place).at = place
    BY Zenon DEF Looping, ThreadRecord, Places, Results
  <1>3. thread'[Main] = Looping(place)
    BY <1>1, Zenon
  <1>4. thread'[Main].at \in Unoccupied /\ thread'[Main].at # "idle"
    BY <1>2, <1>3, Zenon DEF Unoccupied
  <1>5. \A n, d, a : SaneIn(thread'[Main], n, d, a)
    BY <1>4, UnoccupiedIsSane, Zenon
  <1> QED
    BY <1>1, <1>2, <1>4, <1>5, Zenon

\* The first page holds what the table holds.
LEMMA RecoverListStep ==
    ASSUME SnapshotInv, RecoverList
    PROVE  SnapshotInv'
  <1>1. FirstPage \subseteq Unfinished /\ Unfinished \subseteq Snapshots
    BY Zenon DEF FirstPage, Unfinished
  <1>2. /\ DOMAIN page' = FirstPage
        /\ \A s \in FirstPage : page'[s] = db[s] /\ page'[s] \in {"CREATING", "DELETING"}
    BY <1>1, Zenon DEF RecoverList, Unfinished
  <1>3. /\ thread' \in [Threads -> ThreadRecord]
        /\ \A u \in Threads \ {Main} : thread'[u] = thread[u]
        /\ thread'[Main].at # "idle"
        /\ SaneIn(thread'[Main], created, db, artifact)
        /\ Main \in Threads
    BY MainLoops, Zenon DEF RecoverList
  <1>4. UNCHANGED <<config, created, db, artifact, queue, crashes, outlived>>
    BY Zenon DEF RecoverList
  <1>5. beyond' \subseteq Snapshots
    BY <1>1, Zenon DEF RecoverList, SnapshotInv, TypeOK
  <1>6. TypeOK'
    BY <1>1, <1>2, <1>3, <1>4, <1>5, Zenon DEF RecoverList, SnapshotInv, TypeOK, ThreadRecord, Results
  <1>7. FirstPage \subseteq 1 .. created
    BY <1>1, BoundsAreNat DEF Unfinished, SnapshotInv, TypeOK, Snapshots, NoRecord
  <1>8. \A u \in Threads : SaneIn(thread'[u], created', db', artifact')
    BY <1>3, <1>4, Zenon DEF SnapshotInv
  <1> QED
    BY <1>2, <1>4, <1>6, <1>7, <1>8, Zenon DEF SnapshotInv, Ending, ReadyIsBacked

\* A record is visited with the state it was listed with.
LEMMA RecoverVisitStep ==
    ASSUME SnapshotInv, RecoverVisit
    PROVE  SnapshotInv'
  <1>1. PICK s \in DOMAIN page :
          /\ page' = [r \in DOMAIN page \ {s} |-> page[r]]
          /\ \/ /\ page[s] = "CREATING"
                /\ \E answer \in Inspect(s) :
                    /\ thread' = [thread EXCEPT ![Main] =
                         [at |-> IF answer = "CREATING" THEN "submit" ELSE "complete",
                          on |-> s, got |-> answer]]
                    /\ progressed' = (progressed \/ answer # "CREATING")
             \/ /\ page[s] = "DELETING"
                /\ thread' = [thread EXCEPT ![Main] = [at |-> "purge", on |-> s, got |-> "none"]]
                /\ UNCHANGED progressed
    BY Zenon DEF RecoverVisit
  <1>2. s \in 1 .. created /\ s \in Snapshots
    BY Zenon DEF SnapshotInv, TypeOK
  <1>3. \E x \in ThreadRecord :
          /\ thread' = [thread EXCEPT ![Main] = x]
          /\ x.at # "idle" /\ SaneIn(x, created, db, artifact)
    <2>1. CASE page[s] = "DELETING" /\ thread' = [thread EXCEPT ![Main] = [at |-> "purge", on |-> s, got |-> "none"]]
      <3>1. [at |-> "purge", on |-> s, got |-> "none"] \in ThreadRecord
        BY <1>2, Zenon DEF ThreadRecord, Places, Results
      <3>2. SaneIn([at |-> "purge", on |-> s, got |-> "none"], created, db, artifact)
        BY <1>2, <2>1, Zenon DEF SaneIn, SnapshotInv
      <3> QED
        BY <2>1, <3>1, <3>2, Zenon
    <2>2. CASE \E answer \in Inspect(s) :
                 thread' = [thread EXCEPT ![Main] =
                    [at |-> IF answer = "CREATING" THEN "submit" ELSE "complete", on |-> s, got |-> answer]]
      <3>1. PICK answer \in Inspect(s) :
                 thread' = [thread EXCEPT ![Main] =
                    [at |-> IF answer = "CREATING" THEN "submit" ELSE "complete", on |-> s, got |-> answer]]
        BY <2>2, Zenon
      <3> DEFINE y == [at |-> IF answer = "CREATING" THEN "submit" ELSE "complete", on |-> s, got |-> answer]
      <3>2. answer \in {"CREATING", "READY", "FAILED"} /\ (answer = "READY" => artifact[s] = "ready")
        BY <1>2, InspectIsTrue, Zenon
      <3>3. y \in ThreadRecord /\ y.at # "idle"
        BY <1>2, <3>2, Zenon DEF ThreadRecord, Places, Results, SnapshotState
      <3>4. SaneIn(y, created, db, artifact)
        BY <1>2, <3>2, Zenon DEF SaneIn
      <3>5. thread' = [thread EXCEPT ![Main] = y]
        BY <3>1, Zenon
      <3> HIDE DEF y
      <3> QED
        BY <3>3, <3>4, <3>5, Zenon
    <2> QED
      BY <1>1, <2>1, <2>2, Zenon
  <1>4. /\ thread \in [Threads -> ThreadRecord] /\ Main \in Threads
    BY Zenon DEF SnapshotInv, TypeOK, ThreadRecord, Results, Threads
  <1>5. /\ thread' \in [Threads -> ThreadRecord]
        /\ \A u \in Threads \ {Main} : thread'[u] = thread[u]
        /\ thread'[Main].at # "idle" /\ SaneIn(thread'[Main], created, db, artifact)
    BY <1>3, <1>4, Zenon
  <1>6. /\ UNCHANGED <<config, created, db, artifact, queue, crashes, outlived, beyond>>
        /\ progressed' \in BOOLEAN
    BY <1>1, Zenon DEF RecoverVisit, SnapshotInv, TypeOK
  <1>7. /\ DOMAIN page' \subseteq DOMAIN page
        /\ \A r \in DOMAIN page' : page'[r] = page[r]
    BY <1>1, Zenon
  <1>8. TypeOK'
    BY <1>5, <1>6, <1>7, Zenon DEF SnapshotInv, TypeOK, ThreadRecord, Results
  <1>9. \A u \in Threads : SaneIn(thread'[u], created', db', artifact')
    BY <1>5, <1>6, Zenon DEF SnapshotInv
  <1> QED
    BY <1>6, <1>7, <1>8, <1>9, Zenon DEF SnapshotInv, ReadyIsBacked

\* A page ends.
LEMMA RecoverEndStep ==
    ASSUME SnapshotInv, RecoverEnd
    PROVE  SnapshotInv'
  <1>1. /\ UNCHANGED <<config, created, db, artifact, queue, page, progressed, crashes, outlived, beyond>>
        /\ progressed' \in BOOLEAN /\ outlived' \subseteq Snapshots /\ beyond' \subseteq Snapshots
        /\ queue' \in Seq(1 .. created)
    BY Zenon DEF RecoverEnd, SnapshotInv, TypeOK
  <1>2. PICK place \in {"list", "visit", "serving"} : thread' = [thread EXCEPT ![Main] = Looping(place)]
    BY Zenon DEF RecoverEnd
  <1> QED
    BY <1>1, <1>2, MainLoops, QuietStep, Zenon

\* A crash leaves the table and the artifacts, and nobody who relies on them.
LEMMA CrashStep ==
    ASSUME SnapshotInv, Crash
    PROVE  SnapshotInv'
  <1>1. /\ Idle \in ThreadRecord /\ Looping("list") \in ThreadRecord
        /\ Idle.at = "idle" /\ Looping("list").at = "list"
    BY Zenon DEF Idle, Looping, ThreadRecord, Places, Results
  <1>2. /\ thread' \in [Threads -> ThreadRecord]
        /\ \A u \in Threads : thread'[u].at \in Unoccupied
        /\ thread'[Main].at # "idle"
    BY <1>1, Zenon DEF Crash, Unoccupied, Threads
  <1>3. \A u \in Threads : SaneIn(thread'[u], created', db', artifact')
    BY <1>2, UnoccupiedIsSane, Zenon
  <1>4. /\ UNCHANGED <<config, created, db, artifact, beyond>>
        /\ progressed' \in BOOLEAN /\ queue' = <<>> /\ DOMAIN page' = {}
    BY Zenon DEF Crash
  <1>5. outlived' \subseteq Snapshots
    BY Zenon DEF Crash, LeftRunning, SnapshotInv, TypeOK
  <1>6. queue' \in Seq(Snapshots) /\ queue' \in Seq(1 .. created')
    BY <1>4
  <1>7. crashes' \in 0 .. MaxCrashes
    BY BoundsAreNat DEF Crash, SnapshotInv, TypeOK
  <1>8. TypeOK'
    BY <1>2, <1>4, <1>5, <1>6, <1>7, Zenon DEF SnapshotInv, TypeOK, ThreadRecord, Results
  <1> QED
    BY <1>3, <1>4, <1>6, <1>8, Zenon DEF SnapshotInv, ReadyIsBacked

\* The invariant is inductive.
LEMMA NextInv == SnapshotInv /\ [Next]_vars => SnapshotInv'
  <1> SUFFICES ASSUME SnapshotInv, [Next]_vars PROVE SnapshotInv'
    BY Zenon
  <1>1. Workers \subseteq Threads /\ Requests \subseteq Threads
    BY Zenon DEF Threads
  <1>2. ASSUME NEW t \in Workers, WorkerStep(t) PROVE SnapshotInv'
    BY <1>1, <1>2, StartWorkerStep, RuntimeCreateStep, AwaitCommitStep, Zenon DEF WorkerStep
  <1>3. ASSUME NEW t \in Requests,
               AcceptCreate(t) \/ RequestStep(t) \/ \E s \in Snapshots : DeleteRead(t, s)
        PROVE  SnapshotInv'
    BY <1>1, <1>3, AcceptCreateStep, MarkStep, RereadStep, DeleteReadStep, Zenon DEF RequestStep
  <1>4. ASSUME NEW t \in Threads, SharedStep(t) PROVE SnapshotInv'
    BY <1>4, SubmitStep, CompleteReadStep, CompleteUpdateStep, CleanupStep, PurgeStep, EraseStep, Zenon
       DEF SharedStep
  <1>5. CASE RecoveryStep
    BY <1>5, RecoverListStep, RecoverVisitStep, RecoverEndStep, Zenon DEF RecoveryStep
  <1>6. ASSUME NEW s \in Snapshots, CommitEnds(s) PROVE SnapshotInv'
    BY <1>6, CommitEndsStep, Zenon
  <1>7. CASE Crash
    BY <1>7, CrashStep, Zenon
  <1>8. CASE UNCHANGED vars
    BY <1>8, Zenon DEF vars, SnapshotInv, TypeOK, ReadyIsBacked
  <1> QED
    BY <1>2, <1>3, <1>4, <1>5, <1>6, <1>7, <1>8, Zenon DEF Next

\* The invariant holds throughout.
THEOREM SnapshotInvariant == Spec => []SnapshotInv
  <1>1. Init => SnapshotInv
    BY InitInv, Zenon
  <1>2. SnapshotInv /\ [Next]_vars => SnapshotInv'
    BY NextInv, Zenon
  <1> QED
    BY <1>1, <1>2, PTL DEF Spec

\* Every variable keeps its type, and the starting thread its role.
THEOREM SnapshotTypes == Spec => []TypeOK
  <1>1. SnapshotInv => TypeOK
    BY Zenon DEF SnapshotInv
  <1> QED
    BY <1>1, SnapshotInvariant, PTL

\* A snapshot that the table calls READY has its artifact, whatever workers
\* that end late, deletions that fail and restarts do (_complete_snapshot,
\* delete_snapshot, recover_unfinished_snapshots).
THEOREM ReadySnapshotsAreBacked == Spec => []ReadyIsBacked
  <1>1. SnapshotInv => ReadyIsBacked
    BY Zenon DEF SnapshotInv
  <1> QED
    BY <1>1, SnapshotInvariant, PTL

-----------------------------------------------------------------------------
(* The table implements SnapshotLifecycle *)

\* A step that changes the table is a step of the life cycle.
LEMMA StepFollowsLifecycle ==
    SnapshotInv /\ [Next]_vars => [Lifecycle!LifecycleNext]_(Lifecycle!lifecycleVars)
  <1> SUFFICES ASSUME SnapshotInv, [Next]_vars
               PROVE  Lifecycle!LifecycleNext \/ UNCHANGED <<created, db>>
    BY Zenon DEF Lifecycle!lifecycleVars
  <1>1. Requests \subseteq Threads
    BY Zenon DEF Threads
  <1>2. ASSUME NEW t \in Requests, AcceptCreate(t)
        PROVE  Lifecycle!Accept
    BY <1>2, Zenon DEF AcceptCreate, Lifecycle!Accept
  <1>3. ASSUME NEW t \in Requests, Mark(t)
        PROVE  Lifecycle!LifecycleNext \/ UNCHANGED <<created, db>>
    <2>1. thread[t].on \in Snapshots /\ thread[t].got \in {"READY", "FAILED"}
      BY <1>1, <1>3, BeforeStep, Zenon DEF Mark, Unoccupied, SaneIn
    <2>2. CASE db[thread[t].on] = thread[t].got
      <3>1. Lifecycle!MarkDeleting(thread[t].on)
        BY <1>3, <2>1, <2>2, Zenon DEF Mark, Lifecycle!MarkDeleting
      <3> QED
        BY <2>1, <3>1, Zenon DEF Lifecycle!LifecycleNext, Lifecycle!Snapshots, Snapshots
    <2>3. CASE db[thread[t].on] # thread[t].got
      BY <1>3, <2>3, Zenon DEF Mark
    <2> QED
      BY <2>2, <2>3, Zenon
  <1>4. ASSUME NEW t \in Threads, CompleteUpdate(t)
        PROVE  Lifecycle!LifecycleNext \/ UNCHANGED <<created, db>>
    <2>1. thread[t].on \in Snapshots /\ thread[t].got \in {"READY", "FAILED"}
      BY <1>4, BeforeStep, Zenon DEF CompleteUpdate, Unoccupied, SaneIn
    <2>2. CASE db[thread[t].on] = "CREATING"
      <3>1. Lifecycle!Finish(thread[t].on)
        BY <1>4, <2>1, <2>2, Zenon DEF CompleteUpdate, Lifecycle!Finish
      <3> QED
        BY <2>1, <3>1, Zenon DEF Lifecycle!LifecycleNext, Lifecycle!Snapshots, Snapshots
    <2>3. CASE db[thread[t].on] # "CREATING"
      BY <1>4, <2>3, Zenon DEF CompleteUpdate
    <2> QED
      BY <2>2, <2>3, Zenon
  <1>5. ASSUME NEW t \in Threads, Erase(t)
        PROVE  Lifecycle!LifecycleNext \/ UNCHANGED <<created, db>>
    <2>1. thread[t].on \in Snapshots /\ db[thread[t].on] \in {"DELETING", NoRecord}
      BY <1>5, BeforeStep, Zenon DEF Erase, Unoccupied, SaneIn, Ending
    <2>2. CASE db[thread[t].on] = "DELETING"
      <3>1. Lifecycle!Remove(thread[t].on)
        BY <1>5, <2>2, Zenon DEF Erase, Lifecycle!Remove, Lifecycle!NoRecord, NoRecord
      <3> QED
        BY <2>1, <3>1, Zenon DEF Lifecycle!LifecycleNext, Lifecycle!Snapshots, Snapshots
    <2>3. CASE db[thread[t].on] = NoRecord
      <3>1. db \in [Snapshots -> SnapshotState \cup {NoRecord}]
        BY Zenon DEF SnapshotInv, TypeOK
      <3> QED
        BY <1>5, <2>1, <2>3, <3>1, Zenon DEF Erase
    <2> QED
      BY <2>1, <2>2, <2>3, Zenon
  <1>6. ASSUME NEW t \in Workers, WorkerStep(t) PROVE UNCHANGED <<created, db>>
    BY <1>6, Zenon DEF WorkerStep, StartWorker, RuntimeCreate, AwaitCommit
  <1>7. ASSUME NEW t \in Requests, Reread(t) \/ \E s \in Snapshots : DeleteRead(t, s)
        PROVE  UNCHANGED <<created, db>>
    BY <1>7, Zenon DEF Reread, DeleteRead
  <1>8. ASSUME NEW t \in Threads, Submit(t) \/ CompleteRead(t) \/ Cleanup(t) \/ Purge(t)
        PROVE  UNCHANGED <<created, db>>
    BY <1>8, Zenon DEF Submit, CompleteRead, Cleanup, Purge
  <1>9. CASE RecoveryStep \/ Crash \/ UNCHANGED vars
    BY <1>9, Zenon DEF RecoveryStep, RecoverList, RecoverVisit, RecoverEnd, Crash, vars
  <1>10. ASSUME NEW s \in Snapshots, CommitEnds(s) PROVE UNCHANGED <<created, db>>
    BY <1>10, Zenon DEF CommitEnds
  <1> QED
    BY <1>2, <1>3, <1>4, <1>5, <1>6, <1>7, <1>8, <1>9, <1>10, Zenon
       DEF Next, SharedStep, RequestStep, Lifecycle!LifecycleNext

\* Whatever acts on a row, its states follow SnapshotLifecycle: a creation ends
\* once, a row is removed only after it was DELETING, which nothing undoes
\* (update_if_state, delete).
THEOREM TableFollowsLifecycle == Spec => FollowsLifecycle
  <1>1. Init => Lifecycle!LifecycleInit
    BY Zenon DEF Init, Lifecycle!LifecycleInit, Lifecycle!Snapshots, Lifecycle!NoRecord, Snapshots, NoRecord
  <1>2. SnapshotInv /\ [Next]_vars => [Lifecycle!LifecycleNext]_(Lifecycle!lifecycleVars)
    BY StepFollowsLifecycle, Zenon
  <1> QED
    BY <1>1, <1>2, SnapshotInvariant, PTL DEF Spec, FollowsLifecycle, Lifecycle!LifecycleSpec

-----------------------------------------------------------------------------
(* A row is removed only once nothing is left of its artifact *)

Making == {"submit", "create", "wait", "complete", "update"}
Finishing == {"wait", "complete", "cleanupErase", "erase"}
Removers == Requests \cup {Main}
Makers == Workers \cup Requests

\* Where the threads of each kind can be
InRole(t) ==
    /\ t \in Requests => thread[t].at \in {"idle", "submit", "mark", "reread", "purge", "erase"}
    /\ t \in Workers => thread[t].at \in {"idle", "create", "wait", "complete", "update",
                                          "cleanup", "cleanupErase", "erase"}
    /\ t = Main => thread[t].at \in {"list", "visit", "serving", "submit", "complete", "update",
                                     "purge", "erase"}

\* Nobody deletes while the server starts: what recovery takes for a creation
\* that was interrupted is not being deleted
RolesInv ==
    /\ \A t \in Threads : InRole(t)
    /\ ~Serving => \A t \in Requests : thread[t].at = "idle"
    /\ thread[Main].at \in Making => db[thread[Main].on] \notin Ending
    /\ ~Serving => \A s \in DOMAIN page : page[s] = "CREATING" => db[s] \notin Ending

\* The artifact of s is gone, or it is the exception EraseLeavesNothing allows.
\* A worker that finds the row DELETING removes the row itself.
Spent(s) ==
    \/ artifact[s] = "absent"
    \/ config.runtime = "docker" /\ s \in outlived
    \/ config.runtime # "docker" /\ \E w \in Workers : /\ thread[w].on = s
                                   /\ thread[w].at \in Finishing

SpentInv ==
    \A s \in Snapshots : \A t \in Removers :
        thread[t].at = "erase" /\ thread[t].on = s /\ db[s] = "DELETING" => Spent(s)

\* Docker: recovery submits nothing, so it runs alone ...
StartsAlone ==
    /\ ~Serving => queue = <<>> /\ \A t \in Workers : thread[t].at = "idle"
    /\ thread[Main].at # "submit"

\* ... a commit that is running has a call that waits for it, or had one ...
CommitsKnown ==
    \A s \in Snapshots :
        /\ artifact[s] # "failed"
        /\ artifact[s] = "pending" => s \in outlived \/ \E w \in Workers : thread[w].on = s /\ thread[w].at = "wait"

\* ... and a snapshot is made by one thread, or waits in the queue to be made,
\* which only ends its CREATING
OneMaker ==
    /\ \A t \in Workers : thread[t].at \in {"idle"} \cup Making
    /\ \A t \in Makers : thread[t].at \in Making => db[thread[t].on] = "CREATING"
    /\ \A t, u \in Makers :
         t # u /\ thread[t].at \in Making /\ thread[u].at \in Making => thread[t].on # thread[u].on
    /\ \A i \in 1 .. Len(queue) :
         /\ db[queue[i]] = "CREATING"
         /\ \A t \in Makers : thread[t].at \in Making => thread[t].on # queue[i]
    /\ \A i, j \in 1 .. Len(queue) : i # j => queue[i] # queue[j]

EraseInv ==
    /\ SnapshotInv /\ RolesInv /\ SpentInv
    /\ config.runtime = "docker" => StartsAlone /\ CommitsKnown /\ OneMaker

\* What a step of thread t may do ...
Moves(t) ==
    /\ \A u \in Threads \ {t} : thread'[u] = thread[u]
    /\ InRole(t)'
    /\ t = Main /\ Serving => thread'[Main] = thread[Main]
    /\ t \in Requests /\ thread[t].at = "idle" /\ thread'[t] # thread[t] => Serving
    /\ t = Main /\ thread'[Main].at \in Making => db'[thread'[Main].on] \notin Ending

\* ... to the table and to the list of the recovery ...
RowsKept ==
    /\ \A s \in Snapshots : /\ db[s] = NoRecord => db'[s] # "DELETING"
                            /\ ~Serving /\ db[s] \notin Ending => db'[s] \notin Ending
    /\ \A s \in DOMAIN page' : page'[s] = "CREATING" =>
           (s \in DOMAIN page /\ page[s] = "CREATING") \/ db'[s] \notin Ending

\* ... to the artifacts of rows that are about to be removed ...
SpentKept(t) ==
    \A s \in Snapshots : db'[s] = "DELETING" =>
        /\ db[s] = "DELETING" /\ Spent(s) => Spent(s)'
        /\ t \in Removers /\ thread'[t].at = "erase" /\ thread'[t].on = s => Spent(s)'

\* ... and, with Docker, to the threads that make snapshots
MakersKept(t) ==
    /\ thread'[Main].at # "submit"
    /\ t \in Workers => thread'[t].at \in {"idle"} \cup Making
    /\ t # Main /\ thread'[t].at \in Making => thread[t].at \in Making /\ thread'[t].on = thread[t].on
    /\ \A s \in Snapshots : db[s] = "CREATING" =>
           \/ db'[s] = "CREATING"
           \/ t # Main /\ thread[t].at \in Making /\ thread[t].on = s /\ thread'[t].at \notin Making
           \/ ~Serving
    /\ CommitsKnown'

\* Roles and removals after a step of thread t.
LEMMA RowsStep ==
    ASSUME EraseInv, NEW t \in Threads, Moves(t), RowsKept, SpentKept(t)
    PROVE  RolesInv' /\ SpentInv' /\ (Serving => Serving')
  <1>1. SnapshotInv /\ RolesInv /\ SpentInv
    BY Zenon DEF EraseInv
  <1>2. /\ Main \in Threads /\ Requests \subseteq Threads /\ Workers \subseteq Threads
        /\ Main \notin Requests /\ Main \notin Workers /\ Workers \cap Requests = {}
        /\ Threads = Workers \cup Requests \cup {Main}
    BY ThreadsAreDistinct, Zenon DEF Threads
  <1>3. Serving' => Serving \/ t = Main
    BY <1>2, Zenon DEF Serving, Moves
  <1>4. Serving => Serving'
    BY <1>2, Zenon DEF Serving, Moves
  <1>5. RolesInv'
    <2>1. \A u \in Threads : InRole(u)'
      BY <1>1, Zenon DEF RolesInv, InRole, Moves
    <2>2. ~Serving' => \A u \in Requests : thread'[u].at = "idle"
      BY <1>1, <1>2, <1>4, Zenon DEF RolesInv, Moves
    <2>3. thread'[Main].at \in Making => db'[thread'[Main].on] \notin Ending
      <3>1. CASE t = Main
        BY <3>1, Zenon DEF Moves
      <3>2. CASE t # Main
        <4>1. thread'[Main] = thread[Main]
          BY <1>2, <3>2, Zenon DEF Moves
        <4>2. thread[Main].at \in Making => ~Serving /\ thread[Main].on \in Snapshots
          <5>1. thread[Main].at \in Making => thread[Main].at \notin Unoccupied
            BY Zenon DEF Making, Unoccupied
          <5> QED
            BY <1>1, <1>2, <5>1, BeforeStep, Zenon DEF Serving, Unoccupied
        <4> QED
          BY <1>1, <4>1, <4>2, Zenon DEF RolesInv, RowsKept
      <3> QED
        BY <3>1, <3>2, Zenon
    <2>4. ~Serving' => \A s \in DOMAIN page' : page'[s] = "CREATING" => db'[s] \notin Ending
      <3>1. \A s \in DOMAIN page : s \in Snapshots
        BY <1>1, Zenon DEF SnapshotInv, TypeOK
      <3> QED
        BY <1>1, <1>4, <3>1, Zenon DEF RolesInv, RowsKept
    <2> QED
      BY <2>1, <2>2, <2>3, <2>4, Zenon DEF RolesInv
  <1>6. SpentInv'
    <2> SUFFICES ASSUME NEW s \in Snapshots, NEW u \in Removers,
                        thread'[u].at = "erase", thread'[u].on = s, db'[s] = "DELETING"
                 PROVE  Spent(s)'
      BY Zenon DEF SpentInv
    <2>1. CASE u = t
      BY <2>1, Zenon DEF SpentKept
    <2>2. CASE u # t
      <3>1. u \in Threads /\ thread'[u] = thread[u]
        BY <1>2, <2>2, Zenon DEF Removers, Moves
      <3>2. db[s] \in Ending
        BY <1>1, <3>1, BeforeStep, Zenon DEF SaneIn
      <3>3. db[s] = "DELETING"
        BY <3>2, Zenon DEF Ending, RowsKept
      <3>4. Spent(s)
        BY <1>1, <3>1, <3>3, Zenon DEF SpentInv
      <3> QED
        BY <3>3, <3>4, Zenon DEF SpentKept
    <2> QED
      BY <2>1, <2>2, Zenon
  <1> QED
    BY <1>4, <1>5, <1>6, Zenon

\* A step of thread t that leaves the queue alone.
LEMMA PlainStep ==
    ASSUME EraseInv, SnapshotInv', NEW t \in Threads, UNCHANGED <<config, queue>>,
           Moves(t), RowsKept, SpentKept(t), config.runtime = "docker" => MakersKept(t)
    PROVE  EraseInv'
  <1>1. SnapshotInv /\ RolesInv
    BY Zenon DEF EraseInv
  <1>2. /\ Main \in Threads /\ Requests \subseteq Threads /\ Workers \subseteq Threads
        /\ Main \notin Requests /\ Main \notin Workers /\ Workers \cap Requests = {}
        /\ Threads = Workers \cup Requests \cup {Main}
    BY ThreadsAreDistinct, Zenon DEF Threads
  <1>3. RolesInv' /\ SpentInv' /\ (Serving => Serving')
    BY RowsStep, Zenon
  <1>4. ASSUME config.runtime = "docker" PROVE StartsAlone' /\ CommitsKnown' /\ OneMaker'
    <2>1. StartsAlone /\ OneMaker
      BY <1>4, Zenon DEF EraseInv
    <2>0. ASSUME ~Serving PROVE queue' = <<>> /\ \A u \in Makers : thread'[u].at = "idle"
      <3>1. queue' = <<>> /\ \A u \in Makers : thread[u].at = "idle"
        BY <1>1, <2>0, <2>1, Zenon DEF StartsAlone, RolesInv, Makers
      <3>2. t \in Requests => thread'[t].at = "idle"
        BY <1>1, <2>0, Zenon DEF RolesInv, Moves
      <3>3. t \in Workers => thread'[t].at = "idle"
        BY <1>2, <1>4, <2>0, <2>1, Zenon DEF StartsAlone, MakersKept, Making
      <3> QED
        BY <1>2, <3>1, <3>2, <3>3, Zenon DEF Makers, Moves
    <2>2. StartsAlone'
      BY <1>3, <1>4, <2>0, Zenon DEF StartsAlone, MakersKept, Makers
    <2>3. CASE ~Serving
      <3>1. queue' = <<>> /\ \A u \in Makers : thread'[u].at = "idle"
        BY <2>0, <2>3, Zenon
      <3>2. "idle" \notin Making
        BY Zenon DEF Making
      <3>3. \A i \in 1 .. Len(queue') : FALSE
        BY <3>1
      <3>4. OneMaker'
        BY <3>1, <3>2, <3>3, Zenon DEF OneMaker, Makers
      <3> QED
        BY <1>4, <2>2, <3>4, Zenon DEF MakersKept
    <2>4. CASE Serving
      <3>1. \A u \in Makers : thread'[u].at \in Making =>
                thread[u].at \in Making /\ thread'[u].on = thread[u].on
        BY <1>2, <1>4, Zenon DEF Makers, Moves, MakersKept
      <3>2. \A u \in Makers : u \in Threads /\ (thread[u].at \in Making => thread[u].on \in Snapshots)
        <4>1. \A u \in Threads : thread[u].at \in Making => thread[u].at \notin Unoccupied
          BY Zenon DEF Making, Unoccupied
        <4> QED
          BY <1>1, <1>2, <4>1, BeforeStep, Zenon DEF Makers
      <3>3. \A i \in 1 .. Len(queue) : queue[i] \in Snapshots
        BY <1>1 DEF SnapshotInv, TypeOK
      <3>4. \A s \in Snapshots : db[s] = "CREATING" =>
                \/ db'[s] = "CREATING"
                \/ t \in Makers /\ thread[t].at \in Making /\ thread[t].on = s /\ thread'[t].at \notin Making
        BY <1>2, <1>4, <2>4, Zenon DEF Makers, MakersKept
      <3>5. \A u \in Workers : thread'[u].at \in {"idle"} \cup Making
        BY <1>2, <1>4, <2>1, Zenon DEF OneMaker, Moves, MakersKept
      <3>6. \A u \in Makers : thread'[u].at \in Making => db'[thread'[u].on] = "CREATING"
        BY <2>1, <3>1, <3>2, <3>4 DEF OneMaker
      <3>7. \A u, v \in Makers :
              u # v /\ thread'[u].at \in Making /\ thread'[v].at \in Making => thread'[u].on # thread'[v].on
        BY <2>1, <3>1 DEF OneMaker
      <3>8. \A i \in 1 .. Len(queue) :
              /\ db'[queue[i]] = "CREATING"
              /\ \A u \in Makers : thread'[u].at \in Making => thread'[u].on # queue[i]
        BY <2>1, <3>1, <3>3, <3>4 DEF OneMaker
      <3>9. OneMaker'
        BY <2>1, <3>5, <3>6, <3>7, <3>8, Zenon DEF OneMaker
      <3> QED
        BY <1>4, <2>2, <3>9, Zenon DEF MakersKept
    <2> QED
      BY <2>3, <2>4, Zenon
  <1> QED
    BY <1>3, <1>4, Zenon DEF EraseInv

\* What is known before a step of thread t.
LEMMA EraseFacts ==
    ASSUME EraseInv, NEW t \in Threads
    PROVE  /\ SnapshotInv /\ TypeOK /\ RolesInv /\ SpentInv /\ InRole(t)
           /\ SaneIn(thread[t], created, db, artifact)
           /\ thread[t].at \notin Unoccupied => thread[t].on \in Snapshots
           /\ t = Main => t \notin Workers /\ t \notin Requests
           /\ t \in Workers => t \notin Requests /\ t # Main /\ t \notin Removers
           /\ t \in Requests => t \notin Workers /\ t # Main
           /\ t \in Workers \/ t \in Requests \/ t = Main
           /\ Main \in Threads
           /\ Serving /\ t = Main => thread[t].at = "serving"
           /\ db \in [Snapshots -> SnapshotState \cup {NoRecord}]
           /\ config.runtime = "docker" => StartsAlone /\ CommitsKnown /\ OneMaker
  <1>1. SnapshotInv /\ TypeOK /\ RolesInv /\ SpentInv /\ InRole(t)
    BY Zenon DEF EraseInv, SnapshotInv, RolesInv
  <1>2. db \in [Snapshots -> SnapshotState \cup {NoRecord}]
    BY <1>1, Zenon DEF TypeOK
  <1>3. /\ SaneIn(thread[t], created, db, artifact)
        /\ thread[t].at \notin Unoccupied => thread[t].on \in Snapshots
    BY <1>1, BeforeStep, Zenon
  <1> QED
    BY <1>1, <1>2, <1>3, ThreadsAreDistinct, Zenon DEF Threads, Removers, Serving, EraseInv

\* Where Goto leads.
LEMMA Goes ==
    ASSUME TypeOK, NEW t \in Threads, NEW place \in Places \ {"idle"}, NEW result \in Results,
           Goto(t, place, result)
    PROVE  /\ thread'[t].at = place /\ thread'[t].on = thread[t].on /\ thread'[t].got = result
           /\ \A u \in Threads \ {t} : thread'[u] = thread[u]
  <1>1. thread'[t] = [at |-> place, on |-> thread[t].on, got |-> result]
    BY GotoMoves
  <1>2. \A u \in Threads \ {t} : thread'[u] = thread[u]
    BY GotoMoves
  <1> QED
    BY <1>1, <1>2

\* Where Return leads.
LEMMA Returns ==
    ASSUME TypeOK, NEW t \in Threads, Return(t)
    PROVE  /\ thread'[t].at = IF t = Main THEN "visit" ELSE "idle"
           /\ \A u \in Threads \ {t} : thread'[u] = thread[u]
  BY Zenon DEF Return, TypeOK, Looping, Idle

\* Artifacts that stay, or go, do not disturb what is known of the others.
LEMMA StillKnown ==
    ASSUME NEW t \in Threads, \A u \in Threads \ {t} : thread'[u] = thread[u],
           UNCHANGED <<config, outlived>>,
           \A s \in Snapshots : artifact'[s] \in {artifact[s], "absent"}
    PROVE  /\ \A s \in Snapshots :
                Spent(s) /\ (t \in Workers /\ thread[t].on = s /\ thread[t].at \in Finishing =>
                               thread'[t].on = s /\ thread'[t].at \in Finishing) => Spent(s)'
           /\ CommitsKnown /\ thread[t].at # "wait" => CommitsKnown'
  <1>1. Workers \subseteq Threads
    BY Zenon DEF Threads
  <1>2. ASSUME NEW s \in Snapshots, Spent(s),
               t \in Workers /\ thread[t].on = s /\ thread[t].at \in Finishing =>
                               thread'[t].on = s /\ thread'[t].at \in Finishing
        PROVE  Spent(s)'
    <2>1. CASE artifact[s] = "absent"
      BY <2>1, Zenon DEF Spent
    <2>2. CASE config.runtime = "docker" /\ s \in outlived
      BY <2>2, Zenon DEF Spent
    <2>3. CASE config.runtime # "docker" /\ \E w \in Workers : thread[w].on = s /\ thread[w].at \in Finishing
      BY <1>1, <1>2, <2>3, Zenon DEF Spent
    <2> QED
      BY <1>2, <2>1, <2>2, <2>3, Zenon DEF Spent
  <1>3. ASSUME CommitsKnown, thread[t].at # "wait" PROVE CommitsKnown'
    <2> SUFFICES ASSUME NEW s \in Snapshots
                 PROVE  /\ artifact'[s] # "failed"
                        /\ artifact'[s] = "pending" =>
                              s \in outlived' \/ \E w \in Workers : thread'[w].on = s /\ thread'[w].at = "wait"
      BY Zenon DEF CommitsKnown
    <2>1. artifact'[s] = "absent" \/ artifact'[s] = artifact[s]
      BY Zenon
    <2>2. /\ artifact[s] # "failed"
          /\ artifact[s] = "pending" => s \in outlived \/ \E w \in Workers : thread[w].on = s /\ thread[w].at = "wait"
      BY <1>3, Zenon DEF CommitsKnown
    <2>3. \A w \in Workers : thread[w].at = "wait" => thread'[w] = thread[w]
      BY <1>1, <1>3, Zenon
    <2> QED
      BY <2>1, <2>2, <2>3, Zenon
  <1> QED
    BY <1>2, <1>3, Zenon

\* A request that is not done moves, and may mark a row as DELETING.
LEMMA RequestTalks ==
    ASSUME EraseInv, SnapshotInv', NEW t \in Requests, Serving,
           thread'[t].at \in {"idle", "mark", "purge", "reread"},
           \A u \in Threads \ {t} : thread'[u] = thread[u],
           UNCHANGED <<artifact, page, outlived>>, UNCHANGED <<config, queue>>,
           \A s \in Snapshots : db'[s] = db[s] \/ (db[s] \in {"READY", "FAILED"} /\ db'[s] = "DELETING")
    PROVE  EraseInv'
  <1>0. t \in Threads
    BY Zenon DEF Threads
  <1>1. Moves(t)
    BY <1>0, EraseFacts, Zenon DEF Moves, InRole
  <1>2. RowsKept
    BY Zenon DEF RowsKept, NoRecord
  <1>3. thread[t].at # "wait"
    BY <1>0, EraseFacts, Zenon DEF InRole
  <1>4. /\ \A r \in Snapshots : Spent(r) => Spent(r)'
        /\ CommitsKnown => CommitsKnown'
    BY <1>0, <1>3, EraseFacts, StillKnown
  <1>5. SpentKept(t)
    BY <1>4, Zenon DEF SpentKept
  <1>6. config.runtime = "docker" => MakersKept(t)
    BY <1>0, <1>4, EraseFacts, Zenon DEF MakersKept, Making, StartsAlone
  <1> QED
    BY <1>0, <1>1, <1>2, <1>5, <1>6, PlainStep, Zenon

\* A request that is under way is served.
LEMMA RequestIsServed ==
    ASSUME EraseInv, NEW t \in Requests, thread[t].at # "idle"
    PROVE  Serving
  BY Zenon DEF EraseInv, RolesInv

\* A deletion begins.
LEMMA DeleteReadErase ==
    ASSUME EraseInv, SnapshotInv', NEW t \in Requests, NEW s \in Snapshots, DeleteRead(t, s)
    PROVE  EraseInv'
  <1>0. t \in Threads
    BY Zenon DEF Threads
  <1>1. thread'[t].at \in {"mark", "purge"} /\ \A u \in Threads \ {t} : thread'[u] = thread[u]
    BY <1>0, EraseFacts, Zenon DEF DeleteRead, TypeOK
  <1>2. UNCHANGED <<artifact, page, outlived>> /\ UNCHANGED <<config, queue>> /\ db' = db /\ Serving
    BY Zenon DEF DeleteRead
  <1> QED
    BY <1>1, <1>2, RequestTalks, Zenon

\* A deletion marks the row, or finds it changed.
LEMMA MarkErase ==
    ASSUME EraseInv, SnapshotInv', NEW t \in Requests, Mark(t)
    PROVE  EraseInv'
  <1>0. t \in Threads /\ "purge" \in Places \ {"idle"} /\ "reread" \in Places \ {"idle"} /\ "none" \in Results
    BY Zenon DEF Threads, Places, Results
  <1>1. thread'[t].at \in {"purge", "reread"} /\ \A u \in Threads \ {t} : thread'[u] = thread[u]
    BY <1>0, EraseFacts, Goes DEF Mark
  <1>2. UNCHANGED <<artifact, page, outlived>> /\ UNCHANGED <<config, queue>> /\ Serving
    BY RequestIsServed, Zenon DEF Mark
  <1>3. thread[t].got \in {"READY", "FAILED"}
    BY <1>0, EraseFacts, Zenon DEF Mark, SaneIn
  <1>4. \A s \in Snapshots : db'[s] = db[s] \/ (db[s] \in {"READY", "FAILED"} /\ db'[s] = "DELETING")
    BY <1>0, <1>3, EraseFacts, Zenon DEF Mark
  <1> QED
    BY <1>1, <1>2, <1>4, RequestTalks, Zenon

\* A deletion that found the row changed goes on, or ends.
LEMMA RereadErase ==
    ASSUME EraseInv, SnapshotInv', NEW t \in Requests, Reread(t)
    PROVE  EraseInv'
  <1>0. t \in Threads /\ t # Main /\ "purge" \in Places \ {"idle"} /\ "none" \in Results
    BY ThreadsAreDistinct, Zenon DEF Threads, Places, Results
  <1>1. thread'[t].at \in {"idle", "purge"} /\ \A u \in Threads \ {t} : thread'[u] = thread[u]
    BY <1>0, EraseFacts, Goes, Returns DEF Reread
  <1>2. UNCHANGED <<artifact, page, outlived>> /\ UNCHANGED <<config, queue>> /\ db' = db /\ Serving
    BY RequestIsServed, Zenon DEF Reread
  <1> QED
    BY <1>1, <1>2, RequestTalks, Zenon

\* The runtime is asked to delete: what it leaves is a commit that outlived its
\* call.
LEMMA PurgeErase ==
    ASSUME EraseInv, SnapshotInv', NEW t \in Threads, NEW s, s = thread[t].on, Purge(t)
    PROVE  EraseInv'
  <1>0. "erase" \in Places \ {"idle"} /\ "ok" \in Results
    BY Zenon DEF Places, Results
  <1>1. s \in Snapshots /\ db[s] \in Ending /\ t \in Removers /\ t \notin Workers
    BY EraseFacts, Zenon DEF Purge, Unoccupied, SaneIn, InRole, Removers
  <1>2. UNCHANGED <<db, page, outlived>> /\ UNCHANGED <<config, queue>>
    BY Zenon DEF Purge
  <1>3. \/ RuntimeDelete(s) /\ thread'[t].at = "erase" /\ thread'[t].on = s
        \/ UNCHANGED artifact /\ thread'[t].at = IF t = Main THEN "visit" ELSE "idle"
    BY <1>0, EraseFacts, Goes, Returns DEF Purge
  <1>4. \A u \in Threads \ {t} : thread'[u] = thread[u]
    BY <1>0, EraseFacts, Goes, Returns DEF Purge
  <1>5. \A r \in Snapshots : artifact'[r] \in {artifact[r], "absent"}
    BY <1>1, <1>3, EraseFacts, Zenon DEF RuntimeDelete, TypeOK
  <1>6. Moves(t)
    BY <1>1, <1>3, <1>4, EraseFacts, Zenon DEF Moves, InRole, Making, Purge
  <1>7. RowsKept
    BY <1>2, Zenon DEF RowsKept, NoRecord
  <1>8. /\ \A r \in Snapshots : Spent(r) => Spent(r)'
        /\ CommitsKnown => CommitsKnown'
    BY <1>1, <1>2, <1>4, <1>5, StillKnown DEF Purge
  <1>9. ASSUME RuntimeDelete(s) PROVE Spent(s)'
    <2>1. artifact \in [Snapshots -> {"absent", "pending", "ready", "failed"}]
      BY EraseFacts, Zenon DEF TypeOK
    <2>2. CASE config.runtime # "docker"
      BY <1>1, <1>9, <2>1, <2>2, Zenon DEF RuntimeDelete, Visible, Spent
    <2>3. CASE config.runtime = "docker"
      <3>1. CommitsKnown /\ OneMaker
        BY <2>3, EraseFacts, Zenon
      <3>2. ~\E w \in Workers : thread[w].on = s /\ thread[w].at = "wait"
        BY <1>1, <3>1, Zenon DEF OneMaker, Makers, Making, Ending, NoRecord
      <3>3. artifact[s] = "ready" \/ artifact[s] = "absent" \/ s \in outlived
        BY <1>1, <2>1, <3>1, <3>2 DEF CommitsKnown
      <3> QED
        BY <1>1, <1>2, <1>9, <2>1, <2>3, <3>3, Zenon DEF RuntimeDelete, Visible, Spent
    <2> QED
      BY <2>2, <2>3, Zenon
  <1>10. SpentKept(t)
    BY <1>2, <1>3, <1>8, <1>9, Zenon DEF SpentKept
  <1>11. config.runtime = "docker" => MakersKept(t)
    BY <1>1, <1>2, <1>3, <1>4, <1>8, EraseFacts, Zenon DEF MakersKept, Making, StartsAlone
  <1> QED
    BY <1>2, <1>6, <1>7, <1>10, <1>11, PlainStep, Zenon

\* A row is removed.
LEMMA RowErase ==
    ASSUME EraseInv, SnapshotInv', NEW t \in Threads, NEW s, s = thread[t].on, Erase(t)
    PROVE  EraseInv'
  <1>1. s \in Snapshots /\ db[s] \in Ending
    BY EraseFacts, Zenon DEF Erase, Unoccupied, SaneIn
  <1>2. UNCHANGED <<artifact, page, outlived>> /\ UNCHANGED <<config, queue>>
    BY Zenon DEF Erase
  <1>3. \A r \in Snapshots : db'[r] = IF r = s THEN NoRecord ELSE db[r]
    BY EraseFacts, Zenon DEF Erase
  <1>4. thread'[t].at = (IF t = Main THEN "visit" ELSE "idle") /\ \A u \in Threads \ {t} : thread'[u] = thread[u]
    BY EraseFacts, Returns, Zenon DEF Erase
  <1>5. Moves(t)
    BY <1>4, EraseFacts, Zenon DEF Moves, InRole, Making, Erase
  <1>6. RowsKept
    BY <1>1, <1>2, <1>3, EraseFacts, Zenon DEF RowsKept, NoRecord
  <1>7. /\ \A r \in Snapshots \ {s} : Spent(r) => Spent(r)'
        /\ CommitsKnown => CommitsKnown'
    BY <1>2, <1>4, StillKnown DEF Erase
  <1>8. SpentKept(t)
    BY <1>3, <1>4, <1>7, Zenon DEF SpentKept, NoRecord
  <1>9. config.runtime = "docker" => MakersKept(t)
    BY <1>1, <1>3, <1>4, <1>7, EraseFacts, Zenon DEF MakersKept, Making, StartsAlone, Ending, NoRecord
  <1> QED
    BY <1>2, <1>5, <1>6, <1>8, <1>9, PlainStep, Zenon

\* A cleanup, of Kubernetes only: with Docker a worker finds its row CREATING.
LEMMA CleanupErase ==
    ASSUME EraseInv, SnapshotInv', NEW t \in Threads, NEW s, s = thread[t].on, Cleanup(t)
    PROVE  EraseInv'
  <1>0. "erase" \in Places \ {"idle"} /\ "ok" \in Results /\ "error" \in Results
    BY Zenon DEF Places, Results
  <1>1. s \in Snapshots /\ t \in Workers /\ config.runtime # "docker"
    BY EraseFacts, Zenon DEF Cleanup, Unoccupied, InRole, OneMaker, Making
  <1>2. UNCHANGED <<db, page, outlived>> /\ UNCHANGED <<config, queue>>
    BY Zenon DEF Cleanup
  <1>3. \/ thread[t].at = "cleanup" /\ thread'[t].at = "idle"
        \/ thread[t].at = "cleanupErase" /\ thread'[t].at = "erase" /\ thread'[t].on = s
    BY <1>0, <1>1, EraseFacts, Goes, Returns DEF Cleanup
  <1>4. \A u \in Threads \ {t} : thread'[u] = thread[u]
    BY <1>0, EraseFacts, Goes, Returns DEF Cleanup
  <1>5. \A r \in Snapshots : artifact'[r] \in {artifact[r], "absent"}
    BY <1>1, EraseFacts, Zenon DEF Cleanup, RuntimeDelete, TypeOK
  <1>6. Moves(t)
    BY <1>1, <1>3, <1>4, EraseFacts, Zenon DEF Moves, InRole
  <1>7. RowsKept
    BY <1>2, Zenon DEF RowsKept, NoRecord
  <1>8. thread[t].at \in Finishing => thread'[t].on = s /\ thread'[t].at \in Finishing
    BY <1>3, Zenon DEF Finishing
  <1>9. \A r \in Snapshots : Spent(r) => Spent(r)'
    BY <1>2, <1>4, <1>5, <1>8, StillKnown
  <1>10. SpentKept(t)
    BY <1>1, <1>9, EraseFacts, Zenon DEF SpentKept
  <1> QED
    BY <1>1, <1>2, <1>6, <1>7, <1>10, PlainStep, Zenon

\* A creation reads the row it is about to finish.
LEMMA CompleteReadErase ==
    ASSUME EraseInv, SnapshotInv', NEW t \in Threads, NEW s, s = thread[t].on, CompleteRead(t)
    PROVE  EraseInv'
  <1>0. /\ "erase" \in Places \ {"idle"} /\ "update" \in Places \ {"idle"} /\ "cleanup" \in Places \ {"idle"}
        /\ "cleanupErase" \in Places \ {"idle"} /\ "none" \in Results /\ {"READY", "FAILED"} \subseteq Results
    BY Zenon DEF Places, Results, SnapshotState
  <1>1. s \in Snapshots /\ thread[t].at = "complete" /\ (t \in Workers \/ t = Main) /\ t \notin Requests
    BY EraseFacts, Zenon DEF CompleteRead, Unoccupied, InRole
  <1>2. UNCHANGED <<db, artifact, page, outlived>> /\ UNCHANGED <<config, queue>>
    BY Zenon DEF CompleteRead
  <1>3. thread[t].got \in {"READY", "FAILED"}
    BY <1>1, EraseFacts, Zenon DEF SaneIn
  <1>4. \/ db[s] = "CREATING" /\ Goto(t, "update", thread[t].got)
        \/ db[s] = "DELETING" /\ (Goto(t, "cleanupErase", "none") \/ Goto(t, "erase", "none"))
        \/ db[s] = NoRecord /\ Goto(t, "cleanup", "none")
        \/ db[s] \notin {"CREATING", "DELETING"} /\ Return(t)
    BY Zenon DEF CompleteRead, NoRecord
  <1>5. /\ \A u \in Threads \ {t} : thread'[u] = thread[u]
        /\ \/ db[s] = "CREATING" /\ thread'[t].at = "update" /\ thread'[t].on = s
           \/ db[s] = "DELETING" /\ thread'[t].at \in {"cleanupErase", "erase"} /\ thread'[t].on = s
           \/ db[s] = NoRecord /\ thread'[t].at = "cleanup" /\ thread'[t].on = s
           \/ db[s] \notin {"CREATING", "DELETING"} /\ thread'[t].at = IF t = Main THEN "visit" ELSE "idle"
    BY <1>0, <1>3, <1>4, EraseFacts, Goes, Returns
  <1>6. t = Main => db[s] \notin Ending
    BY <1>1, EraseFacts, Zenon DEF RolesInv, Making
  <1>7. Moves(t)
    BY <1>1, <1>2, <1>5, <1>6, EraseFacts, Zenon DEF Moves, InRole, Making, Ending, NoRecord
  <1>8. RowsKept
    BY <1>2, Zenon DEF RowsKept, NoRecord
  <1>9. db[s] = "DELETING" => thread'[t].on = s /\ thread'[t].at \in Finishing
    BY <1>5, Zenon DEF Finishing, NoRecord
  <1>10. /\ \A r \in Snapshots : db[r] = "DELETING" /\ Spent(r) => Spent(r)'
         /\ CommitsKnown => CommitsKnown'
    BY <1>1, <1>2, <1>5, <1>9, StillKnown
  <1>11. SpentKept(t)
    BY <1>1, <1>2, <1>5, <1>6, <1>10, EraseFacts, Zenon DEF SpentKept, Ending, NoRecord, Removers
  <1>12. ASSUME config.runtime = "docker" PROVE MakersKept(t)
    <2>1. t # Main => db[s] = "CREATING" /\ thread[t].at \in Making
      BY <1>1, <1>12, EraseFacts, Zenon DEF OneMaker, Makers, Making
    <2>2. thread'[Main].at # "submit"
      BY <1>5, <1>12, EraseFacts, Zenon DEF StartsAlone, NoRecord
    <2>3. t # Main => thread'[t].at = "update" /\ thread'[t].on = s
      BY <1>5, <2>1, Zenon DEF NoRecord
    <2> QED
      BY <1>1, <1>2, <1>10, <1>12, <2>1, <2>2, <2>3, EraseFacts, Zenon DEF MakersKept, Making
  <1> QED
    BY <1>2, <1>7, <1>8, <1>11, <1>12, PlainStep, Zenon

\* A creation ends, once.
LEMMA CompleteUpdateErase ==
    ASSUME EraseInv, SnapshotInv', NEW t \in Threads, NEW s, s = thread[t].on, CompleteUpdate(t)
    PROVE  EraseInv'
  <1>1. s \in Snapshots /\ thread[t].at = "update" /\ (t \in Workers \/ t = Main) /\ t \notin Requests
    BY EraseFacts, Zenon DEF CompleteUpdate, Unoccupied, InRole
  <1>2. UNCHANGED <<artifact, page, outlived>> /\ UNCHANGED <<config, queue>>
    BY Zenon DEF CompleteUpdate
  <1>3. thread[t].got \in {"READY", "FAILED"}
    BY <1>1, EraseFacts, Zenon DEF SaneIn
  <1>4. \A r \in Snapshots : db'[r] = db[r] \/ (r = s /\ db[r] = "CREATING" /\ db'[r] \in {"READY", "FAILED"})
    BY <1>1, <1>3, EraseFacts, Zenon DEF CompleteUpdate
  <1>5. thread'[t].at = (IF t = Main THEN "visit" ELSE "idle") /\ \A u \in Threads \ {t} : thread'[u] = thread[u]
    BY EraseFacts, Returns, Zenon DEF CompleteUpdate
  <1>6. Moves(t)
    BY <1>1, <1>5, EraseFacts, Zenon DEF Moves, InRole, Making
  <1>7. RowsKept
    BY <1>2, <1>4, Zenon DEF RowsKept, Ending, NoRecord
  <1>8. /\ \A r \in Snapshots : Spent(r) => Spent(r)'
        /\ CommitsKnown => CommitsKnown'
    BY <1>1, <1>2, <1>5, StillKnown DEF Finishing
  <1>9. SpentKept(t)
    BY <1>4, <1>5, <1>8, Zenon DEF SpentKept
  <1>10. config.runtime = "docker" => MakersKept(t)
    BY <1>1, <1>4, <1>5, <1>8, EraseFacts, Zenon DEF MakersKept, Making, StartsAlone, Serving
  <1> QED
    BY <1>2, <1>6, <1>7, <1>9, <1>10, PlainStep, Zenon

\* A worker's call of the runtime: it may leave a commit running.
LEMMA CallErase ==
    ASSUME EraseInv, SnapshotInv', NEW t \in Workers, NEW s \in Snapshots, s = thread[t].on,
           thread[t].at \in {"create", "wait"}, thread'[t].on = s,
           thread'[t].at = "wait" \/ (thread'[t].at = "complete" /\ LeftRunning({s})),
           \A u \in Threads \ {t} : thread'[u] = thread[u],
           UNCHANGED <<db, page>>, UNCHANGED <<config, queue>>, outlived \subseteq outlived',
           \A r \in Snapshots \ {s} : artifact'[r] = artifact[r],
           artifact'[s] = "failed" => artifact[s] = "failed"
    PROVE  EraseInv'
  <1>0. t \in Threads /\ Workers \subseteq Threads
    BY Zenon DEF Threads
  <1>1. thread[t].at \in Making /\ thread'[t].at \in Making /\ thread'[t].at \in Finishing
    BY Zenon DEF Making, Finishing
  <1>2. Moves(t)
    BY <1>0, EraseFacts, Zenon DEF Moves, InRole
  <1>3. RowsKept
    BY Zenon DEF RowsKept, NoRecord
  <1>4. ASSUME config.runtime = "docker" PROVE db[s] = "CREATING" /\ CommitsKnown /\ StartsAlone /\ OneMaker
    BY <1>0, <1>1, <1>4, EraseFacts, Zenon DEF OneMaker, Makers
  <1>5. ASSUME NEW r \in Snapshots, db[r] = "DELETING", Spent(r) PROVE Spent(r)'
    <2>1. CASE config.runtime = "docker"
      <3>1. r # s
        BY <1>4, <1>5, <2>1, Zenon
      <3> QED
        BY <1>5, <2>1, <3>1, Zenon DEF Spent
    <2>2. CASE config.runtime # "docker"
      <3>1. CASE r = s
        BY <1>1, <2>2, <3>1, Zenon DEF Spent
      <3>2. CASE r # s
        <4>1. \A w \in Workers : thread[w].on = r => thread'[w] = thread[w]
          BY <1>0, <3>2, Zenon
        <4> QED
          BY <1>5, <2>2, <3>2, <4>1, Zenon DEF Spent
      <3> QED
        BY <3>1, <3>2, Zenon
    <2> QED
      BY <2>1, <2>2, Zenon
  <1>6. SpentKept(t)
    BY <1>0, <1>5, EraseFacts, Zenon DEF SpentKept
  <1>7. ASSUME config.runtime = "docker" PROVE CommitsKnown'
    <2> SUFFICES ASSUME NEW r \in Snapshots
                 PROVE  /\ artifact'[r] # "failed"
                        /\ artifact'[r] = "pending" =>
                              r \in outlived' \/ \E w \in Workers : thread'[w].on = r /\ thread'[w].at = "wait"
      BY Zenon DEF CommitsKnown
    <2>1. CASE r = s
      <3>1. artifact'[s] # "failed"
        BY <1>4, <1>7, Zenon DEF CommitsKnown
      <3>2. CASE thread'[t].at = "wait"
        BY <2>1, <3>1, <3>2, Zenon
      <3>3. CASE LeftRunning({s})
        BY <1>7, <2>1, <3>1, <3>3, Zenon DEF LeftRunning
      <3> QED
        BY <3>2, <3>3, Zenon
    <2>2. CASE r # s
      <3>1. \A w \in Workers : thread[w].on = r => thread'[w] = thread[w]
        BY <1>0, <2>2, Zenon
      <3>2. /\ artifact[r] # "failed"
            /\ artifact[r] = "pending" =>
                  r \in outlived \/ \E w \in Workers : thread[w].on = r /\ thread[w].at = "wait"
        BY <1>4, <1>7, Zenon DEF CommitsKnown
      <3>3. artifact'[r] = artifact[r]
        BY <2>2, Zenon
      <3> QED
        BY <3>1, <3>2, <3>3, Zenon
    <2> QED
      BY <2>1, <2>2, Zenon
  <1>8. config.runtime = "docker" => MakersKept(t)
    BY <1>0, <1>1, <1>4, <1>7, EraseFacts, Zenon DEF MakersKept, StartsAlone
  <1> QED
    BY <1>0, <1>2, <1>3, <1>6, <1>8, PlainStep, Zenon

\* The runtime is asked for a commit.
LEMMA RuntimeCreateErase ==
    ASSUME EraseInv, SnapshotInv', NEW t \in Workers, RuntimeCreate(t)
    PROVE  EraseInv'
  <1>0. /\ t \in Threads /\ "wait" \in Places \ {"idle"} /\ "complete" \in Places \ {"idle"}
        /\ "none" \in Results /\ "FAILED" \in Results
    BY Zenon DEF Threads, Places, Results, SnapshotState
  <1>1. /\ thread[t].on \in Snapshots /\ TypeOK
        /\ artifact \in [Snapshots -> {"absent", "pending", "ready", "failed"}]
    BY <1>0, EraseFacts, Zenon DEF RuntimeCreate, Unoccupied, TypeOK
  <1>2. PICK s \in Snapshots : s = thread[t].on
    BY <1>1, Zenon
  <1>3. /\ thread'[t].on = s /\ thread'[t].at \in {"wait", "complete"}
        /\ \A u \in Threads \ {t} : thread'[u] = thread[u]
    BY <1>0, <1>1, <1>2, Goes DEF RuntimeCreate
  <1>4. thread'[t].at = "wait" \/ (thread'[t].at = "complete" /\ LeftRunning({s}))
    BY <1>2, <1>3, Zenon DEF RuntimeCreate
  <1>5. /\ outlived \subseteq outlived' /\ UNCHANGED <<db, page>> /\ UNCHANGED <<config, queue>>
        /\ thread[t].at = "create"
    BY Zenon DEF RuntimeCreate, LeftRunning
  <1>6. artifact' = artifact \/ artifact' = [artifact EXCEPT ![s] = IF artifact[s] = "absent" THEN "pending" ELSE artifact[s]]
    BY <1>1, <1>2, Zenon DEF RuntimeCreate
  <1>7. /\ \A r \in Snapshots \ {s} : artifact'[r] = artifact[r]
        /\ artifact'[s] = "failed" => artifact[s] = "failed"
    BY <1>1, <1>6, Zenon
  <1> QED
    BY <1>2, <1>3, <1>4, <1>5, <1>7, CallErase, Zenon

\* The wait for a commit ends.
LEMMA AwaitCommitErase ==
    ASSUME EraseInv, SnapshotInv', NEW t \in Workers, AwaitCommit(t)
    PROVE  EraseInv'
  <1>0. t \in Threads /\ "complete" \in Places \ {"idle"} /\ {"READY", "FAILED"} \subseteq Results
    BY Zenon DEF Threads, Places, Results, SnapshotState
  <1>1. thread[t].on \in Snapshots /\ TypeOK
    BY <1>0, EraseFacts, Zenon DEF AwaitCommit, Unoccupied
  <1>2. PICK s \in Snapshots : s = thread[t].on
    BY <1>1, Zenon
  <1>3. PICK answer \in {"READY", "FAILED"} : Goto(t, "complete", answer)
    BY <1>1, InspectIsTrue, Zenon DEF AwaitCommit
  <1>4. /\ thread'[t].on = s /\ thread'[t].at = "complete"
        /\ \A u \in Threads \ {t} : thread'[u] = thread[u]
    BY <1>0, <1>1, <1>2, <1>3, Goes
  <1>5. /\ outlived \subseteq outlived' /\ UNCHANGED <<db, page>> /\ UNCHANGED <<config, queue>>
        /\ thread[t].at = "wait" /\ artifact' = artifact /\ LeftRunning({s})
    BY <1>2, Zenon DEF AwaitCommit, LeftRunning
  <1> QED
    BY <1>2, <1>4, <1>5, CallErase, Zenon

\* The starting thread goes on, with the table and the artifacts as they are.
LEMMA MainErase ==
    ASSUME EraseInv, SnapshotInv', ~Serving,
           \A u \in Threads \ {Main} : thread'[u] = thread[u],
           thread'[Main].at \in {"list", "visit", "serving", "submit", "complete", "purge"},
           thread'[Main].at \in Making => db[thread'[Main].on] \notin Ending,
           config.runtime = "docker" => thread'[Main].at # "submit",
           UNCHANGED <<db, artifact, outlived>>, UNCHANGED <<config, queue>>,
           \A s \in DOMAIN page' : page'[s] = "CREATING" =>
               (s \in DOMAIN page /\ page[s] = "CREATING") \/ db[s] \notin Ending
    PROVE  EraseInv'
  <1>0. Main \in Threads
    BY Zenon DEF Threads
  <1>1. Moves(Main)
    BY <1>0, EraseFacts, Zenon DEF Moves, InRole
  <1>2. RowsKept
    BY Zenon DEF RowsKept, NoRecord
  <1>3. thread[Main].at # "wait" /\ Main \notin Workers
    BY <1>0, EraseFacts, Zenon DEF InRole
  <1>4. /\ \A r \in Snapshots : Spent(r) => Spent(r)'
        /\ CommitsKnown => CommitsKnown'
    BY <1>0, <1>3, StillKnown
  <1>5. SpentKept(Main)
    BY <1>4, Zenon DEF SpentKept
  <1>6. config.runtime = "docker" => MakersKept(Main)
    BY <1>0, <1>4, EraseFacts, Zenon DEF MakersKept
  <1> QED
    BY <1>0, <1>1, <1>2, <1>5, <1>6, PlainStep, Zenon

\* Recovery lists what the table says.
LEMMA RecoverListErase ==
    ASSUME EraseInv, SnapshotInv', RecoverList
    PROVE  EraseInv'
  <1>0. Main \in Threads /\ TypeOK
    BY EraseFacts, Zenon DEF Threads
  <1>1. PICK place \in {"serving", "visit"} : thread' = [thread EXCEPT ![Main] = Looping(place)]
    BY Zenon DEF RecoverList
  <1>2. thread'[Main].at = place /\ \A u \in Threads \ {Main} : thread'[u] = thread[u]
    BY <1>0, <1>1, Zenon DEF TypeOK, Looping
  <1>3. UNCHANGED <<db, artifact, outlived>> /\ UNCHANGED <<config, queue>> /\ ~Serving
    BY Zenon DEF RecoverList, Serving
  <1>4. \A s \in DOMAIN page' : page'[s] = "CREATING" => db[s] \notin Ending
    BY Zenon DEF RecoverList, Ending, NoRecord
  <1>5. thread'[Main].at \notin Making /\ thread'[Main].at # "submit"
    BY <1>2, Zenon DEF Making
  <1> QED
    BY <1>2, <1>3, <1>4, <1>5, MainErase, Zenon

\* Recovery visits a record: with Docker it never submits.
LEMMA RecoverVisitErase ==
    ASSUME EraseInv, SnapshotInv', RecoverVisit
    PROVE  EraseInv'
  <1>0. Main \in Threads /\ TypeOK /\ RolesInv
    BY EraseFacts, Zenon DEF Threads
  <1>1. UNCHANGED <<db, artifact, outlived>> /\ UNCHANGED <<config, queue>> /\ ~Serving
    BY Zenon DEF RecoverVisit, Serving
  <1>2. PICK s \in DOMAIN page :
          /\ page' = [r \in DOMAIN page \ {s} |-> page[r]]
          /\ \/ /\ page[s] = "CREATING"
                /\ \E answer \in Inspect(s) :
                    thread' = [thread EXCEPT ![Main] =
                         [at |-> IF answer = "CREATING" THEN "submit" ELSE "complete",
                          on |-> s, got |-> answer]]
             \/ thread' = [thread EXCEPT ![Main] = [at |-> "purge", on |-> s, got |-> "none"]]
    BY Zenon DEF RecoverVisit
  <1>3. \A r \in DOMAIN page' : r \in DOMAIN page /\ page'[r] = page[r]
    BY <1>2, Zenon
  <1>4. \A u \in Threads \ {Main} : thread'[u] = thread[u]
    BY <1>0, <1>2, Zenon DEF TypeOK
  <1>5. page[s] = "CREATING" => db[s] \notin Ending
    BY <1>0, <1>1, Zenon DEF RolesInv
  <1>6. CASE thread' = [thread EXCEPT ![Main] = [at |-> "purge", on |-> s, got |-> "none"]]
    <2>1. thread'[Main].at = "purge" /\ thread'[Main].at \notin Making
      BY <1>0, <1>6, Zenon DEF TypeOK, Making
    <2> QED
      BY <1>1, <1>3, <1>4, <2>1, MainErase, Zenon
  <1>7. ASSUME NEW answer \in Inspect(s), page[s] = "CREATING",
               thread' = [thread EXCEPT ![Main] =
                   [at |-> IF answer = "CREATING" THEN "submit" ELSE "complete", on |-> s, got |-> answer]]
        PROVE  EraseInv'
    <2>0. \A r \in DOMAIN page' : page'[r] = "CREATING" => r \in DOMAIN page /\ page[r] = "CREATING"
      BY <1>3, Zenon
    <2>1. thread'[Main].at = (IF answer = "CREATING" THEN "submit" ELSE "complete") /\ thread'[Main].on = s
      BY <1>0, <1>7, Zenon DEF TypeOK
    <2>2. config.runtime = "docker" => answer # "CREATING"
      BY <1>7, Zenon DEF Inspect
    <2>3. thread'[Main].at \in {"list", "visit", "serving", "submit", "complete", "purge"}
      BY <2>1, Zenon
    <2>4. db[thread'[Main].on] \notin Ending
      BY <1>5, <1>7, <2>1, Zenon
    <2>5. config.runtime = "docker" => thread'[Main].at # "submit"
      BY <2>1, <2>2, Zenon
    <2> QED
      BY <1>1, <1>4, <2>0, <2>3, <2>4, <2>5, MainErase, Zenon
  <1> QED
    BY <1>2, <1>6, <1>7, Zenon

\* A page of the recovery ends.
LEMMA RecoverEndErase ==
    ASSUME EraseInv, SnapshotInv', RecoverEnd
    PROVE  EraseInv'
  <1>0. Main \in Threads /\ TypeOK
    BY EraseFacts, Zenon DEF Threads
  <1>1. PICK place \in {"serving", "list"} : thread' = [thread EXCEPT ![Main] = Looping(place)]
    BY Zenon DEF RecoverEnd
  <1>2. thread'[Main].at = place /\ \A u \in Threads \ {Main} : thread'[u] = thread[u]
    BY <1>0, <1>1, Zenon DEF TypeOK, Looping
  <1>3. UNCHANGED <<db, artifact, outlived>> /\ UNCHANGED <<config, queue>> /\ page' = page /\ ~Serving
    BY Zenon DEF RecoverEnd, Serving
  <1>4. thread'[Main].at \notin Making /\ thread'[Main].at # "submit"
    BY <1>2, Zenon DEF Making
  <1> QED
    BY <1>2, <1>3, <1>4, MainErase, Zenon

\* A commit ends: what was gone stays so.
LEMMA CommitEndsErase ==
    ASSUME EraseInv, SnapshotInv', NEW s \in Snapshots, CommitEnds(s)
    PROVE  EraseInv'
  <1>0. /\ Main \in Threads /\ RolesInv
        /\ artifact \in [Snapshots -> {"absent", "pending", "ready", "failed"}]
    BY EraseFacts, Zenon DEF Threads, TypeOK
  <1>1. UNCHANGED <<db, thread, page, outlived>> /\ UNCHANGED <<config, queue>> /\ artifact[s] = "pending"
    BY Zenon DEF CommitEnds
  <1>2. /\ \A r \in Snapshots \ {s} : artifact'[r] = artifact[r]
        /\ config.runtime = "docker" => artifact'[s] \in {"ready", "absent"}
    BY <1>0, Zenon DEF CommitEnds
  <1>3. Moves(Main)
    BY <1>0, <1>1, Zenon DEF Moves, RolesInv, InRole
  <1>4. RowsKept
    BY <1>1, Zenon DEF RowsKept, NoRecord
  <1>5. \A r \in Snapshots : Spent(r) => Spent(r)'
    BY <1>1, <1>2, Zenon DEF Spent
  <1>6. SpentKept(Main)
    BY <1>0, <1>1, <1>5, EraseFacts, Zenon DEF SpentKept, SpentInv
  <1>7. ASSUME config.runtime = "docker" PROVE MakersKept(Main)
    <2>1. CommitsKnown /\ StartsAlone /\ Main \notin Workers
      BY <1>0, <1>7, EraseFacts, Zenon
    <2>2. CommitsKnown'
      BY <1>1, <1>2, <1>7, <2>1 DEF CommitsKnown
    <2> QED
      BY <1>1, <2>1, <2>2, Zenon DEF MakersKept, StartsAlone
  <1> QED
    BY <1>0, <1>1, <1>3, <1>4, <1>6, <1>7, PlainStep, Zenon

\* The elements of a sequence.
LEMMA Indexed ==
    ASSUME NEW S, NEW q \in Seq(S)
    PROVE  \A i \in 1 .. Len(q) : q[i] \in S
  OBVIOUS

\* The elements of a sequence with one more, and with one less.
LEMMA Appended ==
    ASSUME NEW S, NEW q \in Seq(S), NEW e \in S
    PROVE  \A i \in 1 .. Len(Append(q, e)) :
             \/ i \in 1 .. Len(q) /\ Append(q, e)[i] = q[i]
             \/ i = Len(q) + 1 /\ Append(q, e)[i] = e
  OBVIOUS

\* The same for the sequence without its first element.
LEMMA Tailed ==
    ASSUME NEW S, NEW q \in Seq(S), q # <<>>
    PROVE  /\ \A i \in 1 .. Len(Tail(q)) : i + 1 \in 2 .. Len(q) /\ Tail(q)[i] = q[i + 1]
           /\ 1 \in 1 .. Len(q) /\ Head(q) = q[1]
  <1>1. Len(q) # 0 /\ Len(q) \in Nat
    OBVIOUS
  <1>2. Len(Tail(q)) = Len(q) - 1
    BY <1>1
  <1> QED
    BY <1>1, <1>2

\* A new snapshot is one that nobody makes yet.
LEMMA AcceptCreateErase ==
    ASSUME EraseInv, SnapshotInv', NEW t \in Requests, AcceptCreate(t)
    PROVE  EraseInv'
  <1>0. t \in Threads /\ t # Main /\ t \in Makers /\ Makers \subseteq Threads /\ "submit" \in Making
    BY ThreadsAreDistinct, Zenon DEF Threads, Makers, Making
  <1>1. PICK n \in Snapshots : n = created + 1
    BY <1>0, EraseFacts, BoundsAreNat DEF AcceptCreate, TypeOK, Snapshots
  <1>2. n \notin 1 .. created /\ db[n] = NoRecord
    BY <1>0, <1>1, EraseFacts, BoundsAreNat DEF SnapshotInv, TypeOK
  <1>3. /\ thread'[t].at = "submit" /\ thread'[t].on = n /\ \A u \in Threads \ {t} : thread'[u] = thread[u]
        /\ thread[t].at = "idle"
    <2>1. thread'[t] = [at |-> "submit", on |-> n, got |-> "none"] /\ \A u \in Threads \ {t} : thread'[u] = thread[u]
      BY <1>0, <1>1, EraseFacts, Zenon DEF AcceptCreate, TypeOK
    <2> QED
      BY <2>1 DEF AcceptCreate, Idle
  <1>4. UNCHANGED <<artifact, page, outlived>> /\ UNCHANGED <<config, queue>> /\ Serving
    BY Zenon DEF AcceptCreate
  <1>5. \A r \in Snapshots : db'[r] = IF r = n THEN "CREATING" ELSE db[r]
    BY <1>0, <1>1, EraseFacts, Zenon DEF AcceptCreate
  <1>6. Moves(t)
    BY <1>0, <1>3, <1>4, EraseFacts, Zenon DEF Moves, InRole
  <1>7. RowsKept
    BY <1>4, <1>5, Zenon DEF RowsKept, NoRecord
  <1>8. /\ \A r \in Snapshots : Spent(r) => Spent(r)'
        /\ CommitsKnown => CommitsKnown'
    BY <1>0, <1>3, <1>4, EraseFacts, StillKnown
  <1>9. SpentKept(t)
    BY <1>3, <1>5, <1>8, Zenon DEF SpentKept
  <1>10. RolesInv' /\ SpentInv' /\ Serving'
    BY <1>0, <1>4, <1>6, <1>7, <1>9, RowsStep, Zenon
  <1>11. ASSUME config.runtime = "docker" PROVE StartsAlone' /\ CommitsKnown' /\ OneMaker'
    <2>1. StartsAlone /\ CommitsKnown /\ OneMaker
      BY <1>11, Zenon DEF EraseInv
    <2>2. \A u \in Makers : thread[u].at \in Making => thread[u].on \in Snapshots /\ thread[u].on # n
      <3>1. \A u \in Threads : thread[u].at \in Making => thread[u].at \notin Unoccupied
        BY Zenon DEF Making, Unoccupied
      <3>2. SnapshotInv
        BY Zenon DEF EraseInv
      <3>3. \A u \in Threads : thread[u].at \notin Unoccupied => thread[u].on \in 1 .. created /\ thread[u].on \in Snapshots
        BY <3>2, BeforeStep, Zenon
      <3> QED
        BY <1>0, <1>2, <3>1, <3>3, Zenon
    <2>3. \A i \in 1 .. Len(queue) : queue[i] # n
      <3>1. queue \in Seq(1 .. created)
        BY Zenon DEF EraseInv, SnapshotInv
      <3> QED
        BY <1>2, <3>1, Indexed, Zenon
    <2>4. StartsAlone'
      BY <1>0, <1>3, <1>10, <2>1, EraseFacts, Zenon DEF StartsAlone
    <2>5. \A u \in Workers : thread'[u].at \in {"idle"} \cup Making
      BY <1>0, <1>3, <2>1, EraseFacts, Zenon DEF OneMaker, Threads
    <2>6. \A u \in Makers \ {t} : thread'[u] = thread[u]
      BY <1>0, <1>3, Zenon
    <2>7. \A u \in Makers : thread'[u].at \in Making => db'[thread'[u].on] = "CREATING"
      <3>1. \A u \in Makers \ {t} : thread[u].at \in Making => db'[thread[u].on] = "CREATING"
        BY <1>5, <2>1, <2>2, Zenon DEF OneMaker
      <3>2. db'[thread'[t].on] = "CREATING"
        BY <1>1, <1>3, <1>5, Zenon
      <3> QED
        BY <2>6, <3>1, <3>2, Zenon
    <2>8. \A u, v \in Makers :
            u # v /\ thread'[u].at \in Making /\ thread'[v].at \in Making => thread'[u].on # thread'[v].on
      BY <1>3, <2>1, <2>2, <2>6 DEF OneMaker
    <2>9. \A i \in 1 .. Len(queue) : queue[i] \in Snapshots
      <3>1. queue \in Seq(Snapshots)
        BY Zenon DEF EraseInv, SnapshotInv, TypeOK
      <3> QED
        BY <3>1, Indexed, Zenon
    <2>10. \A i \in 1 .. Len(queue) :
              /\ db'[queue[i]] = "CREATING"
              /\ \A u \in Makers : thread'[u].at \in Making => thread'[u].on # queue[i]
      BY <1>3, <1>5, <2>1, <2>3, <2>6, <2>9 DEF OneMaker
    <2>11. OneMaker'
      BY <1>4, <2>1, <2>5, <2>7, <2>8, <2>10, Zenon DEF OneMaker
    <2> QED
      BY <1>8, <2>1, <2>4, <2>11, Zenon
  <1> QED
    BY <1>4, <1>10, <1>11, Zenon DEF EraseInv

\* A snapshot goes from the thread that recorded it to the queue; recovery
\* submits a creation it knows nothing of only with Kubernetes.
LEMMA SubmitErase ==
    ASSUME EraseInv, SnapshotInv', NEW t \in Threads, Submit(t)
    PROVE  EraseInv'
  <1>0. /\ thread[t].at = "submit" /\ thread[t].at \in Making /\ thread[t].at \notin Unoccupied
        /\ thread[t].at # "idle" /\ Makers \subseteq Threads
    BY Zenon DEF Submit, Making, Unoccupied, Makers, Threads
  <1>1. PICK s \in Snapshots : s = thread[t].on
    BY <1>0, EraseFacts, Zenon
  <1>2. /\ thread'[t].at = (IF t = Main THEN "visit" ELSE "idle")
        /\ \A u \in Threads \ {t} : thread'[u] = thread[u]
    BY EraseFacts, Returns DEF Submit
  <1>3. /\ UNCHANGED <<artifact, page, outlived>> /\ UNCHANGED <<config, db>> /\ queue' = Append(queue, s)
        /\ Main \in Threads
    BY <1>1, Zenon DEF Submit, Threads
  <1>4. ~Serving \/ t # Main
    BY <1>0, EraseFacts, Zenon DEF Serving
  <1>5. Moves(t)
    BY <1>0, <1>2, <1>3, <1>4, EraseFacts, Zenon DEF Moves, InRole, Making
  <1>6. RowsKept
    BY <1>3, Zenon DEF RowsKept, NoRecord
  <1>7. /\ \A r \in Snapshots : Spent(r) => Spent(r)'
        /\ CommitsKnown => CommitsKnown'
    BY <1>0, <1>2, <1>3, StillKnown DEF Finishing
  <1>8. SpentKept(t)
    BY <1>2, <1>7, Zenon DEF SpentKept
  <1>9. RolesInv' /\ SpentInv' /\ (Serving => Serving')
    BY <1>5, <1>6, <1>8, RowsStep, Zenon
  <1>10. ASSUME config.runtime = "docker" PROVE StartsAlone' /\ CommitsKnown' /\ OneMaker'
    <2>1. StartsAlone /\ CommitsKnown /\ OneMaker
      BY <1>10, EraseFacts, Zenon
    <2>2. t # Main /\ t \in Requests /\ t \in Makers
      BY <1>0, <2>1, EraseFacts, Zenon DEF StartsAlone, InRole, Makers
    <2>3. Serving /\ Serving'
      BY <1>0, <1>9, <2>2, EraseFacts, Zenon DEF RolesInv
    <2>4. StartsAlone'
      BY <1>2, <1>3, <2>1, <2>2, <2>3, Zenon DEF StartsAlone
    <2>5. /\ thread'[t].at \notin Making
          /\ \A u \in Makers \ {t} : thread'[u] = thread[u]
      BY <1>0, <1>2, <2>2, Zenon DEF Making
    <2>6. \A u \in Makers : thread'[u].at \in Making =>
              /\ u # t /\ thread[u].at \in Making /\ thread'[u].on = thread[u].on
              /\ thread[u].on # s
      BY <1>0, <1>1, <2>1, <2>2, <2>5, Zenon DEF OneMaker
    <2>7. db[s] = "CREATING" /\ \A i \in 1 .. Len(queue) : queue[i] # s
      BY <1>0, <1>1, <2>1, <2>2, Zenon DEF OneMaker
    <2>8. queue \in Seq(Snapshots)
      BY EraseFacts, Zenon DEF TypeOK
    <2>9. \A i \in 1 .. Len(queue') :
             \/ i \in 1 .. Len(queue) /\ queue'[i] = queue[i]
             \/ i = Len(queue) + 1 /\ queue'[i] = s
      BY <1>3, <2>8, Appended, Zenon
    <2>10. \A i \in 1 .. Len(queue') : /\ db'[queue'[i]] = "CREATING"
                                       /\ \A u \in Makers : thread'[u].at \in Making => thread'[u].on # queue'[i]
      <3> SUFFICES ASSUME NEW i \in 1 .. Len(queue')
                   PROVE  /\ db'[queue'[i]] = "CREATING"
                          /\ \A u \in Makers : thread'[u].at \in Making => thread'[u].on # queue'[i]
        OBVIOUS
      <3>1. CASE queue'[i] = s
        BY <1>3, <2>6, <2>7, <3>1, Zenon
      <3>2. CASE i \in 1 .. Len(queue) /\ queue'[i] = queue[i]
        BY <1>3, <2>1, <2>6, <3>2, Zenon DEF OneMaker
      <3> QED
        BY <2>9, <3>1, <3>2, Zenon
    <2>11. \A i, j \in 1 .. Len(queue') : i # j => queue'[i] # queue'[j]
      BY <2>1, <2>7, <2>9, Zenon DEF OneMaker
    <2>12. \A u \in Workers : thread'[u].at \in {"idle"} \cup Making
      BY <2>1, <2>2, <2>5, EraseFacts, Zenon DEF OneMaker, Makers
    <2>13. \A u \in Makers : thread'[u].at \in Making => db'[thread'[u].on] = "CREATING"
      BY <1>3, <2>1, <2>6, Zenon DEF OneMaker
    <2>14. \A u, v \in Makers :
            u # v /\ thread'[u].at \in Making /\ thread'[v].at \in Making => thread'[u].on # thread'[v].on
      BY <2>1, <2>6, Zenon DEF OneMaker
    <2> QED
      BY <1>7, <2>1, <2>4, <2>10, <2>11, <2>12, <2>13, <2>14, Zenon DEF OneMaker
  <1> QED
    BY <1>3, <1>9, <1>10, Zenon DEF EraseInv

\* A worker takes over what leaves the queue.
LEMMA StartWorkerErase ==
    ASSUME EraseInv, SnapshotInv', NEW t \in Workers, StartWorker(t)
    PROVE  EraseInv'
  <1>0. t \in Threads /\ t \in Makers /\ Makers \subseteq Threads /\ "create" \in Making
    BY Zenon DEF Threads, Makers, Making
  <1>1. queue \in Seq(Snapshots) /\ queue # <<>>
    BY <1>0, EraseFacts, Zenon DEF TypeOK, StartWorker
  <1>2. /\ \A i \in 1 .. Len(Tail(queue)) : i + 1 \in 2 .. Len(queue) /\ Tail(queue)[i] = queue[i + 1]
        /\ 1 \in 1 .. Len(queue) /\ Head(queue) = queue[1]
    BY <1>1, Tailed
  <1>3. PICK s \in Snapshots : s = Head(queue) /\ s = queue[1]
    BY <1>1, <1>2, Indexed, Zenon
  <1>4. /\ thread'[t].at = "create" /\ thread'[t].on = s /\ \A u \in Threads \ {t} : thread'[u] = thread[u]
        /\ thread[t].at = "idle"
    <2>1. thread'[t] = [at |-> "create", on |-> s, got |-> "none"] /\ \A u \in Threads \ {t} : thread'[u] = thread[u]
      BY <1>0, <1>3, EraseFacts, Zenon DEF StartWorker, TypeOK
    <2> QED
      BY <2>1 DEF StartWorker, Idle
  <1>5. /\ UNCHANGED <<artifact, page, outlived>> /\ UNCHANGED <<config, db>> /\ queue' = Tail(queue)
        /\ Main \in Threads /\ t # Main /\ t \notin Requests /\ t \notin Removers
    BY <1>0, EraseFacts, Zenon DEF StartWorker
  <1>6. Moves(t)
    BY <1>0, <1>4, <1>5, EraseFacts, Zenon DEF Moves, InRole
  <1>7. RowsKept
    BY <1>5, Zenon DEF RowsKept, NoRecord
  <1>8. /\ \A r \in Snapshots : Spent(r) => Spent(r)'
        /\ CommitsKnown => CommitsKnown'
    BY <1>0, <1>4, <1>5, StillKnown DEF Finishing
  <1>9. SpentKept(t)
    BY <1>5, <1>8, Zenon DEF SpentKept
  <1>10. RolesInv' /\ SpentInv' /\ (Serving => Serving')
    BY <1>0, <1>6, <1>7, <1>9, RowsStep, Zenon
  <1>11. ASSUME config.runtime = "docker" PROVE StartsAlone' /\ CommitsKnown' /\ OneMaker'
    <2>1. StartsAlone /\ CommitsKnown /\ OneMaker
      BY <1>0, <1>11, EraseFacts, Zenon
    <2>2. Serving /\ Serving'
      BY <1>1, <1>10, <2>1, Zenon DEF StartsAlone
    <2>3. StartsAlone'
      BY <1>4, <1>5, <2>1, <2>2, Zenon DEF StartsAlone
    <2>4. \A u \in Makers \ {t} : thread'[u] = thread[u]
      BY <1>0, <1>4, Zenon
    <2>5. \A i \in 1 .. Len(queue') : \E j \in 1 .. Len(queue) : j = i + 1 /\ queue'[i] = queue[j] /\ j # 1
      BY <1>2, <1>5
    <2>6. db[s] = "CREATING" /\ \A u \in Makers : thread[u].at \in Making => thread[u].on # s
      BY <1>2, <1>3, <2>1, Zenon DEF OneMaker
    <2>7. \A i \in 1 .. Len(queue') :
            /\ db'[queue'[i]] = "CREATING" /\ queue'[i] # s
            /\ \A u \in Makers : thread[u].at \in Making => thread[u].on # queue'[i]
      <3> SUFFICES ASSUME NEW i \in 1 .. Len(queue')
                   PROVE  /\ db'[queue'[i]] = "CREATING" /\ queue'[i] # s
                          /\ \A u \in Makers : thread[u].at \in Making => thread[u].on # queue'[i]
        OBVIOUS
      <3>1. PICK j \in 1 .. Len(queue) : queue'[i] = queue[j] /\ j # 1
        BY <2>5, Zenon
      <3>2. queue[j] # s
        BY <1>2, <1>3, <2>1, <3>1, Zenon DEF OneMaker
      <3> QED
        BY <1>5, <2>1, <3>1, <3>2, Zenon DEF OneMaker
    <2>8. \A i \in 1 .. Len(queue') : \A u \in Makers : thread'[u].at \in Making => thread'[u].on # queue'[i]
      BY <1>4, <2>4, <2>7, Zenon
    <2>9. \A i, j \in 1 .. Len(queue') : i # j => queue'[i] # queue'[j]
      <3> SUFFICES ASSUME NEW i \in 1 .. Len(queue'), NEW j \in 1 .. Len(queue'), i # j
                   PROVE  queue'[i] # queue'[j]
        OBVIOUS
      <3>1. i + 1 # j + 1
        OBVIOUS
      <3>2. PICK k \in 1 .. Len(queue) : k = i + 1 /\ queue'[i] = queue[k]
        BY <2>5, Zenon
      <3>3. PICK l \in 1 .. Len(queue) : l = j + 1 /\ queue'[j] = queue[l]
        BY <2>5, Zenon
      <3>4. k # l
        BY <3>1, <3>2, <3>3
      <3> QED
        BY <2>1, <3>2, <3>3, <3>4, Zenon DEF OneMaker
    <2>10. \A u \in Workers : thread'[u].at \in {"idle"} \cup Making
      BY <1>0, <1>4, <2>1, <2>4, Zenon DEF OneMaker, Makers
    <2>11. \A u \in Makers : thread'[u].at \in Making => db'[thread'[u].on] = "CREATING"
      BY <1>4, <1>5, <2>1, <2>4, <2>6, Zenon DEF OneMaker
    <2>12. \A u, v \in Makers :
            u # v /\ thread'[u].at \in Making /\ thread'[v].at \in Making => thread'[u].on # thread'[v].on
      <3>1. \A u \in Makers \ {t} : thread'[u].at \in Making => thread'[u].on # s
        BY <2>4, <2>6, Zenon
      <3>2. \A u, v \in Makers \ {t} :
              u # v /\ thread'[u].at \in Making /\ thread'[v].at \in Making => thread'[u].on # thread'[v].on
        BY <2>1, <2>4, Zenon DEF OneMaker
      <3> QED
        BY <1>4, <3>1, <3>2, Zenon
    <2> QED
      BY <1>4, <1>8, <2>1, <2>3, <2>7, <2>8, <2>9, <2>10, <2>11, <2>12, Zenon DEF OneMaker
  <1> QED
    BY <1>5, <1>10, <1>11, Zenon DEF EraseInv

\* The process starts: nothing runs, and every commit is on its own.
LEMMA StartErase ==
    ASSUME SnapshotInv', queue' = <<>>, page' = [s \in {} |-> NoRecord],
           thread' = [t \in Threads |-> IF t = Main THEN Looping("list") ELSE Idle],
           config'.runtime = "docker" => CommitsKnown'
    PROVE  EraseInv'
  <1>1. /\ Main \in Threads /\ Workers \subseteq Threads /\ Requests \subseteq Threads
        /\ Main \notin Workers /\ Main \notin Requests
        /\ Makers \subseteq Threads /\ Main \notin Makers /\ Removers \subseteq Threads
    BY ThreadsAreDistinct, Zenon DEF Threads, Makers, Removers
  <1>2. /\ thread'[Main].at = "list"
        /\ \A t \in Threads \ {Main} : thread'[t].at = "idle"
    BY <1>1 DEF Looping, Idle
  <1>3. \A t \in Threads : InRole(t)'
    BY <1>1, <1>2, Zenon DEF InRole
  <1>4. DOMAIN page' = {}
    OBVIOUS
  <1>5. RolesInv'
    BY <1>1, <1>2, <1>3, <1>4, Zenon DEF RolesInv, Making
  <1>6. SpentInv'
    BY <1>1, <1>2, Zenon DEF SpentInv
  <1>7. StartsAlone'
    BY <1>1, <1>2, Zenon DEF StartsAlone
  <1>8. 1 .. Len(queue') = {}
    OBVIOUS
  <1>9. \A t \in Makers : thread'[t].at = "idle" /\ thread'[t].at \notin Making
    BY <1>1, <1>2, Zenon DEF Making
  <1>10. OneMaker'
    BY <1>1, <1>2, <1>8, <1>9, Zenon DEF OneMaker
  <1> QED
    BY <1>5, <1>6, <1>7, <1>10, Zenon DEF EraseInv

\* A crash leaves every commit that is running to the daemon.
LEMMA CrashErase ==
    ASSUME EraseInv, SnapshotInv', Crash
    PROVE  EraseInv'
  <1>1. ASSUME config'.runtime = "docker" PROVE CommitsKnown'
    <2>1. CommitsKnown /\ config.runtime = "docker"
      BY <1>1, Zenon DEF EraseInv, Crash
    <2> QED
      BY <2>1 DEF CommitsKnown, Crash, LeftRunning
  <1> QED
    BY <1>1, StartErase, Zenon DEF Crash

\* Every step.
LEMMA EraseNext == EraseInv /\ [Next]_vars => EraseInv'
  <1> SUFFICES ASSUME EraseInv, [Next]_vars PROVE EraseInv'
    BY Zenon
  <1>1. SnapshotInv'
    <2>1. SnapshotInv
      BY Zenon DEF EraseInv
    <2> QED
      BY <2>1, NextInv, Zenon
  <1>2. ASSUME NEW t \in Workers, WorkerStep(t) PROVE EraseInv'
    BY <1>1, <1>2, StartWorkerErase, RuntimeCreateErase, AwaitCommitErase, Zenon DEF WorkerStep
  <1>3. ASSUME NEW t \in Requests,
               AcceptCreate(t) \/ RequestStep(t) \/ \E s \in Snapshots : DeleteRead(t, s)
        PROVE  EraseInv'
    BY <1>1, <1>3, AcceptCreateErase, MarkErase, RereadErase, DeleteReadErase, Zenon DEF RequestStep
  <1>4. ASSUME NEW t \in Threads, SharedStep(t) PROVE EraseInv'
    BY <1>1, <1>4, SubmitErase, CompleteReadErase, CompleteUpdateErase, CleanupErase, PurgeErase, RowErase, Zenon
       DEF SharedStep
  <1>5. CASE RecoveryStep
    BY <1>1, <1>5, RecoverListErase, RecoverVisitErase, RecoverEndErase, Zenon DEF RecoveryStep
  <1>6. ASSUME NEW s \in Snapshots, CommitEnds(s) PROVE EraseInv'
    BY <1>1, <1>6, CommitEndsErase, Zenon
  <1>7. CASE Crash
    BY <1>1, <1>7, CrashErase, Zenon
  <1>8. CASE UNCHANGED vars
    <2>1. RolesInv' /\ SpentInv'
      BY <1>8, Zenon DEF EraseInv, RolesInv, InRole, Serving, SpentInv, Spent, vars
    <2>2. ASSUME config.runtime = "docker" PROVE StartsAlone' /\ CommitsKnown' /\ OneMaker'
      <3>1. StartsAlone /\ CommitsKnown /\ OneMaker
        BY <2>2, Zenon DEF EraseInv
      <3>2. thread' = thread /\ queue' = queue /\ db' = db /\ artifact' = artifact /\ outlived' = outlived
        BY <1>8, Zenon DEF vars
      <3>3. StartsAlone'
        BY <3>1, <3>2, Zenon DEF StartsAlone, Serving
      <3>4. CommitsKnown'
        BY <3>1, <3>2, Zenon DEF CommitsKnown
      <3>5. OneMaker'
        BY <3>1, <3>2, Zenon DEF OneMaker
      <3> QED
        BY <3>3, <3>4, <3>5, Zenon
    <2>3. config' = config
      BY <1>8, Zenon DEF vars
    <2> QED
      BY <1>1, <2>1, <2>2, <2>3, Zenon DEF EraseInv
  <1> QED
    BY <1>2, <1>3, <1>4, <1>5, <1>6, <1>7, <1>8, Zenon DEF Next

\* What threads, queue and runtimes know of the rows holds throughout.
THEOREM EraseInvariant == Spec => []EraseInv
  <1>1. Init => EraseInv
    <2> SUFFICES ASSUME Init PROVE EraseInv
      OBVIOUS
    <2>1. SnapshotInv
      BY InitInv, Zenon
    <2>2. /\ Main \in Threads /\ Workers \subseteq Threads /\ Requests \subseteq Threads
          /\ Main \notin Workers /\ Main \notin Requests
          /\ Makers \subseteq Threads /\ Main \notin Makers /\ Removers \subseteq Threads
      BY ThreadsAreDistinct, Zenon DEF Threads, Makers, Removers
    <2>3. /\ thread[Main].at = "list"
          /\ \A t \in Threads \ {Main} : thread[t].at = "idle"
      BY <2>2 DEF Init, Looping, Idle
    <2>4. \A t \in Threads : InRole(t)
      BY <2>2, <2>3, Zenon DEF InRole
    <2>5. DOMAIN page = {} /\ 1 .. Len(queue) = {} /\ queue = <<>>
      BY DEF Init
    <2>6. RolesInv
      BY <2>2, <2>3, <2>4, <2>5, Zenon DEF RolesInv, Making
    <2>7. SpentInv
      BY <2>2, <2>3, Zenon DEF SpentInv
    <2>8. StartsAlone
      BY <2>2, <2>3, <2>5, Zenon DEF StartsAlone
    <2>9. CommitsKnown
      BY DEF CommitsKnown, Init
    <2>10. \A t \in Makers : thread[t].at = "idle" /\ thread[t].at \notin Making
      BY <2>2, <2>3, Zenon DEF Making
    <2>11. OneMaker
      BY <2>2, <2>3, <2>5, <2>10, Zenon DEF OneMaker
    <2> QED
      BY <2>1, <2>6, <2>7, <2>8, <2>9, <2>11, Zenon DEF EraseInv
  <1>2. EraseInv /\ [Next]_vars => EraseInv'
    BY EraseNext, Zenon
  <1> QED
    BY <1>1, <1>2, PTL DEF Spec

\* Only the repository's delete removes a row.
LEMMA RemovedByErase ==
    ASSUME SnapshotInv, [Next]_vars, NEW s \in Snapshots, db[s] # NoRecord, db'[s] = NoRecord
    PROVE  \E t \in Threads : Erase(t) /\ thread[t].on = s
  <1>1. db \in [Snapshots -> SnapshotState \cup {NoRecord}]
    BY Zenon DEF SnapshotInv, TypeOK
  <1>2. db' # db
    OBVIOUS
  <1>3. ASSUME NEW t \in Requests, AcceptCreate(t) \/ Mark(t) PROVE FALSE
    BY <1>1, <1>3 DEF AcceptCreate, Mark, NoRecord
  <1>4. ASSUME NEW t \in Threads, CompleteUpdate(t) PROVE FALSE
    <2>1. thread[t].at = "update" => thread[t].got \in {"READY", "FAILED"}
      BY BeforeStep, Zenon DEF SaneIn
    <2> QED
      BY <1>1, <1>4, <2>1 DEF CompleteUpdate, NoRecord
  <1>5. ASSUME NEW t \in Threads, Erase(t) PROVE thread[t].on = s
    BY <1>1, <1>5 DEF Erase
  <1>6. ASSUME NEW t \in Threads, Submit(t) \/ CompleteRead(t) \/ Cleanup(t) \/ Purge(t) PROVE FALSE
    BY <1>2, <1>6, Zenon DEF Submit, CompleteRead, Cleanup, Purge
  <1>7. ASSUME NEW t \in Threads, SharedStep(t) PROVE Erase(t) /\ thread[t].on = s
    BY <1>4, <1>5, <1>6, <1>7, Zenon DEF SharedStep
  <1>8. ASSUME NEW t \in Workers, WorkerStep(t) PROVE FALSE
    BY <1>2, <1>8, Zenon DEF WorkerStep, StartWorker, RuntimeCreate, AwaitCommit
  <1>9. ASSUME NEW t \in Requests, Reread(t) \/ \E r \in Snapshots : DeleteRead(t, r) PROVE FALSE
    BY <1>2, <1>9, Zenon DEF Reread, DeleteRead
  <1>10. ~RecoveryStep /\ ~Crash /\ ~UNCHANGED vars /\ ~\E r \in Snapshots : CommitEnds(r)
    BY <1>2, Zenon DEF RecoveryStep, RecoverList, RecoverVisit, RecoverEnd, Crash, vars, CommitEnds
  <1> QED
    BY <1>3, <1>7, <1>8, <1>9, <1>10, Zenon DEF Next, RequestStep

\* A row is removed only once nothing is left of its artifact, save for a
\* commit nobody waits for (Docker) and a second worker (Kubernetes), whatever
\* requests, workers and restarts meet (delete_snapshot, _complete_snapshot,
\* recover_unfinished_snapshots).
THEOREM RemovedRowsLeaveNothing == Spec => EraseLeavesNothing
  <1>1. ASSUME EraseInv, [Next]_vars, NEW s \in Snapshots, db[s] # NoRecord, db'[s] = NoRecord
        PROVE  \/ artifact[s] = "absent"
               \/ IF config.runtime = "docker" THEN s \in outlived ELSE HasWorker(s)
    <2>1. SnapshotInv
      BY <1>1, Zenon DEF EraseInv
    <2>2. PICK t \in Threads : Erase(t) /\ thread[t].on = s
      BY <1>1, <2>1, RemovedByErase, Zenon
    <2>3. thread[t].at = "erase"
      BY <2>2, Zenon DEF Erase
    <2>4. CASE t \in Workers
      <3>1. config.runtime # "docker"
        BY <1>1, <2>3, <2>4, EraseFacts, Zenon DEF OneMaker, Making
      <3> QED
        BY <2>2, <2>4, <3>1, Zenon DEF HasWorker
    <2>5. CASE t \in Removers
      <3>1. db[s] = "DELETING"
        BY <1>1, <2>1, <2>2, <2>3, BeforeStep, Zenon DEF SaneIn, Ending
      <3>2. Spent(s)
        BY <1>1, <2>2, <2>3, <2>5, <3>1, Zenon DEF EraseInv, SpentInv
      <3> QED
        BY <3>2, Zenon DEF Spent, HasWorker
    <2> QED
      BY <2>4, <2>5, Zenon DEF Threads, Removers
  <1>2. EraseInv /\ [Next]_vars =>
          [\A s \in Snapshots :
             db[s] # NoRecord /\ db'[s] = NoRecord =>
                \/ artifact[s] = "absent"
                \/ IF config.runtime = "docker" THEN s \in outlived ELSE HasWorker(s)]_vars
    BY <1>1, Zenon
  <1> QED
    BY <1>2, EraseInvariant, PTL DEF Spec, EraseLeavesNothing
================================================================================
