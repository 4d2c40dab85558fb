--------------------------- MODULE SnapshotLifecycle ---------------------------
(***************************************************************************)
(* What the snapshot API promises about one record, whatever workers,      *)
(* requests and restarts do to it: it is accepted as CREATING, its         *)
(* creation ends once, it is removed only after its deletion was recorded  *)
(* as DELETING, and an identifier is never used again.                     *)
(***************************************************************************)
EXTENDS Naturals

CONSTANT MaxSnapshots

\* SnapshotState, with NoRecord for a row that is absent
NoRecord == "NoRecord"
SnapshotState == {"CREATING", "READY", "FAILED", "DELETING"}
Snapshots == 1 .. MaxSnapshots

VARIABLES created,   \* how many snapshots have been accepted; ids in order
          db         \* id -> state of the row, or NoRecord

lifecycleVars == <<created, db>>

LifecycleInit ==
    /\ created = 0
    /\ db = [s \in Snapshots |-> NoRecord]

Accept ==
    /\ created < MaxSnapshots
    /\ created' = created + 1
    /\ db' = [db EXCEPT ![created + 1] = "CREATING"]

Finish(s) ==
    /\ db[s] = "CREATING"
    /\ \E end \in {"READY", "FAILED"} : db' = [db EXCEPT ![s] = end]
    /\ UNCHANGED created

MarkDeleting(s) ==
    /\ db[s] \in {"READY", "FAILED"}
    /\ db' = [db EXCEPT ![s] = "DELETING"]
    /\ UNCHANGED created

Remove(s) ==
    /\ db[s] = "DELETING"
    /\ db' = [db EXCEPT ![s] = NoRecord]
    /\ UNCHANGED created

LifecycleNext ==
    \/ Accept
    \/ \E s \in Snapshots : Finish(s) \/ MarkDeleting(s) \/ Remove(s)

LifecycleSpec == LifecycleInit /\ [][LifecycleNext]_lifecycleVars
================================================================================
