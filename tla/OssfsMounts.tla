------------------------------ MODULE OssfsMounts ------------------------------
(***************************************************************************)
(* The reference count of one OSSFS path, shared by the sandboxes that     *)
(* bind it: creations take a reference before they start a container,      *)
(* failed creations, deletions and expirations release one, and the last   *)
(* release unmounts the path.  The count is guarded by a lock, the unmount *)
(* is not.  What DockerSandboxes says about the same operations is left    *)
(* out here, except that one container may be removed by several threads.  *)
(***************************************************************************)
EXTENDS Naturals, FiniteSets

CONSTANTS Sandboxes,   \* sandboxes created with a volume on the path
          Threads,     \* requests and timer callbacks
          MaxCrashes   \* crashes in a behaviour

VARIABLES
    used,      \* sandboxes whose creation was asked for
    bound,     \* sandboxes whose container exists and binds the path
    mounted,   \* os.path.ismount
    refs,      \* _ossfs_mount_ref_counts, 0 for an absent key
    thread,    \* thread -> [at, on]: next statement and sandbox
    restored,  \* the restoration has set the count
    crashes    \* how many crashes have happened

vars == <<used, bound, mounted, refs, thread, restored, crashes>>

NoSandbox == "none"
Idle == [at |-> "idle", on |-> NoSandbox]
Goto(t, place) == thread' = [thread EXCEPT ![t].at = place]
Return(t) == thread' = [thread EXCEPT ![t] = Idle]
Begin(t, place, s) ==
    /\ restored
    /\ thread[t] = Idle
    /\ thread' = [thread EXCEPT ![t] = [at |-> place, on |-> s]]

Init ==
    /\ used = {}
    /\ bound = {}
    /\ mounted = FALSE
    /\ refs = 0
    /\ thread = [t \in Threads |-> Idle]
    /\ restored = FALSE
    /\ crashes = 0

\* _ensure_ossfs_mounted, all of it under the lock.  A mount that fails ends
\* the request, and changes nothing.
EnsureMounted(t, s) ==
    /\ s \notin used
    /\ used' = used \cup {s}
    /\ Begin(t, "start", s)
    /\ refs' = refs + 1
    /\ mounted' = (refs = 0 \/ mounted)
    /\ UNCHANGED <<bound, restored, crashes>>

\* The rest of _provision_sandbox: the container runs, or the mounts are
\* released again
StartContainer(t) ==
    /\ thread[t].at = "start"
    /\ \/ bound' = bound \cup {thread[t].on} /\ Return(t)
       \/ UNCHANGED bound /\ Goto(t, "release")
    /\ UNCHANGED <<used, mounted, refs, restored, crashes>>

\* delete_sandbox or _expire_sandbox found the container, and its label
FetchContainer(t, s) ==
    /\ s \in bound
    /\ Begin(t, "remove", s)
    /\ UNCHANGED <<used, bound, mounted, refs, restored, crashes>>

\* The mounts are released even when the daemon refuses to remove the
\* container, or somebody else removed it first
RemoveContainer(t) ==
    /\ thread[t].at = "remove"
    /\ bound' \in {bound, bound \ {thread[t].on}}
    /\ Goto(t, "release")
    /\ UNCHANGED <<used, mounted, refs, restored, crashes>>

\* _release_ossfs_mount under the lock: an untracked key is skipped
ReleaseMount(t) ==
    /\ thread[t].at = "release"
    /\ refs' = IF refs = 0 THEN 0 ELSE refs - 1
    /\ IF refs = 1 THEN Goto(t, "unmount") ELSE Return(t)
    /\ UNCHANGED <<used, bound, mounted, restored, crashes>>

\* ... and after it; that fusermount and umount fail is logged
Unmount(t) ==
    /\ thread[t].at = "unmount"
    /\ mounted' \in {mounted, FALSE}
    /\ Return(t)
    /\ UNCHANGED <<used, bound, refs, restored, crashes>>

\* _restore_existing_sandboxes counts the containers that bind the path; when
\* the daemon cannot list them the count stays absent
Restore ==
    /\ ~restored
    /\ restored' = TRUE
    /\ refs' \in {0, Cardinality(bound)}
    /\ UNCHANGED <<used, bound, mounted, thread, crashes>>

\* The server dies; containers and mounts stay
Crash ==
    /\ crashes < MaxCrashes
    /\ crashes' = crashes + 1
    /\ thread' = [t \in Threads |-> Idle]
    /\ refs' = 0
    /\ restored' = FALSE
    /\ UNCHANGED <<used, bound, mounted>>

Step(t) == StartContainer(t) \/ RemoveContainer(t) \/ ReleaseMount(t) \/ Unmount(t)

Next ==
    \/ \E t \in Threads : Step(t) \/ \E s \in Sandboxes : EnsureMounted(t, s) \/ FetchContainer(t, s)
    \/ Restore
    \/ Crash

Spec == Init /\ [][Next]_vars

\* A container starts on a mounted path, so that what it writes reaches the
\* bucket: the mount taken by _ensure_ossfs_mounted lasts until the container
\* binds it, whatever other sandboxes release meanwhile (_provision_sandbox,
\* _release_ossfs_mount).
StartsOnMount == [][\A s \in Sandboxes : s \notin bound /\ s \in bound' => mounted]_vars
================================================================================
