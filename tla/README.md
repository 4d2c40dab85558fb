# OpenSandbox: TLA+ models, model checking and proofs

The repository's program is OpenSandbox (`src/opensandbox_unified_bench/`): a
platform that runs sandboxes on Docker or Kubernetes. Paths below are relative
to that directory. The rest of the repository is benchmarks and notes.

## The system

| part | where | state | hard behaviour |
|---|---|---|---|
| Pool controller | `kubernetes/internal/controller/pool_*.go`, `allocator.go` | in-memory store, annotations and finalizers, scale expectations | restarts, lagging informers, failed or lost patches |
| BatchSandbox controller | `batchsandbox_*.go` | phase, pause generation, release requests, task finalizer | pause and resume against user requests and restarts |
| Snapshot controller | `sandboxsnapshot_*.go` | snapshot phase, commit jobs | job failures, deletion during a commit |
| Task scheduler and executor | `kubernetes/internal/scheduler`, `task-executor` | task table in memory, on disk, and the scheduler's view | lost HTTP calls, restarts |
| Client-side pool | `sdks/sandbox/python/src/opensandbox/pool_async.py`, `_async_pool_reconciler.py`, `pool_manager.py` | lifecycle state, tick, background tasks | await points, shutdown, several processes |
| Redis pool store | `redis_pool_store.py`, `async_redis_pool_store.py` | idle entries, primary lock, destroy fence | lock expiry, outages |
| Lifecycle server | `server/opensandbox_server` | Docker expiry timers, snapshot records, renew intents | timers against renewals, recovery at start-up |
| Ingress, egress, execd, node agent, supervisor | `components/` | routing, rules, sessions, log checkpoints, restart budget | mostly I/O; sessions and checkpoints have protocols |
| Other SDKs, CLI, MCP | `sdks/`, `cli/` | little of their own | the Go, Kotlin and synchronous Python pools mirror the asyncio one |

The server creates Pools and BatchSandboxes. The pool controller keeps warm
pods and gives them to BatchSandboxes; the BatchSandbox controller asks for pods
back, and detaches a paused sandbox from its pool. Independently, SDK processes
keep a pool of ready sandboxes on the client side and share it through Redis.

On Docker the server itself is the controller: it starts, renews, expires and
deletes containers, each in a thread of its own, and rebuilds its timers when it
starts. It also keeps the table of snapshots, for both runtimes.

Modelled are the parts that decide who owns a sandbox, a snapshot or a mount with
no lock that covers all their writes: the two pools, the snapshot service and the
Docker runtime.

## Modules

| module | content |
|---|---|
| `PoolAllocation` | one pool, its pods and its sandboxes |
| `MCPoolAllocation` | its instances for TLC |
| `PoolAllocationInv` | the condition `Tame` and the inductive invariants |
| `PoolAllocationProofs` | type correctness, the bound `poolMax`, and releases in a hostile environment |
| `PoolSafetyProofs`, `PoolTheorems` | `AllocationInv` is inductive: users, eviction, scheduling and the allocation patch; recycling, release, scaling. The last has the safety theorems |
| `ClientPool`, `MCClientPool` | the client-side pool and its instances |
| `ClientTypeProofs` | its types, and the fence of `destroy()` |
| `ClientHoldProofs` | who holds a sandbox |
| `ClientCapProofs` | how far the idle list may exceed `max_idle` |
| `SnapshotLifecycle` | abstract: what the API promises about one snapshot record |
| `SnapshotService`, `MCSnapshotService` | the service, its workers, its recovery and both snapshot runtimes |
| `SnapshotProofs` | its types and safety, that it implements `SnapshotLifecycle`, and what is left when a row is removed |
| `DockerSandboxes`, `MCDockerSandboxes` | sandboxes of the Docker runtime: timers, renewals, sidecars, restoration |
| `DockerProofs` | their types, timers and sidecars, and that an expiration comes when it is due |
| `OssfsMounts` | the reference count of a mounted path that several sandboxes share |

### PoolAllocation

A reconcile pass is a sequence of actions, and `pc` says where it is: `Begin`
(list, `handleEviction`), `Schedule` (recovery on first use, scheduling),
`SyncSandboxAllocation` per sandbox, `DoRecycle`, `SyncSandboxReleased` per
sandbox, `ReleaseDone`, and `Scale` (rolling update, `scalePool`, status) or
`ScaleNotReady`. `Retry` repeats a pass after a status conflict. Between two
actions anybody else may act: users, the BatchSandbox controller, the kubelet,
the informers, a crash. Passes of one pool are serial, as the work queue makes
them.

`sandbox` and `pod` are the API server's objects, `seen` and `cache` the
informers' views, `store`, `recovered` and `expected` the memory that a restart
loses, and the remaining variables are locals of the pass. `Env` selects what
the environment does; `MaxFaults` bounds failed calls, conflicts and crashes.

Abstractions:

- `alloc-status` is a set and a length, since the code looks at nothing else;
- the update of the store and the patch it belongs to are one step, because
  nothing else reads the store while a pass runs;
- the concurrent patches of `syncSandboxConcurrently` run in any order;
- time is not counted: expectations time out (`ExpectationsExpire`) for pods that
  came and went unlisted, and with `slow` in `Env` for any pod, which is an
  informer that lags longer than the timeout.

The `Restart` recycler is defined in `RecycleResults`, but no run uses it. Also
left out are `backfillLegacyPoolAllocation` and the deletion of the Pool.

### ClientPool

Several processes (`Clients`) run a reconcile tick and serve `acquire()` calls
(`Callers`); a manager may destroy the namespace. A step is what runs between
two awaits, and each Lua script is one step. `tick[c].pc` and `call[a].pc` are
the places in the coroutines, `stopping[c]` is a shutdown, `drainer` a
`destroy()` or `release_all_idle()`. `lost` is a history variable: the ids that
are given up without a successful kill. Its causes are a failed kill, a cancelled
tick or task, a kill after the lifecycle client was closed, a tick or a call that
an exception ended, an answer that was lost, and the death of a process.

Calls fail in two ways. Either nothing was done, or it was done and the answer is
lost: a take or a reap has then popped entries of which the caller never learns
(`Unheard`), a creation has left a sandbox whose id nobody knows (`CreatedUnheard`),
and a put has stored its entry (`reply` in `Env`).

Abstractions:

- the idle list has no order, so a take may return any entry it could accept;
- reads that commute with everything until the next await share its step;
- the lifetime of an entry is fresh, near its end, or over;
- a back-off is an event that ends one tick, not a count of failures;
- the cancellation of a tick is one step, and so is a creation on the server;
- releasing the lock, which is best effort, succeeds; expiry covers the rest;
- one drain at a time; the tombstone does not expire.

### SnapshotService

`db` is the SQLite table and `artifact` what the runtime holds: the image of a
Docker commit or the SandboxSnapshot object. `thread[t]` is the place of a worker,
a request or the starting thread (`Main`), with the snapshot it works on and what
its last statement returned. Each read, each `update_if_state`, each `delete` and
each call of the runtime is a step; `_complete_snapshot` is shared by workers and
recovery, the deletion of artifact and row by requests and recovery, as in the
code. `Main` runs `recover_unfinished_snapshots` page by page before anything is
served; `config` picks the runtime and the page size in the initial state. A
crash loses threads and queue and keeps table, artifacts and running commits.

Abstractions:

- a record is its state, since the image reference is a function of the id and is
  set exactly when the state becomes READY;
- a poll of `_wait_for_terminal_snapshot` that finds nothing is no step, and its
  deadline may pass at any time;
- deletion of the Kubernetes object means that it was accepted: the SandboxSnapshot
  has a finalizer (`sandboxsnapshot_controller.go:128`) and stays, terminating, until
  its controller has cleaned up, which `delete_snapshot`
  (`services/k8s/snapshot_runtime.py:143`) does not wait for;
- the database does not fail; names, tenants and messages are left out, and
  so are `get_snapshot` and `list_snapshots`, which change nothing.

`SnapshotLifecycle` has the same `created` and `db` and nothing else: a record is
accepted, its creation ends once, it is marked for deletion, it is removed.

### DockerSandboxes

`containers`, `label` and `sidecar` are the daemon's, `file` the metadata store's,
`tracked` and `timer` the server's memory. Requests create and delete, renewals
come from the API (`RenewFetch`) or from an access (`AccessRead`,
`AccessCandidate`), callbacks are timer threads (`Fire` and the `Expire` actions),
and `Main` restores timers and sidecars at start-up with the same callback code.
A step is a statement that takes the lock, calls the daemon or writes a file.

A call to the daemon is answered, is refused, or times out. A refusal is a
`DockerException`, which the handlers catch. The time-out of the client library is
not: it leaves the handler at that call, so a callback may end with its work half
done and no timer, and a renewal may be answered with an error after memory and
file have the new time. Expiration files may fail to be written, read or deleted.

Five history variables serve the properties.

- `promised`: the earliest time at which the server may end a sandbox, from the
  answers it gave. Only a client that asks for less lowers it.
- `unsaved`: sandboxes whose last renewal was answered although `set_expiration`
  had failed.
- `forfeited`: sandboxes that are promised nothing any more, since their end was
  decided, or for a cause that the table of exceptions below names.
- `dropped`: sandboxes the server gave up until its next start, see that table.
- `blind`: the last start could not list the containers.

Abstractions:

- times are a few numbers; thirty seconds of retry delay are one tick;
- whether a container runs, is paused or has exited is left open;
- kill and forced removal are one step, and so are the three places of
  `_get_tracked_expiration`;
- a time-out during the restoration ends the process, and is a `Crash`;
- images, ports, named volumes, the Windows profile and user metadata are left out.

### OssfsMounts

One OSSFS path, `refs` its entry in `_ossfs_mount_ref_counts`, `mounted` the
host's state. Counting is one step, as it is under the lock; the unmount is the
next, as it is not. A module of its own, because it shares nothing with the timers
except that one container may be removed by two threads.

## Runs

Run one with `tlc -config PoolCrash.cfg MCPoolAllocation`, and likewise with
`MCClientPool`, `MCSnapshotService`, `MCDockerSandboxes` and `OssfsMounts`.

| run | what it asks | properties |
|---|---|---|
| `pool_crash` | crashes and failed patches anywhere in a pass | `NeverReused`, `StoreCoversAnnotations`, `StoreIsBacked`, `FinalizerGuardsRelease` |
| `pool_scale` | a resized sandbox, a lagging pod list, pods deleted by others | `TypeOK`, `PoolMaxRespected`, `AllocationsAccumulate`, `DeletesOnlyFreePods` |
| `pool_evict` | eviction, rolling update, detachment, the task finalizer | `OneSandboxPerPod`, `DeletesOnlyFreePods` |
| `pool_hostile` | lost replies and a stale sandbox list | `ReleasedMeansDeleted` |
| `pool_progress` | liveness with one crash or failed call | `TerminatingSandboxGoes`, `SandboxIsServed` |
| `pool_release` | liveness of release and of orphan collection, with a pod list that may lag beyond the expectation timeout | `ReleaseCompletes`, `OrphansAreDeleted` |
| `client_pool` | acquire, tick, shutdown, destroy, crash, expiry and outages together | `TypeOK`, `HeldOnce`, `NothingForgotten`, `DestroyedIsEmpty` |
| `client_primary` | the primary lock across expiry, crash, outage and resize | `OvershootBounded`, `ConvergesToMaxIdle` |
| `snapshot_service` | workers, deletions, two crashes and recoveries on both runtimes | `TypeOK`, `ReadyIsBacked`, `FollowsLifecycle` (refinement), `EraseLeavesNothing`, `StartupEnds`, `CreatingEnds` |
| `docker_sandboxes` | creation, renewal, expiry, deletion, calls that fail or time out, files that cannot be written or read, a crash | `TypeOK`, `LiveIsTimed`, `SidecarHasSandbox`, `EndsOnlyWhenDue`, `ExpiredEnds` |

Two runs end in a violation. Each shows a disagreement between the code and
what a comment, a test or a document says; `PROJECT.json` quotes the lines.

- `stuck_finalizer`: a sandbox whose pods were all released before its deletion
  was seen keeps the pool finalizer for ever.
- `ossfs_unmount`: the last release of a path unmounts it after leaving the lock.
  A creation that took a reference in between starts its container on the bare
  directory.

### Where the passing properties stop holding

The passing runs leave out some environments. TLC finds a counterexample to the
property alone when the configuration is changed as named:

| property | configuration | `Env` and other changes | what happens |
|---|---|---|---|
| `AllocationsAccumulate` | `PoolScale.cfg` | `resize podlag stale` | a list older than the last patch drops that patch's pods from `alloc-status` |
| `PoolMaxRespected` | `PoolScale.cfg` | `podlag lost` | a pod created by a call without reply is not expected, and is created again |
| `PoolMaxRespected` | `PoolScale.cfg` | `resize podlag slow` | the expectations time out before the pod list shows the pods, which are created again |
| `OrphansAreDeleted` | `PoolRelease.cfg` | `detach crash` | `Recover` skips the detached sandbox, whose pod is never collected |
| `NeverReused` | `PoolCrash.cfg` | `detach crash` | the same pod is given to a second sandbox |
| `StoreCoversAnnotations` | `PoolCrash.cfg` | `lost` | a patch that is applied while its call fails is rolled back in memory only, and the held pod looks idle; `allocator.go:640` says the rollback is "to maintain consistency" |
| `DeletesOnlyFreePods` | `PoolEvict.cfg` | `crash evict`, `MaxFaults = 1` | the first pass after a restart evicts before the store is recovered, and deletes a pod in use; `docs/kubernetes/index.md:42` says allocated pods are skipped |
| `OneSandboxPerPod` | `PoolEvict.cfg` | `release`, `Recycle = "Noop"`, `MaxReplicas = 2`, `TwoPods`, `ThreeSandboxes` | the cumulative released list of one sandbox frees a pod that another one holds; `kubernetes/test/e2e/e2e_test.go:4319` expects "not double-allocated" |
| `HeldOnce` | `ClientPool.cfg` | `reply kill outage` | a put is stored but its reply is lost; the tick will kill the sandbox, which a caller may have borrowed |

Moreover, the allocation patch replaces the finalizer list with the one it read
plus its own (`allocator.go:296`). A task finalizer added between the list and
the patch is lost: in the model, `Schedule`, `AddTaskFinalizer`,
`SyncSandboxAllocation`. No property claims otherwise.

The properties of the server, and `NothingForgotten`, name their exceptions
instead, and do not say anything about what these cover. Each can happen in the
model, and TLC finds it when the exception is taken out (for two renewals of one
sandbox, with `Renewals = {n1, n2}` in `DockerSandboxes.cfg`):

| property | exception | what happens |
|---|---|---|
| `LiveIsTimed`, `ExpiredEnds` | `dropped` | the daemon refuses a removal and the tracking is dropped all the same (`docker_service.py:431`, `:1098`); the daemon creates a container and its answer is lost; a lookup, kill or removal of a callback times out, and leaves no timer; a callback re-arms an older time over a later renewal's timer (`:397`), and that timer's callback, finding the daemon silent and the sandbox renewed, sets none (`:373`) |
| `LiveIsTimed`, `SidecarHasSandbox`, `ExpiredEnds` | `blind` | the containers could not be listed at start-up |
| `SidecarHasSandbox` | `dropped` | the daemon refuses to remove the sidecar, which is only logged; or it times out in a callback that has removed the container and not yet the sidecar |
| `EndsOnlyWhenDue` | `forfeited` | two renewals, or a renewal and the creation, overlap and leave different times in memory and file; a renewal on access asks for less than was promised since it read the sandbox; a renewal is answered although its file could not be written, and the server restarts; a restart cannot read the file, and falls back on the label |
| `NothingForgotten` | `lost` | the causes named under `ClientPool` |
| `EraseLeavesNothing` | `outlived` | a Docker commit goes on after its call timed out; its image outlives the row |
| `EraseLeavesNothing` | `HasWorker` | recovery submitted two workers; the late one creates the SandboxSnapshot again, or removes the row of a deletion in progress |
| `CreatingEnds` | `beyond` | records beyond the first page wait behind newer ones whose deletion keeps failing |

The client design document (`oseps/0005-client-side-sandbox-pool.md:428`) says a
put by a non-leader is rejected. The script checks the fence, not the lock, so
the bound that holds is `OvershootBounded`: one extra sandbox per other client.

### Bounds

Two or three pods and one to three sandboxes are enough for a pod to be held,
released and wanted by another. One fault can fall on every step; `stuck_finalizer` needs none. `client_pool` has two clients, so that one can lose the
lock to the other, one caller, three ids and two events, so that a fault can
meet another. `client_primary` has six ids: with three, `max_idle` could never
be exceeded by more than the ids allow, and the bound would be empty. Its
callers are left out, since a borrower can always empty the list.
`snapshot_service` has two snapshots, so that with pages of one record one is
behind the other, two workers and two requests, so that each can race its like,
and two crashes, so that a recovery can be cut short. `docker_sandboxes` has one
sandbox, since sandboxes share no timer and no sidecar, with one creating or
deleting request, one renewal and one callback at a time, and the starting thread
as a second place for an expiration; three time units let a renewal fall before
and after an expiration and be renewed again. Two renewals at once are left to the
proof. `ossfs_unmount` needs two sandboxes
on one path.

Symmetry is used in safety runs only. The runs of the client and of the server do
not check deadlock: when all clients have stopped, or no request comes, nothing
need happen.

### Fairness

`PoolAllocation`: weak fairness of the pass (a change enqueues the pool and an
error requeues it), of the kubelet, of the informers, and of the BatchSandbox
controller's cleanup; strong fairness of the expectation timeout, which passes
that fail on the way only delay. `ClientPool`: weak fairness of each client's
tick, which the scheduler repeats while it runs, and of the expiry of a lock
whose owner is gone, which Redis does by itself. `SnapshotService`: weak fairness of every
thread that has work and of the recovery; not of requests, and not of the daemon,
since a worker's wait ends by its timeout. `DockerSandboxes`: weak fairness of the
clock, of due timers, of running threads and of the restoration, and strong
fairness of an answer to the callback's lookup, which it repeats every thirty
seconds when it is answered with an error: a daemon that never answers again can
end nothing. A lookup that times out is not repeated, so nothing is assumed of it,
and its sandbox is `dropped`. Users, faults and
crashes are never fair.

## Proofs

`tlapm PoolTheorems.tla` and the other proof modules hold for every set of pods
and sandboxes, every capacity and every number of faults. They assume
`ConstantsAssumption`: finite sets, and naturals in the ranges of the API.

- `TypeCorrect`: `TypeOK`, without further assumptions.
- `PoolMaxHolds`: `PoolMaxRespected`, if no reply of a create call is lost and the
  pod list does not lag longer than the expectation timeout (no `lost` and no `slow`
  in `Env`). `ScaleInv` says that every live pod is expected or listed. Hence the
  count that `scalePool` starts from is never too small.
- `ReleasesSurviveFaults`: `ReleasedMeansDeleted` under the `Delete` policy, if
  nobody evicts pods. Replies may be lost, lists stale, sandboxes detached, and
  the process may restart: `pool_hostile` is an instance.
- In `PoolTheorems`, under `Tame`: `NeverReused`, `OneSandboxPerPod`,
  `StoreIsBacked`, `StoreCoversAnnotations`, `FinalizerGuardsRelease`,
  `ReleasedMeansDeleted`, `DeletesOnlyFreePods`, `AllocationsAccumulate`.

`Tame` asks for the `Delete` policy, no lost replies, no stale sandbox list, and
no restart together with eviction or detachment. The table above shows what
happens otherwise.

`NeverReused` is not inductive: a pass hands out what the store calls free, so
the store must have every pod that could still be handed out (`Covered`). It may
forget a pod only when that pod is retired: the list shows it being deleted and
the running pass does not have it. The listed objects must agree with the API
server on what only this controller writes (`ListSane`), and the plan of the
pass must stay valid until it is carried out (`PlanSane`). `AllocationInv` is
the conjunction. TLC found no violation of it on the instances of `pool_crash`,
`pool_evict` and `pool_scale`, nor of `ScaleInv` on that of `pool_scale`.

`ReleasesSurviveFaults` cannot use `AllocationInv`, which a lost reply or a stale
list breaks. `ReleaseInv` is about absence only. `doRecycle` counts a pod as
recycled when the pass did not list it, and that is sound if a pod missing from the
list was listed before and is now being deleted. So every pod that an annotation,
a cached object, the store or the plan names must be such a pod or a listed one
(`Listable`). That includes what a lost patch left behind. Eviction has to be
excluded: an evicted pod leaves the schedulable pods before its deletion has
succeeded, and with a lost reply, a stale list or a restart it can still be
allocated, so that TLC finds it released alive. Under `Tame` the other theorem
covers eviction. TLC found no violation of `ReleaseInv` on the instance of
`pool_hostile`.

`SnapshotProofs` holds for any number of snapshots, workers, requests and crashes,
any page size and both runtimes, from `ThreadsAreDistinct` and `BoundsAreNat`:
`SnapshotTypes` (`TypeOK`), `ReadySnapshotsAreBacked` (`ReadyIsBacked`),
`TableFollowsLifecycle`, the refinement, and `RemovedRowsLeaveNothing`
(`EraseLeavesNothing`). A thread acts on what it read steps ago,
so none of these is inductive. `SnapshotInv` adds what each thread may
still rely on (`SaneIn`): a thread about to remove a row finds it DELETING or gone,
and so does a page that lists it as DELETING; a result READY has its artifact as
long as the row is CREATING. A step keeps this for all other threads if it never
brings a row back from its end and takes no artifact from a CREATING row
(`KeptSane`), which is shown action by action. The refinement then needs one case
per action: most leave the table alone, and the others meet the guard of one
action of `SnapshotLifecycle`.

`RemovedRowsLeaveNothing` needs to know more, `EraseInv`, and the two runtimes need
different things. A request or the recovery that is about to remove a DELETING row
has had the artifact removed (`Spent`). What can bring it back is a commit. With
Docker a commit has no image while it runs, so the deletion passes it by: a commit
that is running must have a worker that waits for it, or be in `outlived`
(`CommitsKnown`); and a row is CREATING as long as somebody makes its snapshot, so
that nobody can mark it. The last holds because a snapshot is at one place only, in
the queue, with the request that recorded it or with one worker (`OneMaker`), and
this because a Docker recovery submits nothing and runs alone (`StartsAlone`). With
Kubernetes recovery may submit a snapshot twice, `OneMaker` is false, and the worker
that is still on the snapshot is the exception. It does not leave before the row
does: a worker that waits for a commit finds the row DELETING and goes on to remove
it (`Finishing`). For both, requests delete nothing while the server starts
(`RolesInv`). TLC found no violation of
`EraseInv` with two snapshots, workers, requests and crashes.

`DockerProofs` holds for any number of sandboxes, requests, renewals, callbacks and
crashes and any clock, from `BoundsAreNat` and `RolesAreDistinct`: `DockerTypes`
(`TypeOK`), `LiveSandboxesAreTimed` (`LiveIsTimed`), `SidecarsHaveSandboxes`
(`SidecarHasSandbox`) and `SandboxesEndWhenDue` (`EndsOnlyWhenDue`). The run has one
sandbox; that sandboxes do not disturb one another is part of the proof. Every step
but start-up and crash is one thread's and changes one sandbox (`Local`, `Same`), so
the invariant is said of one sandbox, and a step has to restore it for that one.

- `LifeOf`: a timer is missing only while a thread will arm one or end the sandbox
  (`Watchers`), while the restoration still has it, or in the named exceptions; a
  sidecar is alone only while a thread will remove it (`Cleaners`); a thread past
  the removal finds no container. That a busy thread is one that will act is what
  `Busy` in the properties leaves out, and what induction needs.
- `DueOf`: memory is not earlier than the promise, and neither are the file and
  behind it the label, unless the last renewal is `unsaved` (`KnownDue`). A callback
  may find the file unreadable; it is harmless because memory has the time, or all
  that was promised has passed, whenever an expiration is under way (`Due`). A thread
  between two of the three writes carries the time that makes up for it (`DueAt`).
  One thread at a time sets the expiration, unless the sandbox is `forfeited`.

The theorems hold outside the exceptions of the table above and say nothing about
the sandboxes in `dropped` and `forfeited`.

TLC found no violation of this invariant on the instance of `docker_sandboxes`.

The client-side pool is proved for any number of clients, callers, sandboxes and
events, from `ClientPoolAssumption` and, for the last theorem, from
`ClientsAssumption` (finitely many clients, and at least one).

- `PoolTypesHold` (`TypeOK`) and `DestroyLeavesNothing` (`DestroyedIsEmpty`), for
  every set of faults. `TypeInv` adds to the types what each coroutine holds at
  each of its awaits. `DestroyedIsEmpty` is then inductive: an entry enters the
  store only while the fence is down, and a drain that clears has raised it.
- `SandboxesAreHeldOnce` (`HeldOnce`), if no reply of a put is lost, and
  `NoSandboxIsForgotten` (`NothingForgotten`), for every set of faults. `PoolInv`
  says that a sandbox in one place is in no other, that a live one is somewhere or
  in `lost`, that an id not yet given out is nowhere, and that the sandbox of an
  expired entry is over: without the last, an expired entry that a script drops
  silently could be a live sandbox that nobody knows. The proof gives every
  sandbox one of four fates in every action: it stays, moves, is dropped, appears.
  What `NoSandboxIsForgotten` shows is that a sandbox gets into `lost` in no other
  way than the named ones; how long it then lives is up to its timeout.
- `OvershootIsBounded` (`OvershootBounded`), for every set of faults. The bound
  alone is not inductive, since the owner of the lock has planned several puts and
  a former owner may have one under way. `CapInv` counts both: the entries and the
  puts under way stay within the bound, and so do the entries, all that the owner
  may still put and the puts of the others.

Every invariant, action property and refinement that a passing run checks is
proved. Only model-checked is liveness, which is out of the prover's reach:
`TerminatingSandboxGoes`, `SandboxIsServed`, `ReleaseCompletes`,
`OrphansAreDeleted`, `ConvergesToMaxIdle`, `StartupEnds`, `CreatingEnds` and
`ExpiredEnds`. `OssfsMounts` has one property, and it is violated.

Most leaves name Zenon: the translation to SMT slows down in the course of a long
module, so it is left to the leaves with arithmetic, records or sequences.

## Not modelled

- Pause, resume and the snapshot controller of Kubernetes, the task scheduler and
  its executors: protocols of their own, the next to be modelled.
- The queue of renew intents: throttling in the ingress, the bounded Redis list and
  the consumer's table of locks. Only the renewal it ends in is modelled.
- The Kubernetes service of the server: it translates calls into custom resources
  and waits for what the controllers do.
- Of the Docker runtime: pause and resume, user metadata, ports, named volumes.
- The pools of the other SDKs, which follow the same protocol on threads.
- The supervisor, the node agent's checkpoint and execd's sessions.
- Request translation in SDKs, CLI and MCP, container construction, kernel rules of
  the egress sidecar, benchmarks: I/O, or generated, with no protocol of their own.
  They are most of the repository's lines.

`PROJECT.json` lists all parts, and the hazards of the modelled ones. In the others
a model would look at:

- a host port that is found free and given back before Docker publishes it
  (`port_allocator.py:68`);
- a metadata patch that reads and writes its file without a lock
  (`services/docker/metadata.py:92`), and brings back a key that an earlier patch
  removed, since it starts from the container's labels (`:88`);
- a timer of the restoration's first pass that fires before the mount counts are
  assigned (`docker_service.py:505`);
- an exception of the database in a snapshot worker, which is only logged
  (`snapshot_service.py:335`), and a restore that finds a snapshot READY and starts
  after its deletion (`snapshot_restore.py:31`);
- renew intents that are throttled after one that was never published
  (`renewintent/redis.go:96`), and a lock evicted from the consumer's table while a
  task is about to take it (`consumer.py:210`);
- a tick that takes the primary lock again after shutdown has released it
  (`pool_async.py:1004`): it is in `client_pool`, but not in the convergence run;
- a failed GET that the task scheduler takes for an executor without a task
  (`status_collector.go:61`), a task directory without its file after a crash
  (`file_store.go:84`), a soft deletion that memory has and the disk has not
  (`task_manager.go:258`);
- a resume between the two patches that end a pause
  (`batchsandbox_pause_resume.go:502`), and a crash between them (`:463`).

## Plan

1. `PauseResume`: pause, resume and the snapshot controller, composed with
   `PoolAllocation` through `Detach`.
2. `TaskScheduler`: scheduler and executors over lossy calls, with the executor's
   file store and restarts.
3. An abstract pool (who holds which pod) that `PoolAllocation` implements under
   `Tame`, and the same for `ClientPool`, whose `Fate` is a first step.
4. `RenewIntent`, composed with `DockerSandboxes`.
5. `Supervisor`, the node agent's checkpoint, execd's sessions.
