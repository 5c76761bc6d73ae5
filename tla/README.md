# Verification of the TKE extended network controller

The controller gives pods and nodes public addresses: a `CLBPortPool` is a range of ports on a
set of cloud load balancers (CLBs), a `CLBPodBinding` / `CLBNodeBinding` asks for some ports of
some pools, and the controller picks the ports, creates the listeners and binds the backends.
This directory holds TLA+ models of that program, the TLC runs that check them, and TLAPS proofs.

`PROJECT.json` lists the runs, the mutants (plausible bugs, one per property, that TLC finds),
the source lines each definition stands for, the findings and the hazards.

## 1. Inventory

| Component | State | Operations | Model |
|---|---|---|---|
| Port allocator, `internal/portpool` | per process: `PortAllocator.pools`; per pool `cache[lb]` (set of keys), `lbList`, `maxPort`, `LbBlacklist`, scale-up flags | `EnsurePool`, `RemovePool`, `EnsureLbIds`, `RemoveLB`, `Allocate`, `Release(Binding)`, `IsLbExists`, `MarkAllocated`, `RequestScaleUp` and its three companions | `Ports`, `PortPool`, `ScaleUp` (flags) |
| CLBBinding reconciler, `internal/controller/clbbinding.go` | `status.portBindings`, `status.state`, annotation `finalized` | `sync`, `ensurePortAllocated`, `ensureBackendBindings`, `ensureListener`, `ensurePortBound`, `cleanup` | `PortPool` (ports), `ScaleUp` (requests for growth), `BindingLife` (listeners, targets, cleanup) |
| CLBPortPool reconciler, `clbportpool_controller.go` | `status.state`, `.quota`, `.loadbalancerStatuses` | `sync`, `ensureLbStatus`, `createCLB`, `ensureListenerPrecreate`, `cleanup` | `PortPool` (effect on the allocator), `ScaleUp` (load balancers it creates) |
| Reconcile frame, `util.go` | finalizers, work queues | `Reconcile`, `ReconcileWithFinalizer` | `BindingLife`; one worker per object also in `PortPool` and `ScaleUp` |
| Start-up, `cmd/app/setup_manager.go` | - | `initCache.Start` -> `MarkAllocated` | `ScaleUp`, `BindingLife` (one atomic step) |
| Batching of cloud calls, `pkg/clb/batch*.go` | task channels, per (lb, region) batches | `startBatchProccessor`, listener / target create, delete, describe | `BatchCalls` |
| Listener cache, locks, `pkg/clb/cache.go`, `lock.go` | per load balancer map of listeners, mutexes | `Get`, `Set`, `EnsureRemoved`; lock per load balancer | `BindingLife` (cache), `BatchCalls` (locks) |
| Cloud calls, `pkg/clb/listener.go`, `target.go`, `api.go`, `wait.go` | none of their own | `CreateListenerTryBatch`, `DeleteListenerByIdOrPort`, `RegisterTargets`, `ApiCall`, `Wait` ... | `BatchCalls` |
| Event channels, `pkg/eventsource` | unbuffered channels | wake the pool, pod and node reconcilers | `ScaleUp` (pool), `BindingLife` (pod) |
| Pod / Node / GameServerSet controllers | objects derived from annotations | create, update, delete bindings; copy results to annotations | `BindingLife` (pod) / not modelled |
| Webhook, API types, cloud credentials, flags, wiring | none, or pure functions | - | not modelled |

**How the parts interact.** All reconcilers run in one process and share the global
`portpool.Allocator`. Controller-runtime gives each object one worker at a time, so two
reconciles of one binding never overlap, while those of different bindings and of a pool do. A
lock protects one call on one pool, not a request that spans pools, and not a whole
reconcile. Results are persisted in the status of the objects; the allocator is memory only and
is rebuilt from the statuses at start-up. The binding reconciler wakes the pool reconciler
through `eventsource.PortPool`, the pool's status wakes the bindings that wait for ports.

**What is hard.** Requests that span pools and are undone half way; releases one port at a time
while others allocate; errors between taking a port and writing it to the status; pools and load
balancers that come and go while workers use them; 16-bit arithmetic in the walk over a range;
restarts; stale informer caches; one API call that stands for many requests.

**What makes each part correct.**
- Allocator: no port is with two bindings; what a binding has is recorded; nothing stays recorded
  that nobody has; quota, range and segments are respected; requests across pools are all or
  nothing.
- Binding reconciler: a status is extended by whole entries; a reconcile ends unless a walk over the
  ports does not; a deleted binding gives its ports back once.
- Pool reconciler: it grows on demand, not beyond `maxLoadBalancers`, and forgets no load
  balancer it created.
- Start-up: no port in use is handed out.
- Binding life: a port is recorded until its binding has given it up, and is then free; no listener
  stays behind; a
  binding that is Bound has its listener; a binding never deletes the listener of another; pods
  that stay end up served, what belongs to pods that are gone goes.
- Batching: each call gets one answer, and a true one; writes to a load balancer do not overlap;
  every call returns.

## 2. Modules

**`Ports`** - pure operators: protocols and keys (`Key`: TCP_SSL listens on TCP, QUIC on UDP),
uint16 arithmetic (`Wrap`, `MaxUint16` is a constant), the walk over a range (`WalkPort`, `Walk`,
`Endless`), segments, quota, pre-created listeners. No recursion: a walk of step `s` visits
`Wrap(start + k * s)` and the loop is described by the first index that is usable or past the
end.

**`PortPool`** - allocator, binding workers and pool reconciler as one state machine.

| Variable | Code |
|---|---|
| `poolState`, `lbs`, `cache` | `PortAllocator.pools`, the keys of `PortPool.cache`, its sets |
| `phase`, `held`, `bound` | pool `status.state`; binding `status.portBindings`, `status.state == Bound` |
| `pc`, `entry`, `left`, `index` | a worker's place: the entry of `spec.ports`, the pools still to ask, the loop variable of the same-port search |
| `taken`, `got`, `drop`, `lost` | `allocatedPorts` of the current request and of the pass; what is being released; what leaves the status |
| `cloud`, `gone`, `spinning`, `abandoned` | load balancers that exist; history of removed ones; pools locked by an endless loop; ports dropped without release |

| Actions | Code |
|---|---|
| `Lookup`, `FailLookup`, `RefuseEntry`, `SkipEntry` | the head of the loop in `ensurePortAllocated`, `getPortPools`, the checks in `PortPools.AllocatePort` |
| `RangeTake`, `RangeFail`, `RangeSpin` | one call of `AllocatePortFromRange`, under the pool's lock |
| `SameTake`, `SameBusy`, `SameFull`, `SameExhausted`, `NextPort` | one call of `PortPool.AllocatePort` in `allocateSamePortAcrossPools` and its loop |
| `ReleaseTaken`, `ReleaseBinding`, `EndRelease` | one `ReleasePort` under the lock, then the end of the loop |
| `EndEntries`, `WriteStatus`, `WriteFails` | the status update, with its roll back |
| `EnsureListeners`, `EndUnbind` | `ensureBackendBindings`: which ports are given up, and the status written after it |
| `StartDelete` | `cleanup`: mark as finalized, then release |
| `EnsurePool`, `ActivatePool`, `DeletePool`, `RemovePool`, `EnsureLbIds`, `RemoveLB`, `DeleteCloudLb` | the pool reconciler and the cloud |

**`PortLease`** - the abstract specification: slots (port and layer-4 protocol of a load balancer)
are leased to at most one binding. `PortPool!ImplementsLease` maps `lease[b]` to the slots in the
status of `b`.

**`MCPortPool`** - the instances TLC checks. **`PortPoolProofs`** - proofs about who has a port.
**`PortPoolRequestProofs`** - proofs about the requests: entries, numbers, ranges, quotas, ghosts.
**`PortPoolSegmentProofs`** - the proof that port segments do not overlap.

**`ScaleUp`** - a pool that grows on demand: the request flags of the allocator, the bindings that
set them, the pool reconciler that creates load balancers, the API server and the informer's copy
of the pool. It does not use `PortPool`: here a binding needs one port and an allocation is one
step, while every atomic operation on the flags and every read or write of the pool's status is a
step of its own. `MCScaleUp` has the instances, `ScaleUpProofs` the proofs.

| Variable | Code |
|---|---|
| `requested`, `completed` | `scaleUpRequested`, `scaleUpJustCompleted` of the pool in the allocator |
| `lbs`, `used` | the keys of `PortPool.cache` and its sets |
| `cloud`, `created` | the load balancers that exist and how many were created |
| `stored`, `cached` | `status.loadbalancerStatuses` in the API server and in the informer |
| `wake`, `queued` | the pool, a binding is in its work queue |
| `ppc`, `base`, `work` | the pool reconciler: its place, `pool.Status`, the copy it builds |
| `bpc`, `state`, `place` | a binding's worker: its place, `status.state`, `status.portBindings` |

| Actions | Code |
|---|---|
| `Allocate`, `WriteBinding`, `WriteBindingFails` | `ensurePortAllocated` |
| `Request`, `RequestCAS`, `Check`, `GiveUp`, `MarkNoPort` | `tryRequestScaleUp` with the two compare-and-swaps of `RequestScaleUp`, then `ensureState` |
| `Listen` | `ensureListener`: which ports are given up |
| `DeleteBinding` | `cleanup`, in one step |
| `EnsureLbStatus`, `AskRequest`, `ClearRequest` | `getCLBInfo` and `ensureLbStatus` up to `HasScaleUpRequest` |
| `CreateCLB`, `CreateFails`, `MarkScaleUpCompleted`, `ResetScaleUpRequest` | the rest of `ensureLbStatus` |
| `SkipWrite`, `WritePool`, `PoolFails` | the end of `sync`; an error on the way there |
| `Deliver` | a watch event: the informer catches up, the pool and the bindings `shouldNotify` names are queued |
| `DeleteCloudLb`, `Restart` | the cloud, the process |

**`BatchCalls`** - package `clb` between the reconcilers and the cloud. `CloudCalls` is its
abstract specification: what a caller may rely on when queues, batches, locks and the cloud's tasks
are left out. `MCBatchCalls` has the instance, `BatchCallsProofs` the proofs about queues and locks,
`BatchCallsCloudProofs` the proof that the batches implement `CloudCalls`.

| Variable | Code |
|---|---|
| `live`, `backends`, `task` | the cloud: listeners, registered targets, the asynchronous task of a load balancer |
| `pc`, `op`, `arg`, `again` | a caller in `listener.go` / `target.go`: its place, the operation it waits for, what an earlier answer told it, whether it creates for the second time (`createListener` of the reconciler) |
| `channel`, `tasks` | the task channel of each API, the slice its processor collects |
| `batches`, `answer` | goroutines running a `doBatch`; the result a call is about to be sent |
| `lock` | `lbLockMap` |

| Actions | Code |
|---|---|
| `Send`, `CallDirectly`, `FindByPort` | `*TryBatch`, `DeleteListenerByIdOrPort`, `RegisterTarget` ...; the unbatched `CreateListener` and `DeleteListener`; `GetListenerByPort` |
| `Receive`, `Timer` | the loop of `StartBatchProccessor`; `Flush` is its `batchRequest` |
| `LockLb` | `getLbLock(lb).Lock()`; released in `End` |
| `CallFails`, `ResourceInOperating` | `ApiCall` |
| `PortCheckFails`, `CreateListeners`, `CreateMismatch` | `doBatchCreateListener` and the grouping in `startCreateListenerProccessor` |
| `DeleteListeners`, `DeleteUnanswered`, `DeleteNotFound` | `startDeleteListenerProccessor`, `DeleteListener` |
| `RegisterTargets`, `DeregisterTargets`, `DescribeListeners`, `DescribeTargets` | the other processors |
| `WaitSucceeds`, `WaitFails`, `WaitGivesUp`, `TaskEnds` | `Wait`, and tasks nobody waits for |
| `Deliver` | the send on a result channel, with what the caller does next (`Resume`) |

**`BindingLife`** - the life of `CLBPodBinding`s from the pod's annotation to the release of the
port: API server, informer copies, both controllers, the cloud, users, the garbage collector and
restarts. A reconcile is a walk through `worker[b].at`; between two steps anything may happen.
`MCBindingLife` has the instances, `BindingLifeProofs` the proofs about ports,
`BindingListenerProofs` those about listeners.

| Variable | Code |
|---|---|
| `obj`, `copy` | a binding in the API server, and in the informer's cache |
| `queued`, `podQueued` | the work queues of the binding and the pod controller |
| `worker` | a reconcile: its place, the object it holds (`bd`), the port, backend address and listener it found, whether an error is pending, whether `bd` was fetched again |
| `allocated`, `cache`, `freed` | the allocator's record; the listener cache; a notification to the pool that its status does not show yet |
| `abandoned` | history: ports recorded in the allocator that nobody is going to release |
| `listener`, `targets` | the cloud |
| `pod` | the pods and the annotation written to them |
| `acts`, `faults` | what users do and what goes wrong in a behaviour, each kind at most once |

| Actions | Code |
|---|---|
| `Start` | `ReconcileWithFinalizer`, then the head of `sync` or `cleanup` (`FirstStep`, `SyncStep`) |
| `Write`, `WriteFails` | every `Update` and `Status().Update` of the held object, and its conflict; `GiveBack` is the release after `clbbinding.go:957` |
| `Allocate`, `Backend` | `ensurePortAllocated`, `ensureBackendBindings` up to the address |
| `EnsureListener(Fails)`, `EnsurePortBound(Fails)` | `ensureListener`, `ensurePortBound` |
| `UnexpectedStays`, `Drop` | `ensureListenerExpected` cannot delete a listener that is not as expected and returns `nil, err`; the status is then written without the port, which is not released |
| `Save`, `BecomeBound`, `RetriesExhausted` | the writes through `RetryIfPossible`, which reads the object again |
| `Annotate`, `Unbind` | `ensureBackendStatusAnnotation`; `ensureUnbound` |
| `RemoveListener`, `Release` | `cleanupPortBinding`; the end of `cleanup`. The mark and the finalizer are `Write`s |
| `PodSync` | `syncCLBBinding` of the pod controller |
| `Inform`, `PoolReports`, `Restart` | a watch event; `findObjectsForCLBPortPool`; the process and `initCache` |
| `Collect`, `BindingDeleted`, `PodDeleted`, `PodGone`, `PodCreated`, `PodGetsIP`, `Switched` | the cluster and its users |

**How they compose.** `PortPool` shows what an allocation promises (a lease); `BindingLife` uses
that promise as one step (`Allocate`) and follows the port to its release. `BatchCalls` shows what a
cloud call promises (`CloudCalls`: success is true, an error may have had any part of its effect);
the cloud steps of `BindingLife` are such calls: `EnsureListenerFails`, `UnexpectedStays`,
`EnsurePortBoundFails` and `RemoveListener` take all or part of the effect with an error. A deletion
that shares a batch with a missing listener is told so (`MateMissing`): a cleanup falls back to the
port, `ensureListenerExpected` gives the port up.

### Abstractions
- Entries of `spec.ports` are told apart by their index: they have different (port, protocol)
  keys. The order in which Go's maps visit pools is a choice (`left`), and so is the order in
  which load balancers are offered (policy and blacklist: any subset `V`).
- The pool objects of a request are read in one step (`Lookup`); a pool without a quota makes the
  result depend on the visiting order, so both results are possible.
- A pool that was removed does not come back under the same name.
- Listeners and targets are not in the model: `EnsureListeners` chooses which ports `D` had their
  listener deleted (they are released) and which ports `V` leave the status without a release
  (the load balancer does not exist, or a listener that was not as expected could not be deleted).
  A reconcile without a backend is the choice `D = V = {}`.
- Two pools do not list the same load balancer (`MembersAssumption`).

`ScaleUp`: one pool whose load balancers are all created by the controller, with a limit. A
round asks the cloud and the allocator in one step (`EnsureLbStatus`); the code makes two API
calls there. The informer lags for the pool, not for the bindings. The pool exists in the
allocator from the start. `Restart` runs `initCache` in one step. Local variables of a reconcile
that ended are reset, so that they do not tell states apart. The cloud creates at most
`CloudQuota` load balancers and refuses more, as an account quota does.

`BatchCalls`: a call is made once; which calls share a batch is all that the order in a channel
decides, so channels are sets. A creation makes one listener, named by the call. The cloud refuses a
creation at a taken place for the whole request, deletes all or none, and names some of the missing
listeners in its error, which is how the code reads the errors; a lost answer or a wrong number of
listeners is an error for the whole request. Rate limiting and an error of `RequestLimitExceeded`
have no step of their own (the call is repeated until another answer comes). A closed channel is
left out: nothing closes one. Callers pass what one entry of a status has: a listener goes with its
load balancer, and to `DeleteListenerByIdOrPort` with its port (`PlacesAssumption`;
`clbbinding.go:146`, `763`, `1096`, `1102`).

`BindingLife`: a binding has one port, of one load balancer in one pool without pre-created
listeners; comparing objects stands for comparing resource versions. `Reads` charges a reconcile
that begins with an old copy to the fault `"stale"`: the informer is normally up to date when
a queued object is handed out, and the runs with and without that fault answer different
questions. Left out of the functions that are mapped: the node type check, an unscheduled pod, a
listener whose load balancer or pool disappeared (`PortPool` has what that does to the port),
pre-created listeners, IPv6, host ports, agones, and removing the annotation from a pod.

## 3. Runs

| Run | Shows |
|---|---|
| `port_pool` | two bindings with five entries (for one pool and for both, at one number and not, TCP, UDP, QUIC and TCPUDP), segments of two ports on two grids, a pool without an end port and with pre-created listeners, quota 3: `Exclusive`, `Recorded`, `NoGhost`, `QuotaRespected`, `InRange`, `SegmentsDisjoint` (overlaps only between grids), `SamePort`, `WholeEntries`, refinement of `PortLease`, and `StuckByEndlessWalk`: a reconcile that does not end is in an endless walk, or waits for the lock of a pool in which another worker is in one |
| `port_pool_endless` | finding: `ReconcilesEnd` is false, a search for one number in a pool without an end port goes round for ever |
| `port_pool_leak` | finding: an error of a later entry leaves the ports of earlier entries allocated |
| `port_pool_open_range` | finding: without `endPort` the walk wraps and hands out ports below `startPort` |
| `port_pool_return` | finding: a load balancer that comes back to a pool starts empty while Bound bindings keep their ports |
| `scale_up` | two bindings, two load balancers of one port, one fault of any kind: `RequestSeen` (no request is left behind a flag nobody looks at), `CreatedRecorded` (no load balancer that was created is forgotten) |
| `scale_up_live` | `Served`: a binding that waits gets a port or the limit is reached, with one restart, failed creation or deleted binding |
| `scale_up_limit` | finding: one load balancer too many, without any fault |
| `scale_up_restart` | finding: after a restart between a creation and the status write a port is handed out twice |
| `batch_calls` | two or three calls at once, eight mixes of creations, deletions, registrations and queries: `Placed` (a call is in one place), `OneWriter`, refinement of `CloudCalls`, `EveryCallReturns` |
| `binding_life` | two pods, one port: `HeldIsAllocated`, `OneHolder`, `NothingLeftBehind`, `BoundIsServed`, `DeletedByOwner`, `NoLeak`, and the liveness properties `PodsServed`, `PodsForgotten` |
| `binding_life_stale` | finding: with an old copy a cleanup deletes the listener of another binding |

**Bounds.** Two bindings, two pools with one load balancer each, port numbers up to 7 in `port_pool`
and `port_pool_endless` and 7 or 8 in the other runs (8 where the ranges must not wrap). Two
workers are enough for every race on a pool, two pools for a request that is half done. In
`port_pool`, segments of two ports divide the 8 numbers there are, so that the walk of a request for
`p1` alone (start 1, end 7) wraps for ever once its ports are taken, as 65535 does for a length that
divides 2^16; a request across both starts at 2 and so has segments between those of `p1` alone:
what overlaps on different grids occurs, and so does what may not on one grid. Pre-created
listeners (TCP up to 4, UDP up to 2) and the quota make the second binding meet a full pool and a
full quota. `OneDisturbance` limits a behaviour to one change for the worse (a pool deleted, a load
balancer out of the pool or the cloud, or a port given up without a release); `OnlyP2Disturbed`
narrows that further, to changes of `p2` and to the UDP port that `b1` has of `p1`, with `p1` up
before the first reconcile. Behaviours that a constraint cuts are not checked for liveness beyond
the cut. The wrap that leaves the range (`port_pool_open_range`) and load balancers that return
(`port_pool_return`) have runs of their own.

`scale_up*`: with one port per load balancer, two bindings need both of the two load balancers, so
that a second creation follows on the absorbed request of the first. One fault (`MaxFaults`) at
any point is enough for each single recovery path; the bindings are a symmetry set where no
liveness is checked. Two limits of the liveness run: a deleted load balancer is not among its
faults (too many states), and with two faults `Served` does fail: if the new load balancer is
deleted before its entry is written, the round then fails, and the only request was the absorbed
one, no status changes and nobody wakes the binding.

`batch_calls`: channels of one place, a flush at two tasks, two calls per batch, one port per
creation request and one retry are the least limits at which a send blocks, a batch is full, a
creation needs a second request under the same lock, and retries end. Three calls are enough for a
batch of two and a competitor for the lock; two load balancers for a flush that is split. The mixes
are chosen so that the calls of one behaviour interfere: two creations at one place, a creation
where a listener is, deletions of one batch with and without a missing listener, a registration
beside the deletion of its listener.

`binding_life`: one port for two bindings makes one wait and take over what the other releases,
which is where every hazard of the cleanup lies. `b1` is owned by its pod, `b2` retained; the port
has a foreign listener at the start, so that the path that deletes and creates again is taken.
`MCScenarios` pairs each act of a user (a deletion of a pod or a binding, a switch) with
the faults that matter for it; a fault and an act may come at any step. Five listener ids are never
used up. Two faults occur in one scenario only, a failed or unanswered cloud call and a restart:
the port that the call dropped is free again after the restart, or a restart loses it. `MateMissing`
needs a second port and never holds in this instance; the proofs cover it.

**Fairness** of `ScaleUp!FairSpec`: weak fairness of each binding's worker, of the pool reconciler
and of the informer. Controller-runtime's queues hand out what is queued, goroutines that can run
are run, and a watch delivers what was written. The cloud, faults and deletions get none. A
creation that is refused is retried for ever, so `Served` accepts an exhausted `CloudQuota`.

`PortPool!FairSpec` asks for weak fairness of `Reconcile(b)`, the steps of a worker that
began a reconcile: a goroutine that can run is run, and a mutex that is free is obtained. The
pool reconciler, the cloud and the start of a reconcile get none. `ReconcilesEnd` is what one would
like to have; it is false, and `StuckByEndlessWalk` says that the walk is the only reason.

`BatchCalls!FairSpec`: weak fairness of each caller, each processor and of some batch; goroutines
that can run are run, timers fire and the cloud answers every request in some way. Deliberately not
asked for is fairness of each single batch: a batch that waits for the lock gets it since those
that hold it end.

`BindingLife!FairSpec` is `WF_vars(System)` only: while a worker, the informer, the garbage
collector or the kubelet has something to do, one of them does it. That is weaker than fairness
of each worker, which controller-runtime's queues give, and so the liveness properties also
show that the controllers do not keep each other busy for ever. Users get no fairness.

**Deadlock** is not checked: with a binding at rest and pools removed, or with every binding served and
the informer up to date, the system may stop.

## 4. Proofs

`PortPoolProofs`, for every number of bindings, pools and load balancers, every spec and every `MaxUint16`:
- `TypeCorrect`: `Spec => []TypeOK`. `AskingOK` (a worker that asks a pool has its request looked
  up) is needed to bound the walk.
- `ExclusiveCorrect`, `RecordedCorrect`: as long as no load balancer comes back to a pool it left
  (`~LbsReturn`; `port_pool_return` shows that this is necessary). The inductive invariant `Inv`
  adds to the type: `PoolsOK` (an unregistered pool has an empty record, a load balancer is a
  member of its pool and not in `gone` while listed), `Known` (what somebody has is on a load
  balancer that is listed or gone), `Phases` (which of `taken`, `got`, `drop` may be non-empty at
  which `pc`), `Recorded` and `Exclusive`. `Exclusive` alone is not inductive: a port is free to
  take when its key is not recorded, so everything owned must be recorded as long as the load
  balancer is listed, and when it is not listed any more it must never be listed again.
- `LeaseImplemented`: `Spec => ImplementsLease`, from the same invariant: a status write adds
  slots that nobody has.

`PortPoolRequestProofs`, for the same constants:
- `SamePortCorrect`, `WholeEntriesCorrect`: without any assumption. The invariant `EntryInv` of each
  worker says what it has of which entry: `Asking` (the entry it searches for was looked up and has
  no port yet), `Collected` (`got` has earlier entries only, each with all of its listeners),
  `Taking` (`taken` has the listeners of exactly the pools that were asked, at the number the
  same-port search is at) and `OneNumber`. A failed search drops all of it, so what is written is
  whole.
- `QuotaRespectedCorrect`: when there are finitely many pools and each quota is known (above 0). The
  pools of a request then have one quota (`OneQuota`), and a request is recorded under no more keys
  than it counts listeners (`NeededCount`). A pool with quota 0 is the exception the code makes: it
  is served under the quota of the pools asked with it.
- `InRangeCorrect`: under `NoWrap` (the range of each request ends a segment length below `MaxUint16`
  or earlier); `port_pool_open_range` shows what happens otherwise. The invariant `WalkInv` says
  that a same-port walk is at most one step past the end port, so its `uint16` sum has no carry.
- `NoGhostCorrect`: under `~LbsReturn`, from `Inv` and `LostOK` (a port that waits to leave the
  status is abandoned or its load balancer is out of the pool). A port that leaves a worker's hands
  is released, abandoned, or one of these (`OwnersStay`), and no key is recorded but by a search
  that hands it to its worker (`KeyOrigin`).

`PortPoolSegmentProofs`, for the same constants:
- `SegmentsDisjointCorrect`: under `~LbsReturn` and `NoWrap`, with no premise about grids: how two
  requests walk a pool is part of the property. The allocator never compares
  two segments: it looks for one key, the first port with the last one. `OnWalks` says that everything
  somebody has is a port of the walk of its entry, with the end that belongs to it; two such
  segments of one grid overlap only if they are equal (`SameGrid`, `GridDisjoint`), and then
  `Exclusive` applies. Segments of different grids may overlap, see the observations.

`ScaleUpProofs`, for every number of bindings, load balancers, ports and faults:
- `TypeCorrect`: `Spec => []TypeOK`.
- `RequestSeenCorrect`: `RequestSeen` is inductive with the types.
- `CreatedRecordedCorrect`: the inductive invariant `RecordInv` adds `Numbered` (identities are
  given in the order of creation, and no status lists one that was not created) and
  `NoneForgotten` (during a round the status that is built has every load balancer that exists;
  what the reconciler read and what the informer has list none that exists and is not stored).
  The last part is what makes `SkipWrite` safe: the reconciler may skip the write because the
  informer has the same status, although the API server has a newer one.
- `ExclusiveUnlessRestarted`: without the fault `"restart"` no port is with two bindings, with every
  other fault any number of times. `Exclusive` is not inductive: a load balancer that leaves the
  allocator's list takes the record of its ports along, and would come back with an empty one.
  `ExclusiveInv` adds that it leaves only when it does not exist any more: `MissingGone` (what a
  status calls not found does not exist; load balancers are not created twice), `RoundLists` (until a
  round creates, what it lists is what its status says runs, and that is all that exists) and
  `PortsKnown` (the ports in use of listed load balancers are recorded, the others are on load
  balancers that are gone). `scale_up_restart` shows that the premise is necessary.

`BatchCallsProofs`, for every number of calls, load balancers and listeners, every channel size and
every limit:
- `TypeCorrect`: `Spec => []TypeOK`, `OneWriterCorrect`: `Spec => []OneWriter`, `PlacedCorrect`:
  `Spec => []Placed`, from one inductive invariant `Inv`. `Placed` counts places, which is not
  inductive and awkward to prove with; `Inv` says the same with sets: what is in a channel, with a
  processor or in a batch was sent and belongs there (`Queued`, `InBatch`), batches share no call
  (`Apart`), and what was sent is somewhere (`Somewhere`). `OneWriter` needs `Locked`: a batch
  that writes and is past the lock holds it, and since every batch has a call the lock is not
  empty. `Passed` is for the types: what one answer passes on to the next operation is of its kind.

`BatchCallsCloudProofs`, for the same constants, of which `PlacesAssumption` is needed here:
- `ImplementsCallsCorrect`: `Spec => ImplementsCalls`. Each step of a batch is a step of `CloudCalls`
  or a stutter: the cloud changes only on behalf of calls that have not returned or that returned an
  error, and a call that returns success has had its effect and has none later. The inductive
  invariant `CloudInv` follows a call from its request to its answer: `InRole` (a call issues the
  operations of its kind only), `Expected` (what a call that waits is going to be told is what the
  task of its load balancer does), `Trusted` (while success is being told nothing is under way
  there, and the effect is in place), `Underway` (a task works for calls that wait or failed, and
  creates at free places only) and `Aimed` (a deletion by port names all that is at the port). `Once`
  says which listeners are not created again; it makes a deletion final although a creation may be
  repeated. That no two writers are at a load balancer (`OneWriter`) is used throughout: without the
  lock `Trusted` fails between the end of a task and the answer.

`BindingLifeProofs`, for every number of bindings, ports and addresses:
- `TypeCorrect`: `Spec => []TypeOK`, with `Ready` (what a worker knows fits the step it is at).
- `HeldIsAllocatedCorrect`, `OneHolderCorrect`, for behaviours that begin with `NoStale` (the fault
  `"stale"` is not among those to come; restarts, failing calls and writes, and every act of a user
  stay). The inductive invariant `HoldInv` is about `Held(b)`, which adds to the port of the status
  the one a worker is about to record and the one it is about to release: all of these are recorded,
  and two bindings have none in common. `Current` ties the object a worker holds to the one in the
  API server in what matters for the port; that is what fails with an old copy, hence the
  assumption. TLC checks both properties with one stale read as well (`binding_life` has that
  scenario).
- `BindingLifeAssumption` asks that there are addresses enough for the first pods.

`BindingListenerProofs`, for the same constants and under `NoStale`:
- `NoLeakCorrect`: the invariant `LeakInv` says that each recorded port that is not `abandoned` is
  in `Held(b)` for some `b`. A step that lets go of a port (`OneLoses`) releases it or, in `Drop` and
  `Save`, abandons it; `OneAtATime` says that a step changes one binding's share only.
- `NothingLeftBehindCorrect`, `BoundIsServedCorrect`, `DeletedByOwnerCorrect`, from one inductive
  invariant, `ListenerInv`, on top of `HoldInv`. It follows the listener as `HoldInv` follows the
  port: `Settled` (what the fields of an object say of each other; a listener id is never without its
  port), `Stands` (the listener of an object that is not finalized exists, unless its own cleanup
  has deleted it), `Fits` (what a worker found is still there when it writes it down, and a worker
  that marks the object as finalized has deleted the listener) and `Accounted` (a listener of the
  controller is at the port of a binding that is not finalized, and the cache knows no other).
  `DeletedByOwner` rests on `OneHolder`: cleanup deletes by port, and the port is its own.
  `binding_life_stale` shows what an old copy does.

Every safety property the passing runs check, and both refinements, are proved. Model-checked only:
`StuckByEndlessWalk`, `Served`, `EveryCallReturns`, `PodsServed` and `PodsForgotten` (liveness under
fairness is out of the prover's reach). The properties of the runs that expect a violation are false;
where a premise excludes the cause they are theorems: `InRangeCorrect` (`NoWrap`), `ExclusiveCorrect`
(`~LbsReturn`), `ExclusiveUnlessRestarted`, `DeletedByOwnerCorrect` (`NoStale`). `WithinLimit` and
`NothingAbandoned` have none: a lagging informer and an error of a later entry are normal; nor has
`ReconcilesEnd`, which is a liveness property.

## 5. Findings

1. `clbbinding.go:917`: an error of `Allocate` returns without `releasePorts()`, unlike every
   other early return; the ports of earlier entries stay allocated until the process restarts.
2. `portpool.go:228`: `port += segmentLength` wraps; a pool with segments and no end port hands out
   ports below `startPort`.
3. `portpools.go:71`: the same sum in the search for one number across pools. Without an end port
   every number is below 65535, and if the segment length divides 2^16 (1 does) the walk comes
   back to where it began: once each of its numbers is taken in one of the pools, and no quota is
   exceeded, the reconcile never ends. `portpool.go:228` does the same with the pool's lock held.
4. `portpool.go:399`: a load balancer that returns to a pool has an empty record.
5. `clbportpool_controller.go:336`: a load balancer found by its tags is not counted against
   `maxLoadBalancers` in that round; the informer's lag is enough to create one too many.
6. `setup_manager.go:67`: load balancers that are not yet in the pool's status are not restored at
   start-up, so ports on them are not recorded again and are handed out twice.
7. `clbbinding.go:1023`: `cleanup` looks for its mark in the copy the reconcile began with. If that
   is older than the previous cleanup, the listener at the port is deleted by the port, and it may
   be another binding's by now; no write that could meet a conflict comes before.

**Observations** met while modelling, which shaped guards and properties:
- An entry that lost the port of one pool counts as allocated (`clbbinding.go:872`) and is not
  completed. `WholeEntries` therefore speaks of what is written, not of what is left later.
- A disabled binding whose listener id was never saved is skipped by `ensureUnbound`
  (`clbbinding.go:142`) and goes on serving, while `CHANGELOG.md:120` promises isolation;
  `PodsForgotten` speaks of bindings with an id.
- A binding that is deleted before it has its finalizer is gone without a cleanup, and nobody tells
  the pod's controller to make it again (`clbbinding.go:1073` is not reached); `BindingDeleted` is
  guarded by the finalizer.
- `syncCLBBinding` ignores `AlreadyExists` (`clbbinding.go:1236`). With a copy that stays old while
  the pod is created again, the pod may be left without a binding; the scenarios do not combine
  these.
- Segments of one load balancer overlap when requests walk different grids. A request across pools
  starts at the highest start port with the segment length of the pools that have one
  (`portpools.go:128-175`), so pools that are also asked alone need starts a multiple of the length
  apart, and one length; neither the allocator nor the webhook asks for that, and the allocator
  compares whole keys only. No document promises it, so it is not a finding; `SegmentsDisjoint` states
  what is left, and in `port_pool` the overlaps do occur.
- When `ensureListenerExpected` cannot delete a listener (`clbbinding.go:184`, also for an answer that
  was lost or a missing listener of the same batch), the port is dropped from the status
  (`clbbinding.go:491-515`) and not released. It stays in the allocator until a restart; the binding
  itself looks for another port, and if there is none, it and all others wait although nobody has the
  port. The variable `abandoned` records this, and `NoLeak` and `PodsServed` except it by name.
- A process that ends between the mark and the removal of the finalizer records the port at
  start-up again and does not release it: a port is lost until the next restart. `Restart` puts
  these ports in `abandoned`; they are the only other ones.
- After `RetryIfPossible` has read the object again, `sync` still writes the error to the status it
  held before (`clbbinding.go:63`, `119`): `Failed` is not recorded, but the retry happens.

## 6. What is left

Modelled and proved in this order: `Ports`, `PortPool`, `PortLease`; `ScaleUp`; `BatchCalls`,
`CloudCalls`; `BindingLife`. Open:

1. The pool reconciler's listed load balancers, quotas and listener pre-creation
   (`ensureListenerPrecreate`, `BatchCreateListener`, `EnsureInit`), and `initCache` running beside
   the controllers.
2. Several ports per binding in `BindingLife`, and load balancers that disappear while listeners
   are ensured.
3. Proofs: weaker premises than `NoStale` and `~LbsReturn`, which exclude from whole behaviours what
   matters at single steps only (an old copy in a cleanup, a load balancer whose ports are
   in use); a bound on how far a lagging informer lets a pool pass its limit.

Not modelled: the webhook (a pure function of one object), process wiring and flags, cloud
credentials, request building and error classification of the cloud SDK, load balancer instances and
account quotas, rate limiting, the GameServerSet controller (it copies annotations), the host port
mapping, e2e tests and charts.
