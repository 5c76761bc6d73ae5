----------------------------- MODULE BindingLife -----------------------------
(***************************************************************************)
(* The life of CLBPodBindings: the pod controller creates them, a worker   *)
(* per binding brings it to Bound or cleans it up, and the pods, the users *)
(* and the garbage collector get in between.                               *)
(*                                                                         *)
(* Workers read objects from the informer's copies, which lag behind the   *)
(* API server.  A write succeeds only if the object is still what the      *)
(* worker read: comparing the objects stands for the resource versions.    *)
(* Each binding has one port, of one load balancer of one pool without     *)
(* pre-created listeners.  PortPool has the allocation itself, BatchCalls  *)
(* what happens in a call to the cloud.                                    *)
(***************************************************************************)
EXTENDS Integers, FiniteSets

CONSTANTS
  Bindings,   \* namespaced names, each of a pod and of its binding
  Ports,      \* ports of the load balancer
  IPs,        \* addresses of pods
  MaxIds,     \* bound: listener ids in use at a time
  Foreign,    \* ports on which a listener of another kind is in the way
  Retained,   \* bindings without an owner reference (the annotation Ratain)
  Scenarios   \* bound: what goes wrong and what users do in a behaviour, each once

\* The process restarts, a call to the cloud fails, a write meets a conflict with a change that is
\* not in the model, a reconcile begins or retries end before the informer has delivered the last
\* write.
FaultKinds == {"restart", "cloud", "write", "stale"}

\* A pod is deleted, a binding is deleted, the mapping is switched off or on.
ActKinds == {"pod", "binding", "switch"}

ASSUME BindingLifeAssumption ==
  /\ Ports \subseteq Nat \ {0} /\ IPs \subseteq Nat \ {0}
  /\ IsFiniteSet(Bindings) /\ IsFiniteSet(Ports)
  /\ \E ip \in [Bindings -> IPs] : \A b, d \in Bindings : ip[b] = ip[d] => b = d
  /\ MaxIds \in Nat \ {0}
  /\ Foreign \subseteq Ports /\ Retained \subseteq Bindings
  /\ Scenarios \subseteq [faults : SUBSET FaultKinds, acts : SUBSET ActKinds]

VARIABLES
  obj,        \* the bindings in the API server
  copy,       \* the informer's copies of them
  queued,     \* the binding is in its controller's work queue
  worker,     \* the worker of a binding: where it is and what it knows
  allocated,  \* the ports recorded in the allocator
  cache,      \* cache[p]: the listener the listener cache has for a port
  freed,      \* a port was released and the pool's status does not show it yet
  abandoned,  \* what happened: ports recorded in the allocator that nobody will release
  listener,   \* cloud: the listener at a port
  targets,    \* cloud: the addresses registered to it
  pod,        \* the pods
  podQueued,  \* the pod is in its controller's work queue
  acts,       \* what users will still do
  faults      \* what will still go wrong

memory == <<allocated, cache, freed>>
cloud == <<listener, targets>>
pods == <<pod, podQueued>>
fate == <<acts, faults>>
vars == <<obj, copy, queued, worker, memory, abandoned, cloud, pods, fate>>

Uids == 0..2  \* a pod is deleted once: the first pod of a name is 1, the next 2
Ids == 1..MaxIds
Alien == MaxIds + 1  \* the id of a listener that is in the way
AnyId == 0..Alien    \* 0 where there is no listener or none is known

States == {"absent", "", "Pending", "NoPortAvailable", "Allocated", "NoBackend", "WaitBackend",
           "Bound", "Failed", "Disabled", "Deleting"}

Objects == [owner: Uids, finalizer: BOOLEAN, deleted: BOOLEAN, finalized: BOOLEAN,
            disabled: BOOLEAN, state: States, port: Ports \cup {0}, listener: AnyId]

Absent == [owner |-> 0, finalizer |-> FALSE, deleted |-> FALSE, finalized |-> FALSE,
           disabled |-> FALSE, state |-> "absent", port |-> 0, listener |-> 0]

Exists(o) == o.state # "absent"

Pods == [uid: Uids, ip: IPs \cup {0}, leaving: BOOLEAN, disabled: BOOLEAN,
         mapping: Ports \cup {0}]

NoPod == [uid |-> 0, ip |-> 0, leaving |-> FALSE, disabled |-> FALSE, mapping |-> 0]

Running(b) == pod[b].uid # 0 /\ ~pod[b].leaving

Steps == {"idle", "addFinalizer", "pending", "allocate", "record", "full", "backend", "noBackend",
          "wait", "listener", "bind", "save", "drop", "bound", "annotate", "fail",
          "disable", "unbind", "deleting", "remove", "mark", "release", "dropFinalizer"}

\* port: allocated, not yet recorded; ip: the backend's, 0 when nothing is to be bound;
\* listener: found or created; failed: an error to return; fetched: obj was read again.
Workers == [at: Steps, obj: Objects, port: Ports \cup {0}, ip: IPs \cup {0}, listener: AnyId,
            failed: BOOLEAN, fetched: BOOLEAN]

Idle == [at |-> "idle", obj |-> Absent, port |-> 0, ip |-> 0, listener |-> 0, failed |-> FALSE,
         fetched |-> FALSE]

\* Every variable keeps its type.
TypeOK ==
  /\ obj \in [Bindings -> Objects] /\ copy \in [Bindings -> Objects]
  /\ queued \in [Bindings -> BOOLEAN] /\ podQueued \in [Bindings -> BOOLEAN]
  /\ worker \in [Bindings -> Workers]
  /\ allocated \in SUBSET Ports /\ cache \in [Ports -> AnyId] /\ freed \in BOOLEAN
  /\ abandoned \in SUBSET Ports
  /\ listener \in [Ports -> AnyId] /\ targets \in [Ports -> SUBSET IPs]
  /\ pod \in [Bindings -> Pods]
  /\ acts \subseteq ActKinds /\ faults \subseteq FaultKinds

\* The pods have addresses of their own; which ones does not matter.
FirstIP == CHOOSE ip \in [Bindings -> IPs] : \A b, d \in Bindings : ip[b] = ip[d] => b = d

Init ==
  /\ obj = [b \in Bindings |-> Absent] /\ copy = obj
  /\ queued = [b \in Bindings |-> FALSE]
  /\ worker = [b \in Bindings |-> Idle]
  /\ allocated = {} /\ cache = [p \in Ports |-> 0] /\ freed = FALSE /\ abandoned = {}
  /\ listener = [p \in Ports |-> IF p \in Foreign THEN Alien ELSE 0]
  /\ targets = [p \in Ports |-> {}]
  /\ pod = [b \in Bindings |-> [NoPod EXCEPT !.uid = 1, !.ip = FirstIP[b]]]
  /\ podQueued = [b \in Bindings |-> TRUE]
  /\ \E s \in Scenarios : faults = s.faults /\ acts = s.acts

-----------------------------------------------------------------------------
Fault(kind) == kind \in faults /\ faults' = faults \ {kind}

Act(kind) == kind \in acts /\ acts' = acts \ {kind}

\* A reconcile begins with the informer's copy.
Reads(b) == (copy[b] = obj[b] /\ UNCHANGED faults) \/ (copy[b] # obj[b] /\ Fault("stale"))

Enqueue(b) == queued' = [queued EXCEPT ![b] = TRUE]

EnqueuePod(b) == podQueued' = [podQueued EXCEPT ![b] = TRUE]

At(b, step) == worker[b].at = step

Becomes(b, w) == worker' = [worker EXCEPT ![b] = w]

Goto(b, step) == Becomes(b, [worker[b] EXCEPT !.at = step])

Stop(b) == Becomes(b, Idle) /\ UNCHANGED queued

\* The reconcile ends with an error or with RequeueAfter.
Requeue(b) == Becomes(b, Idle) /\ Enqueue(b)

\* Mutant: a binding whose state is Disabled is taken for unbound.
SyncStepOnce(o) ==
  CASE o.disabled -> IF o.state = "Disabled" THEN "idle" ELSE "disable"
    [] ~o.disabled /\ o.state = "" -> "pending"
    [] ~o.disabled /\ o.state # "" -> IF o.port = 0 THEN "allocate" ELSE "backend"

\* Where sync begins, for the object it has.
SyncStep(o) ==
  CASE o.disabled -> IF o.state = "Disabled" THEN "unbind" ELSE "disable"
    [] ~o.disabled /\ o.state = "" -> "pending"
    [] ~o.disabled /\ o.state # "" -> IF o.port = 0 THEN "allocate" ELSE "backend"

\* Where a reconcile begins.  Mutant: without the finalized mark.
FirstStepUnmarked(o) ==
  CASE ~Exists(o) \/ (o.deleted /\ ~o.finalizer) -> "idle"
    [] o.deleted /\ o.finalizer -> IF o.state = "Deleting" THEN "remove" ELSE "deleting"
    [] Exists(o) /\ ~o.deleted /\ ~o.finalizer -> "addFinalizer"
    [] Exists(o) /\ ~o.deleted /\ o.finalizer -> SyncStep(o)

FirstStep(o) ==
  CASE ~Exists(o) \/ (o.deleted /\ ~o.finalizer) -> "idle"
    [] o.deleted /\ o.finalizer /\ o.finalized -> "dropFinalizer"
    [] o.deleted /\ o.finalizer /\ ~o.finalized ->
         IF o.state = "Deleting" THEN "remove" ELSE "deleting"
    [] Exists(o) /\ ~o.deleted /\ ~o.finalizer -> "addFinalizer"
    [] Exists(o) /\ ~o.deleted /\ o.finalizer -> SyncStep(o)

Start(b) ==
  /\ At(b, "idle") /\ queued[b]
  /\ Reads(b)
  /\ queued' = [queued EXCEPT ![b] = FALSE]
  /\ Becomes(b, IF FirstStep(copy[b]) = "idle" THEN Idle
                ELSE [Idle EXCEPT !.at = FirstStep(copy[b]), !.obj = copy[b]])
  /\ UNCHANGED <<obj, copy, memory, abandoned, cloud, pods, acts>>

-----------------------------------------------------------------------------
(* Writes of the object the worker holds.                                  *)

\* What is written at a step, and where the worker goes on.
Written(w) ==
  CASE w.at = "addFinalizer" -> [w.obj EXCEPT !.finalizer = TRUE]
    [] w.at = "pending" -> [w.obj EXCEPT !.state = "Pending"]
    [] w.at = "record" -> [w.obj EXCEPT !.state = "Allocated", !.port = w.port]
    [] w.at = "full" -> [w.obj EXCEPT !.state = "NoPortAvailable"]
    [] w.at = "noBackend" -> [w.obj EXCEPT !.state = "NoBackend"]
    [] w.at = "wait" -> [w.obj EXCEPT !.state = "WaitBackend"]
    [] w.at = "fail" -> [w.obj EXCEPT !.state = "Failed"]
    [] w.at = "disable" -> [w.obj EXCEPT !.state = "Disabled"]
    [] w.at = "deleting" -> [w.obj EXCEPT !.state = "Deleting"]
    [] w.at = "mark" -> [w.obj EXCEPT !.finalized = TRUE]
    [] w.at = "dropFinalizer" -> Absent

WriteSteps == {"addFinalizer", "pending", "record", "full", "noBackend", "wait", "fail", "disable",
               "deleting", "mark", "dropFinalizer"}

StepAfter(w) ==
  CASE w.at \in {"addFinalizer", "pending"} -> SyncStep(Written(w))
    [] w.at = "record" -> "backend"
    [] w.at = "wait" -> "listener"
    [] w.at = "disable" -> "unbind"
    [] w.at = "deleting" -> "remove"
    [] w.at = "mark" -> "release"
    [] OTHER -> "idle"

Write(b) ==
  /\ worker[b].at \in WriteSteps /\ obj[b] = worker[b].obj
  /\ obj' = [obj EXCEPT ![b] = Written(worker[b])]
  /\ CASE At(b, "fail") -> Requeue(b)
       [] ~At(b, "fail") /\ StepAfter(worker[b]) = "idle" -> Stop(b)
       [] ~At(b, "fail") /\ StepAfter(worker[b]) # "idle" ->
            /\ Becomes(b, [worker[b] EXCEPT !.at = StepAfter(worker[b]), !.obj = obj'[b], !.port = 0])
            /\ UNCHANGED queued
  /\ UNCHANGED <<copy, memory, abandoned, cloud, pods, fate>>

\* Mutant: a port that could not be recorded stays in the allocator.
GiveBackNothing(b) == UNCHANGED memory

\* A port that could not be recorded is released.
GiveBack(b) ==
  /\ allocated' = allocated \ {worker[b].port}
  /\ freed' = (freed \/ worker[b].port # 0)
  /\ UNCHANGED cache

\* A conflict: the object is not what the worker read.
WriteFails(b) ==
  /\ worker[b].at \in WriteSteps
  /\ \/ obj[b] # worker[b].obj /\ UNCHANGED faults
     \/ obj[b] = worker[b].obj /\ Fault("write")
  /\ IF At(b, "dropFinalizer") /\ ~Exists(obj[b]) THEN Stop(b) ELSE Requeue(b)
  /\ GiveBack(b)
  /\ UNCHANGED <<obj, copy, abandoned, cloud, pods, acts>>

-----------------------------------------------------------------------------
(* sync                                                                    *)

\* Mutant: one port too far.
FirstFreeNext == 1 + CHOOSE p \in Ports \ allocated : \A q \in Ports \ allocated : p <= q

\* The search for a free port begins at the first.
FirstFree == CHOOSE p \in Ports \ allocated : \A q \in Ports \ allocated : p <= q

Allocate(b) ==
  /\ At(b, "allocate")
  /\ \/ /\ Ports \subseteq allocated
        /\ IF worker[b].obj.state = "NoPortAvailable" THEN Stop(b)
           ELSE Goto(b, "full") /\ UNCHANGED queued
        /\ UNCHANGED allocated
     \/ /\ Ports \ allocated # {}
        /\ allocated' = allocated \cup {FirstFree}
        /\ Becomes(b, [worker[b] EXCEPT !.at = "record", !.port = FirstFree])
        /\ UNCHANGED queued
  /\ UNCHANGED <<obj, copy, cache, freed, abandoned, cloud, pods, fate>>

\* GetAssociatedObject: a pod of that name, whichever it is.
Backend(b) ==
  /\ At(b, "backend")
  /\ LET state == worker[b].obj.state IN
     \/ pod[b].uid = 0 /\ (IF state = "NoBackend" THEN Stop(b) ELSE Goto(b, "noBackend") /\ UNCHANGED queued)
     \/ /\ pod[b].uid # 0
        /\ Becomes(b, [worker[b] EXCEPT
                         !.ip = pod[b].ip,
                         !.at = IF pod[b].ip = 0 /\ state # "WaitBackend" THEN "wait" ELSE "listener"])
        /\ UNCHANGED queued
  /\ UNCHANGED <<obj, copy, memory, abandoned, cloud, pods, fate>>

\* The error is recorded in the status, but in a copy nobody writes if obj was read again.
Failing(b, w) ==
  IF w.fetched \/ w.obj.state = "Failed" THEN Requeue(b)
  ELSE Becomes(b, [w EXCEPT !.at = "fail"]) /\ UNCHANGED queued

\* After the ports were ensured: write what changed, report the error, become Bound.
Conclude(b, w) ==
  CASE w.listener # w.obj.listener -> Becomes(b, [w EXCEPT !.at = "save"]) /\ UNCHANGED queued
    [] w.listener = w.obj.listener /\ w.failed -> Failing(b, w)
    [] w.listener = w.obj.listener /\ ~w.failed /\ w.ip = 0 -> Stop(b)
    [] w.listener = w.obj.listener /\ ~w.failed /\ w.ip # 0 ->
         /\ Becomes(b, [w EXCEPT !.at = IF w.obj.state = "Bound" THEN "annotate" ELSE "bound"])
         /\ UNCHANGED queued

PortOf(b) == worker[b].obj.port

\* The listener id of the status, else of the listener cache.
Known(b) == IF worker[b].obj.listener # 0 THEN worker[b].obj.listener ELSE cache[PortOf(b)]

HasListener(b, i) ==
  LET w == [worker[b] EXCEPT !.listener = i] IN
  IF w.ip # 0 THEN Becomes(b, [w EXCEPT !.at = "bind"]) /\ UNCHANGED queued ELSE Conclude(b, w)

\* Mutant: a listener that is not as expected is deleted, and no error is returned.
NoListenerNoError(b) == Conclude(b, [worker[b] EXCEPT !.listener = Known(b)])

NoListener(b) == Conclude(b, [worker[b] EXCEPT !.listener = Known(b), !.failed = TRUE])

\* An id nobody holds: ids that were forgotten may be used again.
FreshIds ==
  {i \in Ids : /\ \A b \in Bindings : i \notin {obj[b].listener, copy[b].listener,
                                               worker[b].obj.listener, worker[b].listener}
               /\ \A p \in Ports : i \notin {cache[p], listener[p]}}

NewId == CHOOSE i \in FreshIds : \A j \in FreshIds : i <= j

\* ensureListener: the listener of the id, else the one at the port, else a new one; one that is
\* not as expected is deleted, and the reconcile fails.
EnsureListener(b) ==
  /\ At(b, "listener")
  /\ LET p == PortOf(b) IN
     \/ /\ Known(b) # 0 /\ listener[p] = Known(b)
        /\ HasListener(b, Known(b))
        /\ UNCHANGED <<cache, cloud>>
     \/ /\ listener[p] \notin {0, Alien, Known(b)}
        /\ HasListener(b, listener[p])
        /\ cache' = [cache EXCEPT ![p] = listener[p]]
        /\ UNCHANGED cloud
     \/ /\ listener[p] = Alien
        /\ listener' = [listener EXCEPT ![p] = 0]
        /\ cache' = [cache EXCEPT ![p] = 0]
        /\ NoListener(b)
        /\ UNCHANGED targets
     \/ /\ listener[p] = 0 /\ FreshIds # {}
        /\ listener' = [listener EXCEPT ![p] = NewId]
        /\ cache' = [cache EXCEPT ![p] = NewId]
        /\ HasListener(b, NewId)
        /\ UNCHANGED targets
  /\ UNCHANGED <<obj, copy, allocated, freed, abandoned, pods, fate>>

\* A call to find the listener fails, or the answer to the creation is lost.
EnsureListenerFails(b) ==
  /\ At(b, "listener") /\ Fault("cloud")
  /\ NoListener(b)
  /\ \/ UNCHANGED listener
     \/ /\ listener[PortOf(b)] = 0 /\ FreshIds # {}
        /\ listener' = [listener EXCEPT ![PortOf(b)] = NewId]
  /\ UNCHANGED <<obj, copy, memory, abandoned, targets, pods, acts>>

\* Another deletion of the batch names a listener that does not exist.
MateMissing(b) ==
  \E d \in Bindings \ {b} :
    /\ At(d, "remove") /\ worker[d].obj.listener # 0
    /\ listener[PortOf(d)] # worker[d].obj.listener

\* The deletion of a listener that is not as expected fails, its answer is lost, or it is told
\* ErrOtherListenerNotFound: the worker goes on without the port.
UnexpectedStays(b) ==
  /\ At(b, "listener") /\ listener[PortOf(b)] = Alien
  /\ \/ Fault("cloud") /\ listener' \in {listener, [listener EXCEPT ![PortOf(b)] = 0]}
     \/ MateMissing(b) /\ UNCHANGED <<listener, faults>>
  /\ Goto(b, "drop")
  /\ UNCHANGED <<obj, copy, queued, memory, abandoned, targets, pods, acts>>

\* The listener the worker has, if it still exists.
HoldsListener(b) == listener[PortOf(b)] = worker[b].listener

Others(b) == IF HoldsListener(b) THEN targets[PortOf(b)] \ {worker[b].ip} ELSE {}

\* An address belongs to a pod whose binding has this listener in its status.
Owned(b, ip) == \E d \in Bindings : pod[d].ip = ip /\ copy[d].listener = worker[b].listener

\* ensurePortBound: what is registered besides the backend is deregistered, the backend is
\* registered.  If another pod has the listener, the binding leaves it alone and reports no error.
EnsurePortBound(b) ==
  /\ At(b, "bind")
  /\ \/ /\ \E ip \in Others(b) : Owned(b, ip)
        /\ Conclude(b, worker[b])
        /\ UNCHANGED targets
     \/ /\ \A ip \in Others(b) : ~Owned(b, ip)
        /\ targets' = [targets EXCEPT ![PortOf(b)] = IF HoldsListener(b) THEN {worker[b].ip} ELSE @]
        /\ Conclude(b, [worker[b] EXCEPT !.failed = ~HoldsListener(b)])
  /\ UNCHANGED <<obj, copy, memory, abandoned, listener, pods, fate>>

\* One of the calls fails, or the answer of the last is lost.
EnsurePortBoundFails(b) ==
  /\ At(b, "bind") /\ Fault("cloud")
  /\ Conclude(b, [worker[b] EXCEPT !.failed = TRUE])
  /\ \/ UNCHANGED targets
     \/ /\ HoldsListener(b) /\ \A ip \in Others(b) : ~Owned(b, ip)
        /\ \E T \in {targets[PortOf(b)] \ Others(b), {worker[b].ip}} :
             targets' = [targets EXCEPT ![PortOf(b)] = T]
  /\ UNCHANGED <<obj, copy, memory, abandoned, listener, pods, acts>>

\* RetryIfPossible reads the object again before it writes; the state the worker goes by is the
\* one it had.
Refetched(b) == Exists(copy[b]) /\ copy[b] = obj[b]

\* The status gets this port: the one it had stays in the allocator.
Replaces(b, port) == abandoned' = (abandoned \cup {obj[b].port}) \ {0, port}

Save(b) ==
  /\ At(b, "save") /\ Refetched(b)
  /\ LET new == [copy[b] EXCEPT !.port = PortOf(b), !.listener = worker[b].listener] IN
     /\ obj' = [obj EXCEPT ![b] = new]
     /\ Conclude(b, [worker[b] EXCEPT !.obj = [new EXCEPT !.state = worker[b].obj.state],
                                      !.fetched = TRUE])
  /\ Replaces(b, PortOf(b))
  /\ UNCHANGED <<copy, memory, cloud, pods, fate>>

\* The status is written without the port, which is not released, and the error is returned.
Drop(b) ==
  /\ At(b, "drop") /\ Refetched(b)
  /\ obj' = [obj EXCEPT ![b] = [copy[b] EXCEPT !.port = 0, !.listener = 0]]
  /\ Replaces(b, 0)
  /\ Requeue(b)
  /\ UNCHANGED <<copy, memory, cloud, pods, fate>>

BecomeBound(b) ==
  /\ At(b, "bound") /\ Refetched(b)
  /\ LET new == [copy[b] EXCEPT !.state = "Bound"] IN
     /\ obj' = [obj EXCEPT ![b] = new]
     /\ Becomes(b, [worker[b] EXCEPT !.obj = new, !.fetched = TRUE, !.at = "annotate"])
  /\ UNCHANGED <<copy, queued, memory, abandoned, cloud, pods, fate>>

\* The object is gone, the copies stay old for too long, or every attempt meets a conflict.
RetriesExhausted(b) ==
  /\ worker[b].at \in {"save", "drop", "bound"}
  /\ \/ ~Exists(copy[b]) /\ UNCHANGED faults
     \/ Exists(copy[b]) /\ copy[b] # obj[b] /\ Fault("stale")
     \/ Refetched(b) /\ Fault("write")
  /\ Requeue(b)
  /\ UNCHANGED <<obj, copy, memory, abandoned, cloud, pods, acts>>

\* ensureBackendStatusAnnotation: the patch goes to the pod of that name.
Annotate(b) ==
  /\ At(b, "annotate")
  /\ IF pod[b].uid = 0
     THEN Failing(b, worker[b]) /\ UNCHANGED pods
     ELSE /\ pod' = [pod EXCEPT ![b].mapping = PortOf(b)]
          /\ Becomes(b, Idle)
          /\ IF pod[b].mapping = PortOf(b) THEN UNCHANGED <<queued, podQueued>>
             ELSE Enqueue(b) /\ EnqueuePod(b)
  /\ UNCHANGED <<obj, copy, memory, abandoned, cloud, fate>>

\* ensureUnbound
Unbind(b) ==
  /\ At(b, "unbind")
  /\ \/ /\ Stop(b) /\ UNCHANGED faults
        /\ targets' = IF PortOf(b) # 0 /\ worker[b].obj.listener \in {listener[PortOf(b)]} \ {0}
                      THEN [targets EXCEPT ![PortOf(b)] = {}] ELSE targets
     \/ Fault("cloud") /\ Requeue(b) /\ UNCHANGED targets
  /\ UNCHANGED <<obj, copy, memory, abandoned, listener, pods, acts>>

-----------------------------------------------------------------------------
(* cleanup                                                                 *)

\* Mutant: what has no id has no listener.
NoIdKnown(b) == FALSE

\* The creation was not recorded.
NoId(b) == worker[b].obj.listener = 0

\* The listener at the port is deleted: by its id, or by the port without an id and after
\* ErrOtherListenerNotFound.
Deletable(b) ==
  PortOf(b) # 0 /\ (NoId(b) \/ worker[b].obj.listener = listener[PortOf(b)] \/ MateMissing(b))

DeleteAt(p) ==
  /\ listener' = [listener EXCEPT ![p] = 0]
  /\ targets' = [targets EXCEPT ![p] = {}]

\* The listener of the id does not exist: success.
KeepsListener(b) ==
  PortOf(b) # 0 => ~NoId(b) /\ worker[b].obj.listener # listener[PortOf(b)]

\* cleanupPortBinding
RemoveListener(b) ==
  /\ At(b, "remove")
  /\ cache' = [p \in Ports |-> IF p = PortOf(b) THEN 0 ELSE cache[p]]
  /\ \/ /\ Deletable(b) /\ DeleteAt(PortOf(b))
        /\ Goto(b, "mark") /\ UNCHANGED <<queued, faults>>
     \/ /\ KeepsListener(b) /\ UNCHANGED cloud
        /\ Goto(b, "mark") /\ UNCHANGED <<queued, faults>>
     \/ Fault("cloud") /\ Requeue(b) /\ UNCHANGED cloud
     \/ Fault("cloud") /\ Deletable(b) /\ DeleteAt(PortOf(b)) /\ Requeue(b)
  /\ UNCHANGED <<obj, copy, allocated, freed, abandoned, pods, acts>>

\* The ports are released and the controller of a pod that goes on is told (TriggerReconcile).
Release(b) ==
  /\ At(b, "release")
  /\ allocated' = allocated \ {PortOf(b)}
  /\ freed' = (freed \/ PortOf(b) \in allocated)
  /\ podQueued' = [podQueued EXCEPT ![b] = @ \/ Running(b)]
  /\ Goto(b, "dropFinalizer")
  /\ UNCHANGED <<obj, copy, queued, cache, abandoned, cloud, pod, fate>>

-----------------------------------------------------------------------------
(* The pod controller: syncCLBBinding.                                     *)

NewObject(b) ==
  [Absent EXCEPT !.state = "", !.owner = IF b \in Retained THEN 0 ELSE pod[b].uid,
                 !.disabled = pod[b].disabled]

Recreated(b) == copy[b].owner \notin {0, pod[b].uid}

PodSync(b) ==
  /\ podQueued[b] /\ Reads(b)
  /\ \/ /\ ~Running(b)
        /\ podQueued' = [podQueued EXCEPT ![b] = FALSE] /\ UNCHANGED obj
     \/ /\ Running(b) /\ ~Exists(copy[b])
        /\ podQueued' = [podQueued EXCEPT ![b] = FALSE]
        /\ obj' = [obj EXCEPT ![b] = IF Exists(@) THEN @ ELSE NewObject(b)]
     \/ /\ Running(b) /\ Exists(copy[b]) /\ (copy[b].deleted \/ Recreated(b))
        /\ UNCHANGED <<podQueued, obj>>
     \/ /\ Running(b) /\ Exists(copy[b]) /\ ~copy[b].deleted /\ ~Recreated(b)
        /\ IF copy[b].disabled = pod[b].disabled
           THEN podQueued' = [podQueued EXCEPT ![b] = FALSE] /\ UNCHANGED obj
           ELSE /\ podQueued' = [podQueued EXCEPT ![b] = copy[b] # obj[b]]
                /\ obj' = [obj EXCEPT ![b] = IF copy[b] = @ THEN [@ EXCEPT !.disabled = pod[b].disabled]
                                             ELSE @]
  /\ UNCHANGED <<copy, queued, worker, memory, abandoned, cloud, pod, acts>>

-----------------------------------------------------------------------------
(* Around the controllers.                                                 *)

\* The informer delivers the object as it is now; this wakes the worker.
Inform(b) ==
  /\ copy[b] # obj[b]
  /\ copy' = [copy EXCEPT ![b] = obj[b]]
  /\ Enqueue(b)
  /\ UNCHANGED <<obj, worker, memory, abandoned, cloud, pods, fate>>

Waiting(b) == copy[b].state \in {"", "Pending", "NoPortAvailable"}

\* The pool's status shows the released port; its event wakes the bindings that wait.
PoolReports ==
  /\ freed /\ freed' = FALSE
  /\ queued' = [b \in Bindings |-> queued[b] \/ Waiting(b)]
  /\ UNCHANGED <<obj, copy, worker, allocated, cache, abandoned, cloud, pods, fate>>

Deleted(o) == IF o.finalizer THEN [o EXCEPT !.deleted = TRUE] ELSE Absent

\* The garbage collector: the owner is gone.
Collect(b) ==
  /\ Exists(obj[b]) /\ ~obj[b].deleted /\ obj[b].owner \notin {0, pod[b].uid}
  /\ obj' = [obj EXCEPT ![b] = Deleted(@)]
  /\ UNCHANGED <<copy, queued, worker, memory, abandoned, cloud, pods, fate>>

\* A user deletes a binding its controller has seen: of one without the finalizer nothing is left
\* to clean up, and nobody tells the pod's controller.
BindingDeleted(b) ==
  /\ Act("binding") /\ obj[b].finalizer /\ ~obj[b].deleted
  /\ obj' = [obj EXCEPT ![b] = Deleted(@)]
  /\ UNCHANGED <<copy, queued, worker, memory, abandoned, cloud, pods, faults>>

PodChanges(b, new) ==
  /\ pod' = [pod EXCEPT ![b] = new]
  /\ Enqueue(b) /\ EnqueuePod(b)
  /\ UNCHANGED <<obj, copy, worker, memory, abandoned, cloud, faults>>

PodDeleted(b) ==
  Act("pod") /\ Running(b) /\ PodChanges(b, [pod[b] EXCEPT !.leaving = TRUE])

Switched(b) ==
  Act("switch") /\ Running(b) /\ PodChanges(b, [pod[b] EXCEPT !.disabled = ~@])

PodGone(b) == pod[b].leaving /\ PodChanges(b, NoPod) /\ UNCHANGED acts

PodCreated(b) ==
  pod[b].uid = 0 /\ PodChanges(b, [NoPod EXCEPT !.uid = 2]) /\ UNCHANGED acts

PodGetsIP(b) ==
  /\ Running(b) /\ pod[b].ip = 0
  /\ \E ip \in IPs \ {pod[d].ip : d \in Bindings} : PodChanges(b, [pod[b] EXCEPT !.ip = ip])
  /\ UNCHANGED acts

\* The ports of the bindings that have yet to release theirs.
Unfinished == {obj[b].port : b \in {d \in Bindings : ~obj[d].finalized}}

\* Mutant: the ports of bindings that are not bound yet are forgotten.
RestartForgets ==
  /\ Fault("restart")
  /\ worker' = [b \in Bindings |-> Idle] /\ copy' = obj
  /\ queued' = [b \in Bindings |-> TRUE] /\ podQueued' = queued'
  /\ allocated' = {obj[b].port : b \in {d \in Bindings : obj[d].state = "Bound"}} \ {0}
  /\ cache' = [p \in Ports |-> 0] /\ freed' = FALSE
  /\ abandoned' = {obj[b].port : b \in Bindings} \ (Unfinished \cup {0})
  /\ UNCHANGED <<obj, cloud, pod, acts>>

\* What is in memory is lost; initCache records the ports the objects have, the finalized ones too,
\* which nobody releases again.
Restart ==
  /\ Fault("restart")
  /\ worker' = [b \in Bindings |-> Idle] /\ copy' = obj
  /\ queued' = [b \in Bindings |-> TRUE] /\ podQueued' = queued'
  /\ allocated' = {obj[b].port : b \in Bindings} \ {0}
  /\ cache' = [p \in Ports |-> 0] /\ freed' = FALSE
  /\ abandoned' = {obj[b].port : b \in Bindings} \ (Unfinished \cup {0})
  /\ UNCHANGED <<obj, cloud, pod, acts>>

-----------------------------------------------------------------------------
Sync(b) ==
  \/ Allocate(b) \/ Backend(b)
  \/ EnsureListener(b) \/ EnsureListenerFails(b) \/ UnexpectedStays(b)
  \/ EnsurePortBound(b) \/ EnsurePortBoundFails(b)
  \/ Save(b) \/ Drop(b) \/ BecomeBound(b) \/ RetriesExhausted(b) \/ Annotate(b)
  \/ Unbind(b)

Cleanup(b) == RemoveListener(b) \/ Release(b)

Work(b) == Start(b) \/ Write(b) \/ WriteFails(b) \/ Sync(b) \/ Cleanup(b)

Cluster(b) == Inform(b) \/ Collect(b) \/ PodGone(b) \/ PodGetsIP(b)

User(b) == BindingDeleted(b) \/ PodDeleted(b) \/ PodCreated(b) \/ Switched(b)

System == PoolReports \/ \E b \in Bindings : Work(b) \/ PodSync(b) \/ Cluster(b)

Next == System \/ (\E b \in Bindings : User(b)) \/ Restart

Spec == Init /\ [][Next]_vars

\* While a worker, an informer, the garbage collector or the kubelet has something to do, one of
\* them does it.  That is less than each of them is promised, so what follows from it also
\* shows that they do not keep each other busy for ever.  Nobody has to delete, switch or create
\* anything.
Fairness == WF_vars(System)

FairSpec == Spec /\ Fairness
-----------------------------------------------------------------------------
(* Safety.                                                                 *)

\* The port of a binding that is not finalized is recorded in the allocator, so nobody else gets
\* it: it is released after the binding gave it up and never before, whatever fails in between.
HeldIsAllocated ==
  \A b \in Bindings : obj[b].port # 0 /\ ~obj[b].finalized => obj[b].port \in allocated

\* Two bindings that are in use never have the same port.
OneHolder ==
  \A b, d \in Bindings :
    obj[b].port = obj[d].port /\ obj[b].port # 0 /\ ~obj[b].finalized /\ ~obj[d].finalized => b = d

\* No port is lost: one that is recorded in the allocator is in the status of a binding that has
\* yet to release it or in the hands of a worker, unless it was dropped from a status or recorded
\* again by a restart, whatever fails.
NoLeak ==
  \A p \in allocated \ abandoned :
    \E b \in Bindings :
      \/ obj[b].port = p /\ (obj[b].finalized => At(b, "release"))
      \/ worker[b].port = p

\* No listener stays behind: a port nobody holds has no listener of the controller.
NothingLeftBehind == \A p \in Ports \ allocated : listener[p] \in {0, Alien}

\* The listener of a binding that is Bound exists.
BoundIsServed ==
  \A b \in Bindings : obj[b].state = "Bound" => listener[obj[b].port] = obj[b].listener

\* The listener of a binding is deleted by that binding's own worker only.
DeletedByOwner ==
  [][\A b \in Bindings :
       obj[b].listener # 0 /\ listener[obj[b].port] = obj[b].listener /\ ~obj[b].deleted
         => listener'[obj[b].port] = obj[b].listener]_vars

-----------------------------------------------------------------------------
(* Liveness.                                                               *)

Serving(b) ==
  /\ obj[b].state = "Bound" /\ ~obj[b].deleted
  /\ targets[obj[b].port] = {pod[b].ip} /\ pod[b].mapping = obj[b].port

\* Someone else's port: a binding that has yet to release it holds it, or it was abandoned.
Taken(b, p) ==
  /\ p \in allocated
  /\ p \in abandoned \/ \E d \in Bindings \ {b} : obj[d].port = p /\ ~obj[d].finalized

\* The binding waits for a port, and there is none for it.
Full(b) == obj[b].state = "NoPortAvailable" /\ \A p \in Ports : Taken(b, p)

\* When users leave the pods alone, every pod that wants a mapping gets one and keeps it, or has a
\* binding that waits for a port, whatever went wrong before.
PodsServed ==
  <>[](\A b \in Bindings : Running(b) /\ ~pod[b].disabled => Serving(b) \/ Full(b))

\* What was made for pods that are gone goes, and a mapping that is switched off serves nobody.
PodsForgotten ==
  <>[](\A b \in Bindings :
         /\ pod[b].uid = 0 /\ b \notin Retained => ~Exists(obj[b])
         /\ pod[b].disabled /\ obj[b].listener # 0 => targets[obj[b].port] = {})
=============================================================================
