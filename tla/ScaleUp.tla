------------------------------- MODULE ScaleUp -------------------------------
(***************************************************************************)
(* Growth of a pool on demand: spec.autoCreate is enabled and all load     *)
(* balancers are created by the controller.                                *)
(*                                                                         *)
(* A binding that finds no port sets an atomic flag (RequestScaleUp) and   *)
(* wakes the pool reconciler, which creates one load balancer per round    *)
(* (ensureLbStatus).  A second flag absorbs one request after a creation.  *)
(* The reconcilers read the pool from the informer cache, which lags       *)
(* behind the API server; its events wake the bindings that wait.          *)
(*                                                                         *)
(* A binding needs one port here; PortPool has the allocation itself.      *)
(***************************************************************************)
EXTENDS Integers, FiniteSets

CONSTANTS
  Bindings,          \* bindings that need a port of the pool
  CloudQuota,        \* load balancers the cloud account may still create
  Capacity,          \* ports of a load balancer
  MaxLoadBalancers,  \* spec.autoCreate.maxLoadBalancers
  Faults,            \* the kinds of faults that happen, see FaultKinds
  MaxFaults          \* bound: how many of them happen

\* The process restarts; the write of a binding's status, a call of the pool reconciler or the
\* creation of a load balancer fails; a load balancer or a binding is deleted.
FaultKinds == {"restart", "write", "pool", "creation", "load balancer", "binding"}

ASSUME ScaleUpAssumption ==
  /\ CloudQuota \in Nat /\ Capacity \in Nat \ {0}
  /\ MaxLoadBalancers \in Nat /\ MaxFaults \in Nat
  /\ Faults \subseteq FaultKinds

LBs == 1..CloudQuota
Ports == 1..Capacity

None == [lb |-> 0, port |-> 0]

VARIABLES
  requested,  \* scaleUpRequested
  completed,  \* scaleUpJustCompleted
  lbs,        \* the load balancers in the allocator
  used,       \* used[l]: the ports recorded as allocated
  cloud,      \* the load balancers that exist
  created,    \* how many were created
  stored,     \* the pool's status in the API server
  cached,     \* the informer's copy of it
  ppc,        \* where the pool reconciler is
  wake,       \* the pool is in the work queue
  base,       \* the status the pool reconciler read
  work,       \* the status it builds
  bpc,        \* where the worker of a binding is
  queued,     \* the binding is in the work queue
  state,      \* status.state of the binding
  place,      \* status.portBindings: the load balancer and the port, or None
  faults      \* the faults so far

allocVars == <<requested, completed, lbs, used>>
cloudVars == <<cloud, created>>
statusVars == <<stored, cached>>
poolVars == <<ppc, base, work>>
bindVars == <<bpc, queued, state, place>>
vars == <<allocVars, cloudVars, statusVars, poolVars, wake, bindVars, faults>>

\* An entry of status.loadbalancerStatuses; createCLB leaves the state empty.
Entries == [state: {"absent", "", "Running", "NotFound"}, allocated: 0..Capacity]

Absent == [state |-> "absent", allocated |-> 0]

NoStatus == [l \in LBs |-> Absent]

Recorded(status) == {l \in LBs : status[l].state # "absent"}

Running(status) == {l \in LBs : status[l].state = "Running"}

NotFound(status) == {l \in LBs : status[l].state = "NotFound"}

PoolPCs == {"idle", "ask", "clear", "create", "complete", "reset", "write"}

BindPCs == {"idle", "write", "request", "cas", "check", "giveUp", "mark"}

\* Everything keeps its type.
TypeOK ==
  /\ requested \in BOOLEAN /\ completed \in BOOLEAN /\ wake \in BOOLEAN
  /\ lbs \in SUBSET LBs /\ cloud \in SUBSET LBs
  /\ used \in [LBs -> SUBSET Ports]
  /\ created \in 0..CloudQuota /\ faults \in 0..MaxFaults
  /\ stored \in [LBs -> Entries] /\ cached \in [LBs -> Entries]
  /\ base \in [LBs -> Entries] /\ work \in [LBs -> Entries]
  /\ ppc \in PoolPCs
  /\ bpc \in [Bindings -> BindPCs]
  /\ queued \in [Bindings -> BOOLEAN]
  /\ state \in [Bindings -> {"Pending", "NoPortAvailable", "Allocated", "Bound", "Failed",
                             "Deleted"}]
  /\ place \in [Bindings -> [lb: LBs, port: Ports] \cup {None}]

Init ==
  /\ requested = FALSE /\ completed = FALSE /\ wake = TRUE
  /\ lbs = {} /\ cloud = {}
  /\ used = [l \in LBs |-> {}]
  /\ created = 0 /\ faults = 0
  /\ stored = NoStatus
  /\ cached = stored /\ base = stored /\ work = stored
  /\ ppc = "idle"
  /\ bpc = [b \in Bindings |-> "idle"]
  /\ queued = [b \in Bindings |-> TRUE]
  /\ state = [b \in Bindings |-> "Pending"]
  /\ place = [b \in Bindings |-> None]

-----------------------------------------------------------------------------
(* The binding reconciler.                                                 *)

Fault(kind) == kind \in Faults /\ faults < MaxFaults /\ faults' = faults + 1

Goto(b, label) == bpc' = [bpc EXCEPT ![b] = label]

Enqueue(b) == queued' = [queued EXCEPT ![b] = TRUE]

\* Released in the allocator, if the pool still lists the load balancer.
Released(b) == [l \in LBs |-> IF l = place[b].lb /\ l \in lbs THEN used[l] \ {place[b].port} ELSE used[l]]

\* Mutant: only the port is cleared.
UnplacePort(b) == place' = [place EXCEPT ![b].port = 0]

\* The binding has no port any more.
Unplace(b) == place' = [place EXCEPT ![b] = None]

Room == {l \in lbs : used[l] # Ports}

\* The binding is taken from the queue and has no port yet.
Allocate(b) ==
  /\ bpc[b] = "idle" /\ queued[b] /\ place[b] = None
  /\ queued' = [queued EXCEPT ![b] = FALSE]
  /\ \/ \E l \in Room : \E port \in Ports \ used[l] :
          /\ used' = [used EXCEPT ![l] = @ \cup {port}]
          /\ place' = [place EXCEPT ![b] = [lb |-> l, port |-> port]]
          /\ Goto(b, "write")
     \/ /\ Room = {}
        /\ Goto(b, "request")
        /\ UNCHANGED <<used, place>>
  /\ UNCHANGED <<requested, completed, lbs, cloudVars, statusVars, poolVars, wake, state, faults>>

\* The status write is an event for the binding, and the pool is notified.
WriteBinding(b) ==
  /\ bpc[b] = "write"
  /\ state' = [state EXCEPT ![b] = "Allocated"]
  /\ wake' = TRUE
  /\ Enqueue(b)
  /\ Goto(b, "idle")
  /\ UNCHANGED <<allocVars, cloudVars, statusVars, poolVars, place, faults>>

WriteBindingFails(b) ==
  /\ bpc[b] = "write" /\ Fault("write")
  /\ used' = Released(b)
  /\ Unplace(b)
  /\ Enqueue(b)
  /\ Goto(b, "idle")
  /\ UNCHANGED <<requested, completed, lbs, cloudVars, statusVars, poolVars, wake, state>>

\* ensureListener.  Not listed, unless Bound: the port is given up.  Not in the cloud: given up
\* too, it stays recorded, the pool is notified and the reconcile is retried.
Listen(b) ==
  LET unlisted == state[b] # "Bound" /\ place[b].lb \notin lbs
      missing == ~unlisted /\ place[b].lb \notin cloud
  IN  /\ bpc[b] = "idle" /\ queued[b] /\ place[b] # None
      /\ queued' = [queued EXCEPT ![b] = unlisted \/ missing]
      /\ place' = [place EXCEPT ![b] = IF unlisted \/ missing THEN None ELSE @]
      /\ state' = [state EXCEPT ![b] =
                     IF missing THEN "Failed" ELSE IF unlisted THEN @ ELSE "Bound"]
      /\ wake' = (wake \/ missing)
      /\ UNCHANGED <<allocVars, cloudVars, statusVars, poolVars, bpc, faults>>

\* RequestScaleUp, its first compare-and-swap: a round right after a creation is absorbed.
Request(b) ==
  /\ bpc[b] = "request"
  /\ completed' = FALSE
  /\ Goto(b, IF completed THEN "mark" ELSE "cas")
  /\ UNCHANGED <<requested, lbs, used, cloudVars, statusVars, poolVars, wake, queued, state,
                 place, faults>>

\* Its second one: only the first request goes on.
RequestCAS(b) ==
  /\ bpc[b] = "cas"
  /\ requested' = TRUE
  /\ Goto(b, IF requested THEN "mark" ELSE "check")
  /\ UNCHANGED <<completed, lbs, used, cloudVars, statusVars, poolVars, wake, queued, state,
                 place, faults>>

\* Mutant: the pool is not notified.
CheckUnnotified(b) ==
  /\ bpc[b] = "check"
  /\ Goto(b, IF Cardinality(Recorded(cached)) >= MaxLoadBalancers THEN "giveUp" ELSE "mark")
  /\ UNCHANGED <<allocVars, cloudVars, statusVars, poolVars, wake, queued, state, place, faults>>

\* tryRequestScaleUp counts every automatically created load balancer of the status, those
\* that were not found any more included.
Check(b) ==
  /\ bpc[b] = "check"
  /\ \/ /\ Cardinality(Recorded(cached)) >= MaxLoadBalancers
        /\ Goto(b, "giveUp")
        /\ UNCHANGED wake
     \/ /\ Cardinality(Recorded(cached)) < MaxLoadBalancers
        /\ wake' = TRUE
        /\ Goto(b, "mark")
  /\ UNCHANGED <<allocVars, cloudVars, statusVars, poolVars, queued, state, place, faults>>

GiveUp(b) ==
  /\ bpc[b] = "giveUp"
  /\ requested' = FALSE
  /\ Goto(b, "mark")
  /\ UNCHANGED <<completed, lbs, used, cloudVars, statusVars, poolVars, wake, queued, state,
                 place, faults>>

\* ensureState: a write that changes the status is an event for the binding itself.
MarkNoPort(b) ==
  /\ bpc[b] = "mark"
  /\ state' = [state EXCEPT ![b] = "NoPortAvailable"]
  /\ queued' = [queued EXCEPT ![b] = @ \/ state[b] # "NoPortAvailable"]
  /\ Goto(b, "idle")
  /\ UNCHANGED <<allocVars, cloudVars, statusVars, poolVars, wake, place, faults>>

\* The binding is deleted and its port released.
DeleteBinding(b) ==
  /\ bpc[b] = "idle" /\ place[b] # None /\ Fault("binding")
  /\ used' = Released(b)
  /\ wake' = (wake \/ place[b].lb \in lbs)
  /\ Unplace(b)
  /\ state' = [state EXCEPT ![b] = "Deleted"]
  /\ queued' = [queued EXCEPT ![b] = FALSE]
  /\ UNCHANGED <<requested, completed, lbs, cloudVars, statusVars, poolVars, bpc>>

-----------------------------------------------------------------------------
(* The pool reconciler.                                                    *)

\* EnsureLbIds: an empty list is ignored, what is added starts with an empty record.
EnsureLbIds(S) ==
  /\ lbs' = IF S = {} THEN lbs ELSE S
  /\ used' = [l \in LBs |-> IF l \in lbs \cap lbs' THEN used[l] ELSE {}]

\* getCLBInfo: what was not found once is not asked for again.
Found == (Recorded(cached) \ NotFound(cached)) \cap cloud

\* Created by the controller, and known by its tags only.
Tagged == cloud \ Recorded(cached)

\* The status with what was found and with tagged; what is gone is marked.
LbStatus(tagged) ==
  [l \in LBs |->
     IF l \in tagged THEN [state |-> "Running", allocated |-> 0]
     ELSE IF l \in Found THEN [state |-> "Running", allocated |-> Cardinality(used[l])]
     ELSE IF l \in Recorded(cached) THEN [cached[l] EXCEPT !.state = "NotFound"]
     ELSE Absent]

\* Mutant: load balancers are not looked for by their tags.
EnsureLbStatusUntagged ==
  /\ ppc = "idle" /\ wake
  /\ wake' = FALSE
  /\ base' = cached /\ work' = LbStatus({})
  /\ EnsureLbIds(Found)
  /\ ppc' = "ask"
  /\ UNCHANGED <<requested, completed, cloudVars, statusVars, bindVars, faults>>

\* ensureLbStatus up to EnsureLbIds, on the pool that the informer has: load balancers that
\* only their tags tell of are added, but not counted.
EnsureLbStatus ==
  /\ ppc = "idle" /\ wake
  /\ wake' = FALSE
  /\ base' = cached /\ work' = LbStatus(Tagged)
  /\ EnsureLbIds(Found \cup Tagged)
  /\ ppc' = "ask"
  /\ UNCHANGED <<requested, completed, cloudVars, statusVars, bindVars, faults>>

\* autoCreatedLbNum: those that were found and were in the status.
AutoCreatedLbNum == Cardinality(Running(work) \cap Recorded(base))

\* HasScaleUpRequest, and the limit.
AskRequest ==
  /\ ppc = "ask"
  /\ completed' = FALSE
  /\ ppc' = IF completed THEN "clear"
            ELSE IF ~requested THEN "write"
            ELSE IF AutoCreatedLbNum < MaxLoadBalancers THEN "create" ELSE "reset"
  /\ UNCHANGED <<requested, lbs, used, cloudVars, statusVars, base, work, wake,
                 bindVars, faults>>

ClearRequest ==
  /\ ppc = "clear"
  /\ requested' = FALSE
  /\ ppc' = "write"
  /\ UNCHANGED <<completed, lbs, used, cloudVars, statusVars, base, work, wake,
                 bindVars, faults>>

NewLb == created + 1

\* createCLB; the new load balancer goes to the allocator at once.
CreateCLB ==
  /\ ppc = "create" /\ created < CloudQuota
  /\ created' = NewLb
  /\ cloud' = cloud \cup {NewLb}
  /\ work' = [work EXCEPT ![NewLb] = [state |-> "", allocated |-> 0]]
  /\ EnsureLbIds(Running(work) \cup {NewLb})
  /\ ppc' = "complete"
  /\ UNCHANGED <<requested, completed, statusVars, base, wake, bindVars, faults>>

\* The reconcile is over, its local variables are dead.
EndPool ==
  /\ ppc' = "idle"
  /\ base' = NoStatus /\ work' = NoStatus

\* An error ends the reconcile, and it is queued again.
PoolError == EndPool /\ wake' = TRUE

\* Waiting for the creation fails, or it is refused.
CreateFails ==
  /\ ppc = "create"
  /\ \/ /\ created < CloudQuota /\ Fault("creation")
        /\ created' = NewLb
        /\ cloud' = cloud \cup {NewLb}
     \/ /\ created = CloudQuota
        /\ UNCHANGED <<created, cloud, faults>>
  /\ PoolError
  /\ UNCHANGED <<allocVars, statusVars, bindVars>>

MarkScaleUpCompleted ==
  /\ ppc = "complete"
  /\ completed' = TRUE
  /\ ppc' = "reset"
  /\ UNCHANGED <<requested, lbs, used, cloudVars, statusVars, base, work, wake,
                 bindVars, faults>>

ResetScaleUpRequest ==
  /\ ppc = "reset"
  /\ requested' = FALSE
  /\ ppc' = "write"
  /\ UNCHANGED <<completed, lbs, used, cloudVars, statusVars, base, work, wake,
                 bindVars, faults>>

\* Nothing to write: no change, or the informer has it already.
SkipWrite ==
  /\ ppc = "write" /\ (work = base \/ work = cached)
  /\ EndPool
  /\ UNCHANGED <<allocVars, cloudVars, statusVars, wake, bindVars, faults>>

\* The write is refused as long as the informer lags behind.
WritePool ==
  /\ ppc = "write" /\ work # base /\ work # cached
  /\ \/ cached = stored /\ stored' = work /\ EndPool /\ UNCHANGED wake
     \/ cached # stored /\ PoolError /\ UNCHANGED stored
  /\ UNCHANGED <<allocVars, cloudVars, cached, bindVars, faults>>

\* A call to the cloud fails after the flags were reset and before the status is written
\* (ensureListenerCache, ensureListenerPrecreate).
PoolFails ==
  /\ ppc = "write" /\ Fault("pool")
  /\ PoolError
  /\ UNCHANGED <<allocVars, cloudVars, statusVars, bindVars>>

-----------------------------------------------------------------------------
(* The informer, the cloud, and the process.                               *)

\* Mutant: a binding that met a full pool is not woken.
ShouldNotifyPending(b) == state[b] = "Pending"

\* shouldNotify: the bindings a change of the pool wakes.
ShouldNotify(b) == state[b] \in {"Pending", "NoPortAvailable"}

Deliver ==
  /\ cached # stored
  /\ cached' = stored
  /\ wake' = TRUE
  /\ queued' = [b \in Bindings |-> queued[b] \/ ShouldNotify(b)]
  /\ UNCHANGED <<allocVars, cloudVars, stored, poolVars, bpc, state, place, faults>>

DeleteCloudLb(l) ==
  /\ l \in cloud /\ Fault("load balancer")
  /\ cloud' = cloud \ {l}
  /\ UNCHANGED <<allocVars, created, statusVars, poolVars, wake, bindVars>>

\* The process restarts: the allocator is rebuilt from the statuses (initCache), a port that
\* was not written is forgotten, everything is reconciled again.
Restart ==
  LET kept == [b \in Bindings |-> IF bpc[b] = "write" THEN None ELSE place[b]]
      listed == Recorded(stored) \ NotFound(stored)
  IN  /\ Fault("restart")
      /\ requested' = FALSE /\ completed' = FALSE
      /\ lbs' = listed
      /\ used' = [l \in LBs |->
                    IF l \in listed
                    THEN {kept[b].port : b \in {c \in Bindings : kept[c].lb = l}} ELSE {}]
      /\ cached' = stored
      /\ EndPool /\ wake' = TRUE
      /\ place' = kept
      /\ bpc' = [b \in Bindings |-> "idle"]
      /\ queued' = [b \in Bindings |-> state[b] # "Deleted"]
      /\ UNCHANGED <<cloudVars, stored, state>>

-----------------------------------------------------------------------------
Bind(b) ==
  \/ Allocate(b) \/ WriteBinding(b) \/ WriteBindingFails(b) \/ Listen(b)
  \/ Request(b) \/ RequestCAS(b) \/ Check(b) \/ GiveUp(b) \/ MarkNoPort(b)

PoolStep ==
  \/ EnsureLbStatus \/ AskRequest \/ ClearRequest
  \/ CreateCLB \/ CreateFails \/ MarkScaleUpCompleted \/ ResetScaleUpRequest
  \/ SkipWrite \/ WritePool \/ PoolFails

Next ==
  \/ \E b \in Bindings : Bind(b) \/ DeleteBinding(b)
  \/ PoolStep
  \/ Deliver
  \/ \E l \in LBs : DeleteCloudLb(l)
  \/ Restart

Spec == Init /\ [][Next]_vars

\* Work queues hand out what is queued, workers go on, the informer catches up.
FairSpec ==
  /\ Spec
  /\ \A b \in Bindings : WF_vars(Bind(b))
  /\ WF_vars(PoolStep)
  /\ WF_vars(Deliver)

-----------------------------------------------------------------------------
(* Properties.                                                             *)

\* No request for scale-up is left behind: while the flag is set (so that every other binding's
\* request is dropped), the pool reconciler is queued or will still look at the flag, or the
\* binding that set it has not yet notified it.
RequestSeen ==
  requested => \/ wake
               \/ ppc \notin {"idle", "write"}
               \/ \E b \in Bindings : bpc[b] \in {"check", "giveUp"}

\* Between two rounds of the pool reconciler every load balancer that exists is in the pool's
\* status: none that was created is forgotten, whatever failed after its creation.
CreatedRecorded == ppc = "idle" /\ ~wake => cloud \subseteq Recorded(stored)

\* The controller creates no more load balancers than spec.autoCreate.maxLoadBalancers.
WithinLimit == Cardinality(cloud) <= MaxLoadBalancers

\* No port is with two bindings.
Exclusive == \A b, c \in Bindings : b # c /\ place[b] = place[c] => place[b] = None

Waiting(b) == place[b] = None /\ state[b] # "Deleted"

LimitReached == Cardinality(Recorded(stored)) >= MaxLoadBalancers \/ created = CloudQuota

\* A binding that waits for a port gets one, or the pool has as many load balancers as it may,
\* counting the deleted ones as tryRequestScaleUp does: no wake-up is lost between the two
\* flags, the queues and the lagging informer.
Served == \A b \in Bindings : Waiting(b) ~> (~Waiting(b) \/ LimitReached)

==================================================================================
