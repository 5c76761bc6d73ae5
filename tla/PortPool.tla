------------------------------ MODULE PortPool ------------------------------
(***************************************************************************)
(* The in-memory port allocator under concurrent reconcilers.              *)
(*                                                                         *)
(* A reconcile worker per binding walks the ports of the binding's spec    *)
(* (ensurePortAllocated), takes listeners from one pool after the other    *)
(* (PortPools.AllocatePort), undoes what it took when a pool cannot serve  *)
(* it, and writes what it got to the binding's status.  The allocator      *)
(* holds a pool's lock only inside one call, so workers interleave between *)
(* any two pools and between any two releases.  The pool reconciler adds   *)
(* and removes pools and load balancers meanwhile.                         *)
(*                                                                         *)
(* An element of Pools stands for one PortPool struct: a pool that was     *)
(* removed does not come back under the same name in a behaviour.          *)
(***************************************************************************)
EXTENDS Ports, Sequences

CONSTANTS
  Bindings,   \* CLBPodBinding and CLBNodeBinding objects
  Pools,      \* port pools
  LBs,        \* load balancers
  Members,    \* Members[p]: the load balancers pool p may ever list
  PoolSpec,   \* PoolSpec[p]: the immutable spec of pool p and its quota
  PortSpec,   \* PortSpec[b]: spec.ports of binding b
  LbsReturn   \* may a load balancer come back to a pool it was removed from?

\* endPort is MaxUint16 and segmentLength is 0 when the spec leaves them out.
PoolSpecs == [startPort: Uint16, endPort: Uint16, segmentLength: Uint16, quota: Nat,
              precreate: BOOLEAN, tcp: Uint16, udp: Uint16]

PortSpecs == [pools: (SUBSET Pools) \ {{}}, protocol: Protocols, samePort: BOOLEAN]

ASSUME PoolSpecAssumption == PoolSpec \in [Pools -> PoolSpecs]
ASSUME PortSpecAssumption == PortSpec \in [Bindings -> Seq(PortSpecs)]
ASSUME MembersAssumption ==
  /\ Members \in [Pools -> SUBSET LBs]
  /\ \A p, q \in Pools : p # q => Members[p] \cap Members[q] = {}
ASSUME LbsReturnAssumption == LbsReturn \in BOOLEAN

VARIABLES
  poolState,  \* is the pool in the allocator's map: "absent", "registered", "removed"
  phase,      \* status.state of the pool
  lbs,        \* lbs[p]: the load balancers in the cache of pool p
  cache,      \* cache[p][l]: the keys recorded as allocated
  gone,       \* gone[p]: the load balancers that were removed from pool p
  spinning,   \* the pools whose lock is held by a loop that never ends
  cloud,      \* the load balancers that exist in the cloud
  pc,         \* where the worker of a binding is
  entry,      \* the spec.ports entry the worker is at
  left,       \* the pools it has not yet asked for this entry
  index,      \* the walk index of the same-port search
  taken,      \* what it took for this entry
  got,        \* what it took for the entries before
  drop,       \* what it is releasing
  held,       \* status.portBindings
  bound,      \* status.state is Bound
  lost,       \* the ports it removes from the status once they are released
  abandoned   \* history: what was dropped without being released

poolVars == <<poolState, phase, lbs, cache, gone, spinning, cloud>>
workVars == <<pc, entry, left, index, taken, got, drop>>
statusVars == <<held, bound, lost>>
vars == <<poolState, phase, lbs, cache, gone, spinning, cloud,
          pc, entry, left, index, taken, got, drop, held, bound, lost, abandoned>>

Allocation == [entry: Nat, pool: Pools, lb: LBs, port: ProtocolPort]

Unbinding == {"unbind", "unbindFailed"}

PCs == {"idle", "allocate", "range", "same", "undo", "undoSame", "write", "listen",
        "delete", "spin"} \cup Unbinding

\* Everything keeps its type: port numbers stay in uint16, a TCPUDP request never reaches the
\* cache or a status as such (portsToAllocate), pc is one of PCs.
TypeOK ==
  /\ poolState \in [Pools -> {"absent", "registered", "removed"}]
  /\ phase \in [Pools -> {"Pending", "Active", "Deleting"}]
  /\ lbs \in [Pools -> SUBSET LBs]
  /\ cache \in [Pools -> [LBs -> SUBSET ProtocolPort]]
  /\ gone \in [Pools -> SUBSET LBs]
  /\ spinning \in SUBSET Pools
  /\ cloud \in SUBSET LBs
  /\ pc \in [Bindings -> PCs]
  /\ entry \in [Bindings -> Nat \ {0}]
  /\ left \in [Bindings -> SUBSET Pools]
  /\ index \in [Bindings -> Uint16]
  /\ taken \in [Bindings -> SUBSET Allocation]
  /\ got \in [Bindings -> SUBSET Allocation]
  /\ drop \in [Bindings -> SUBSET Allocation]
  /\ held \in [Bindings -> SUBSET Allocation]
  /\ bound \in [Bindings -> BOOLEAN]
  /\ lost \in [Bindings -> SUBSET Allocation]
  /\ abandoned \in SUBSET Allocation

-----------------------------------------------------------------------------
(* What AllocatePort makes of the pools of a request.                      *)

Highest(S) == CHOOSE n \in S : \A m \in S : m <= n
Lowest(S) == CHOOSE n \in S : \A m \in S : n <= m

\* Mutant: the lowest start port of the pools.
LowestStartPort(P) == Lowest({PoolSpec[p].startPort : p \in P})

StartPort(P) == Highest({PoolSpec[p].startPort : p \in P})
EndPort(P) == Lowest({PoolSpec[p].endPort : p \in P})
SegmentLengths(P) == {PoolSpec[p].segmentLength : p \in P} \ {0}
SegmentLength(P) == IF SegmentLengths(P) = {} THEN 1 ELSE Highest(SegmentLengths(P))
Quotas(P) == {PoolSpec[p].quota : p \in P}
Quota(P) == Highest(Quotas(P))

MaxPort(p) ==
  IF PoolSpec[p].precreate
  THEN [enabled |-> TRUE, tcp |-> MaxPortOf(PoolSpec[p].startPort, PoolSpec[p].tcp),
                          udp |-> MaxPortOf(PoolSpec[p].startPort, PoolSpec[p].udp)]
  ELSE NoPrecreation

\* The checks that do not depend on the order in which the pools are visited.
Allocatable(P) ==
  /\ \A p \in P : poolState[p] = "registered" /\ phase[p] = "Active"
  /\ Cardinality(SegmentLengths(P)) <= 1
  /\ StartPort(P) <= EndPort(P)
  /\ Quota(P) > 0

\* A pool without a quota yet passes when it is visited before the others.
LookupSucceeds(P) == Allocatable(P) /\ Cardinality(Quotas(P) \ {0}) = 1
LookupFails(P) == ~Allocatable(P) \/ Cardinality(Quotas(P)) > 1

Request(b) == PortSpec[b][entry[b]]
RequestPort(b) == WalkPort(StartPort(Request(b).pools), SegmentLength(Request(b).pools), index[b])

\* The listeners a request needs at a port number.
Needed(r, port) ==
  PortsToAllocate(port, SegmentEnd(port, SegmentLength(r.pools)), r.protocol)

\* The walk indexes at which load balancer l of pool p can serve request r.
Takeable(r, p, l) ==
  TakeableAt(cache[p][l], MaxPort(p), StartPort(r.pools), EndPort(r.pools),
             SegmentLength(r.pools), r.protocol)

Room(r, p, V) == {l \in V : UnderQuota(cache[p][l], Quota(r.pools), r.protocol)}

IsLbExists(p, l) == poolState[p] = "registered" /\ l \in lbs[p]

Owned(b) == taken[b] \cup got[b] \cup drop[b] \cup held[b]

Slot(a) == [lb |-> a.lb, key |-> Key(a.port)]

-----------------------------------------------------------------------------
Init ==
  /\ poolState = [p \in Pools |-> "absent"]
  /\ phase = [p \in Pools |-> "Pending"]
  /\ lbs = [p \in Pools |-> {}]
  /\ cache = [p \in Pools |-> [l \in LBs |-> {}]]
  /\ gone = [p \in Pools |-> {}]
  /\ spinning = {}
  /\ cloud = LBs
  /\ pc = [b \in Bindings |-> "idle"]
  /\ entry = [b \in Bindings |-> 1]
  /\ left = [b \in Bindings |-> {}]
  /\ index = [b \in Bindings |-> 0]
  /\ taken = [b \in Bindings |-> {}]
  /\ got = [b \in Bindings |-> {}]
  /\ drop = [b \in Bindings |-> {}]
  /\ held = [b \in Bindings |-> {}]
  /\ bound = [b \in Bindings |-> FALSE]
  /\ lost = [b \in Bindings |-> {}]
  /\ abandoned = {}

-----------------------------------------------------------------------------
(* The pool reconciler and the cloud.                                      *)

EnsurePool(p) ==
  /\ poolState[p] = "absent"
  /\ poolState' = [poolState EXCEPT ![p] = "registered"]
  /\ UNCHANGED <<phase, lbs, cache, gone, spinning, cloud, workVars, statusVars, abandoned>>

SetPhase(p, state) ==
  /\ phase' = [phase EXCEPT ![p] = state]
  /\ UNCHANGED <<poolState, lbs, cache, gone, spinning, cloud, workVars, statusVars, abandoned>>

\* The load balancers are in place.
ActivatePool(p) == poolState[p] = "registered" /\ phase[p] = "Pending" /\ SetPhase(p, "Active")

DeletePool(p) == poolState[p] = "registered" /\ phase[p] # "Deleting" /\ SetPhase(p, "Deleting")

\* Workers that already looked the pool up keep using the struct.
RemovePool(p) ==
  /\ poolState[p] = "registered" /\ phase[p] = "Deleting"
  /\ poolState' = [poolState EXCEPT ![p] = "removed"]
  /\ UNCHANGED <<phase, lbs, cache, gone, spinning, cloud, workVars, statusVars, abandoned>>

\* The load balancers of p become S; what is added starts with an empty cache.
SetLbs(p, S) ==
  /\ lbs' = [lbs EXCEPT ![p] = S]
  /\ cache' = [cache EXCEPT ![p] = [l \in LBs |-> IF l \in S \cap lbs[p] THEN @[l] ELSE {}]]
  /\ gone' = [gone EXCEPT ![p] = @ \cup (lbs[p] \ S)]
  /\ UNCHANGED <<poolState, phase, spinning, cloud, workVars, statusVars, abandoned>>

\* An empty list is ignored.
EnsureLbIds(p, S) ==
  /\ poolState[p] = "registered" /\ phase[p] # "Deleting" /\ p \notin spinning
  /\ S # {} /\ S # lbs[p]
  /\ LbsReturn \/ S \cap gone[p] = {}
  /\ SetLbs(p, S)

RemoveLB(p, l) ==
  /\ poolState[p] = "registered" /\ phase[p] # "Deleting" /\ p \notin spinning
  /\ l \in lbs[p]
  /\ SetLbs(p, lbs[p] \ {l})

DeleteCloudLb(l) ==
  /\ l \in cloud
  /\ cloud' = cloud \ {l}
  /\ UNCHANGED <<poolState, phase, lbs, cache, gone, spinning, workVars, statusVars, abandoned>>

-----------------------------------------------------------------------------
(* ensurePortAllocated: the entries of spec.ports.                         *)

Goto(b, label) == pc' = [pc EXCEPT ![b] = label]

\* A reconcile that fails writes another state than Bound, if the write is accepted.
LeaveBound(b) == bound' \in {bound, [bound EXCEPT ![b] = FALSE]}

\* The walk over the entries is over, its local variables are dead.
Forget(b) ==
  /\ entry' = [entry EXCEPT ![b] = 1]
  /\ left' = [left EXCEPT ![b] = {}]
  /\ index' = [index EXCEPT ![b] = 0]

StartSync(b) ==
  /\ pc[b] = "idle"
  /\ Goto(b, "allocate")
  /\ UNCHANGED <<poolVars, entry, left, index, taken, got, drop, statusVars, abandoned>>

\* An entry with a port in any of its pools counts as allocated.
Satisfied(b) == \E a \in held[b] : a.entry = entry[b]

AtEntry(b) == pc[b] = "allocate" /\ entry[b] <= Len(PortSpec[b])

SkipEntry(b) ==
  /\ AtEntry(b) /\ Satisfied(b)
  /\ entry' = [entry EXCEPT ![b] = @ + 1]
  /\ UNCHANGED <<poolVars, pc, left, index, taken, got, drop, statusVars, abandoned>>

\* Mutant: what the failing request took from other pools is not released.
ReleaseGot(b, label) ==
  /\ drop' = [drop EXCEPT ![b] = got[b]]
  /\ taken' = [taken EXCEPT ![b] = {}]
  /\ got' = [got EXCEPT ![b] = {}]
  /\ Goto(b, label)
  /\ Forget(b)
  /\ UNCHANGED <<poolVars, statusVars, abandoned>>

\* releasePorts: everything taken in this pass is released, one port at a time.
ReleasePorts(b, label) ==
  /\ drop' = [drop EXCEPT ![b] = taken[b] \cup got[b]]
  /\ taken' = [taken EXCEPT ![b] = {}]
  /\ got' = [got EXCEPT ![b] = {}]
  /\ Goto(b, label)
  /\ Forget(b)
  /\ UNCHANGED <<poolVars, statusVars, abandoned>>

Precreated(r) ==
  \A p \in r.pools : poolState[p] = "registered" => IsProtocolPrecreated(MaxPort(p), r.protocol)

\* A missing certificate, or a protocol without pre-created listeners.
RefuseEntry(b) ==
  /\ AtEntry(b) /\ ~Satisfied(b)
  /\ Request(b).protocol \in {"TCP_SSL", "QUIC"} \/ ~Precreated(Request(b))
  /\ ReleasePorts(b, "undo")

\* Allocate returns an error: the reconcile ends and got is forgotten.
FailLookup(b) ==
  /\ AtEntry(b) /\ ~Satisfied(b) /\ Precreated(Request(b))
  /\ LookupFails(Request(b).pools)
  /\ abandoned' = abandoned \cup got[b]
  /\ got' = [got EXCEPT ![b] = {}]
  /\ Goto(b, "idle")
  /\ Forget(b)
  /\ LeaveBound(b)
  /\ UNCHANGED <<poolVars, taken, drop, held, lost>>

\* Mutant: only one of the pools is asked.
LookupOnePool(b) ==
  /\ AtEntry(b) /\ ~Satisfied(b) /\ Precreated(Request(b))
  /\ LookupSucceeds(Request(b).pools)
  /\ Goto(b, IF Request(b).samePort THEN "same" ELSE "range")
  /\ left' = [left EXCEPT ![b] = {CHOOSE p \in Request(b).pools : TRUE}]
  /\ UNCHANGED <<poolVars, entry, index, taken, got, drop, statusVars, abandoned>>

Lookup(b) ==
  /\ AtEntry(b) /\ ~Satisfied(b) /\ Precreated(Request(b))
  /\ LookupSucceeds(Request(b).pools)
  /\ Goto(b, IF Request(b).samePort THEN "same" ELSE "range")
  /\ left' = [left EXCEPT ![b] = Request(b).pools]
  /\ UNCHANGED <<poolVars, entry, index, taken, got, drop, statusVars, abandoned>>

-----------------------------------------------------------------------------
(* PortPools.AllocatePort.  V is the load balancers the pool offers: the   *)
(* blacklist hides some, and the policy decides which is asked first.      *)

\* Mutant: the protocol is recorded as it was requested.
RecordRaw(p, l, ports) == cache' = [cache EXCEPT ![p][l] = @ \cup {RawKey(q) : q \in ports}]

Record(p, l, ports) == cache' = [cache EXCEPT ![p][l] = @ \cup {Key(q) : q \in ports}]

\* tryAllocateFromLb succeeded; the last pool of the entry completes it.
Take(b, p, l, ports) ==
  LET new == {[entry |-> entry[b], pool |-> p, lb |-> l, port |-> q] : q \in ports}
      last == left[b] = {p}
  IN  /\ Record(p, l, ports)
      /\ left' = [left EXCEPT ![b] = @ \ {p}]
      /\ taken' = [taken EXCEPT ![b] = IF last THEN {} ELSE @ \cup new]
      /\ got' = [got EXCEPT ![b] = IF last THEN @ \cup taken[b] \cup new ELSE @]
      /\ entry' = [entry EXCEPT ![b] = IF last THEN @ + 1 ELSE @]
      /\ index' = [index EXCEPT ![b] = IF last THEN 0 ELSE @]
      /\ Goto(b, IF last THEN "allocate" ELSE pc[b])
      /\ UNCHANGED <<poolState, phase, lbs, gone, spinning, cloud, drop, statusVars, abandoned>>

Asks(b, p, label) == pc[b] = label /\ p \in left[b] /\ p \notin spinning

RangeTake(b, p) ==
  /\ Asks(b, p, "range")
  /\ \E l \in Room(Request(b), p, lbs[p]) :
       \E k \in First(Takeable(Request(b), p, l)) :
         Take(b, p, l, Needed(Request(b), WalkPort(StartPort(Request(b).pools),
                                                   SegmentLength(Request(b).pools), k)))

\* Mutant: the early return for an empty pool keeps the lock.
RangeFailLocked(b, p) ==
  /\ Asks(b, p, "range")
  /\ lbs[p] = {}
  /\ spinning' = spinning \cup {p}
  /\ drop' = [drop EXCEPT ![b] = taken[b] \cup got[b]]
  /\ taken' = [taken EXCEPT ![b] = {}]
  /\ got' = [got EXCEPT ![b] = {}]
  /\ Goto(b, "undo")
  /\ Forget(b)
  /\ UNCHANGED <<poolState, phase, lbs, cache, gone, cloud, statusVars, abandoned>>

\* No load balancer has a port, or none is under its quota: all or nothing.
RangeFail(b, p) ==
  /\ Asks(b, p, "range")
  /\ \E V \in SUBSET lbs[p] :
       \A l \in Room(Request(b), p, V) :
         /\ Takeable(Request(b), p, l) = {}
         /\ ~Endless(StartPort(Request(b).pools), EndPort(Request(b).pools),
                     SegmentLength(Request(b).pools))
  /\ ReleasePorts(b, "undo")

\* The walk over a full load balancer never ends, under the pool's lock.
RangeSpin(b, p) ==
  /\ Asks(b, p, "range")
  /\ Endless(StartPort(Request(b).pools), EndPort(Request(b).pools),
             SegmentLength(Request(b).pools))
  /\ \E l \in Room(Request(b), p, lbs[p]) : Takeable(Request(b), p, l) = {}
  /\ spinning' = spinning \cup {p}
  /\ Goto(b, "spin")
  /\ UNCHANGED <<poolState, phase, lbs, cache, gone, cloud, entry, left, index, taken, got,
                 drop, statusVars, abandoned>>

CanTakeAt(b, p, l) == CanTake(cache[p][l], MaxPort(p), Needed(Request(b), RequestPort(b)))

SameTake(b, p) ==
  /\ Asks(b, p, "same") /\ RequestPort(b) <= EndPort(Request(b).pools)
  /\ \E l \in Room(Request(b), p, lbs[p]) :
       /\ CanTakeAt(b, p, l)
       /\ Take(b, p, l, Needed(Request(b), RequestPort(b)))

\* Mutant: what other pools gave is kept when the next number is tried.
SameBusyKeeps(b, p) ==
  /\ Asks(b, p, "same") /\ RequestPort(b) <= EndPort(Request(b).pools)
  /\ \E V \in SUBSET lbs[p] :
       /\ Room(Request(b), p, V) # {}
       /\ \A l \in Room(Request(b), p, V) : ~CanTakeAt(b, p, l)
  /\ Goto(b, "undoSame")
  /\ UNCHANGED <<poolVars, entry, left, index, taken, got, drop, statusVars, abandoned>>

\* The port number is not free in this pool: what other pools gave is undone.
SameBusy(b, p) ==
  /\ Asks(b, p, "same") /\ RequestPort(b) <= EndPort(Request(b).pools)
  /\ \E V \in SUBSET lbs[p] :
       /\ Room(Request(b), p, V) # {}
       /\ \A l \in Room(Request(b), p, V) : ~CanTakeAt(b, p, l)
  /\ drop' = [drop EXCEPT ![b] = taken[b]]
  /\ taken' = [taken EXCEPT ![b] = {}]
  /\ Goto(b, "undoSame")
  /\ UNCHANGED <<poolVars, entry, left, index, got, statusVars, abandoned>>

\* Every offered load balancer is at its quota: no other port number is tried.
SameFull(b, p) ==
  /\ Asks(b, p, "same") /\ RequestPort(b) <= EndPort(Request(b).pools)
  /\ \E V \in SUBSET lbs[p] : Room(Request(b), p, V) = {}
  /\ ReleasePorts(b, "undo")

SameExhausted(b) ==
  /\ pc[b] = "same" /\ RequestPort(b) > EndPort(Request(b).pools)
  /\ ReleasePorts(b, "undo")

-----------------------------------------------------------------------------
(* Releasing, and the status of the binding.                               *)

\* Mutant: a port number is released for both protocols.
EraseNumber(a) ==
  cache' = [cache EXCEPT ![a.pool][a.lb] = {k \in @ : k.port # a.port.port}]

Erase(a) == cache' = [cache EXCEPT ![a.pool][a.lb] = @ \ {Key(a.port)}]

\* PortAllocation.Release goes through the struct the port was taken from.
ReleaseTaken(b, a) ==
  /\ pc[b] \in {"undo", "undoSame"} /\ a \in drop[b] /\ a.pool \notin spinning
  /\ Erase(a)
  /\ drop' = [drop EXCEPT ![b] = @ \ {a}]
  /\ UNCHANGED <<poolState, phase, lbs, gone, spinning, cloud, pc, entry, left, index, taken,
                 got, statusVars, abandoned>>

\* ReleaseBinding looks the pool up by name.
ReleaseBinding(b, a) ==
  /\ pc[b] \in Unbinding \cup {"delete"} /\ a \in drop[b] /\ a.pool \notin spinning
  /\ IF IsLbExists(a.pool, a.lb) THEN Erase(a) ELSE UNCHANGED cache
  /\ drop' = [drop EXCEPT ![b] = @ \ {a}]
  /\ UNCHANGED <<poolState, phase, lbs, gone, spinning, cloud, pc, entry, left, index, taken,
                 got, statusVars, abandoned>>

EndRelease(b) ==
  /\ pc[b] \in {"undo", "delete"} /\ drop[b] = {}
  /\ Goto(b, "idle")
  /\ LeaveBound(b)
  /\ UNCHANGED <<poolVars, entry, left, index, taken, got, drop, held, lost, abandoned>>

\* Mutant: the count of the walk's steps is not a uint16.
NextPortPast(b) ==
  /\ pc[b] = "undoSame" /\ drop[b] = {}
  /\ Goto(b, "same")
  /\ left' = [left EXCEPT ![b] = Request(b).pools]
  /\ index' = [index EXCEPT ![b] = @ + 1]
  /\ UNCHANGED <<poolVars, entry, taken, got, drop, statusVars, abandoned>>

NextPort(b) ==
  /\ pc[b] = "undoSame" /\ drop[b] = {}
  /\ Goto(b, "same")
  /\ left' = [left EXCEPT ![b] = Request(b).pools]
  /\ index' = [index EXCEPT ![b] = Wrap(@ + 1)]
  /\ UNCHANGED <<poolVars, entry, taken, got, drop, statusVars, abandoned>>

\* With something to record the status is written, else the listeners are next.
EndEntries(b) ==
  /\ pc[b] = "allocate" /\ entry[b] > Len(PortSpec[b])
  /\ Goto(b, IF got[b] # {} THEN "write" ELSE IF held[b] # {} THEN "listen" ELSE "idle")
  /\ Forget(b)
  /\ UNCHANGED <<poolVars, taken, got, drop, statusVars, abandoned>>

WriteStatus(b) ==
  /\ pc[b] = "write"
  /\ held' = [held EXCEPT ![b] = @ \cup got[b]]
  /\ bound' = [bound EXCEPT ![b] = FALSE]
  /\ got' = [got EXCEPT ![b] = {}]
  /\ Goto(b, "listen")
  /\ UNCHANGED <<poolVars, entry, left, index, taken, drop, lost, abandoned>>

\* The write is rejected, most often by a conflict with a newer version.
WriteFails(b) ==
  /\ pc[b] = "write"
  /\ ReleasePorts(b, "undo")

\* A port whose load balancer left the pool is given up, unless the binding is Bound.
Lost(b) == {a \in held[b] : ~bound[b] /\ ~IsLbExists(a.pool, a.lb)}

(***************************************************************************)
(* ensureBackendBindings: D are the lost ports whose listener could be     *)
(* deleted, they are released.  V are the ports that leave the status      *)
(* without a release: the cloud says that the load balancer does not       *)
(* exist, or the listener in place is not the expected one and deleting it *)
(* fails.                                                                  *)
(***************************************************************************)
EnsureListeners(b) ==
  /\ pc[b] = "listen"
  /\ \A a \in Lost(b) : a.pool \notin spinning
  /\ \E D \in SUBSET Lost(b), V \in SUBSET (held[b] \ Lost(b)) :
       /\ drop' = [drop EXCEPT ![b] = D]
       /\ lost' = [lost EXCEPT ![b] = D \cup V]
       /\ abandoned' = abandoned \cup V
       /\ Goto(b, IF D = Lost(b) /\ \A a \in held[b] \ D : a.lb \in cloud
                  THEN "unbind" ELSE "unbindFailed")
  /\ UNCHANGED <<poolVars, entry, left, index, taken, got, held, bound>>

\* What stays is written to the status.  Without an error the ports that stay are bound, and
\* the state becomes Bound unless the backend is not ready.
EndUnbind(b) ==
  /\ pc[b] \in Unbinding /\ drop[b] = {}
  /\ held' \in {held, [held EXCEPT ![b] = @ \ lost[b]]}
  /\ \/ LeaveBound(b)
     \/ /\ pc[b] = "unbind" /\ held'[b] = held[b] \ lost[b]
        /\ bound' = [bound EXCEPT ![b] = held'[b] # {}]  \* of no use without a port
  /\ lost' = [lost EXCEPT ![b] = {}]
  /\ Goto(b, "idle")
  /\ UNCHANGED <<poolVars, entry, left, index, taken, got, drop, abandoned>>

\* spec.disabled: the targets are removed, the ports stay.
Disable(b) ==
  /\ pc[b] = "idle" /\ bound[b]
  /\ bound' = [bound EXCEPT ![b] = FALSE]
  /\ UNCHANGED <<poolVars, workVars, held, lost, abandoned>>

\* Mutant: the ports are released before the binding is marked as finalized.
StartDeleteUnmarked(b) ==
  /\ pc[b] = "idle" /\ held[b] # {}
  /\ drop' = [drop EXCEPT ![b] = held[b]]
  /\ Goto(b, "delete")
  /\ UNCHANGED <<poolVars, entry, left, index, taken, got, statusVars, abandoned>>

\* cleanup: the binding is marked as finalized, then its ports are released.
StartDelete(b) ==
  /\ pc[b] = "idle" /\ held[b] # {}
  /\ drop' = [drop EXCEPT ![b] = held[b]]
  /\ held' = [held EXCEPT ![b] = {}]
  /\ bound' = [bound EXCEPT ![b] = FALSE]
  /\ Goto(b, "delete")
  /\ UNCHANGED <<poolVars, entry, left, index, taken, got, lost, abandoned>>

-----------------------------------------------------------------------------
Ask(b, p) ==
  \/ RangeTake(b, p) \/ RangeFail(b, p) \/ RangeSpin(b, p)
  \/ SameTake(b, p) \/ SameBusy(b, p) \/ SameFull(b, p)

Reconcile(b) ==
  \/ SkipEntry(b) \/ RefuseEntry(b) \/ FailLookup(b) \/ Lookup(b)
  \/ \E p \in Pools : Ask(b, p)
  \/ SameExhausted(b)
  \/ \E a \in drop[b] : ReleaseTaken(b, a) \/ ReleaseBinding(b, a)
  \/ EndRelease(b) \/ NextPort(b) \/ EndEntries(b)
  \/ WriteStatus(b) \/ WriteFails(b)
  \/ EnsureListeners(b) \/ EndUnbind(b)

PoolReconcile(p) ==
  \/ EnsurePool(p) \/ ActivatePool(p) \/ DeletePool(p) \/ RemovePool(p)
  \/ \E S \in SUBSET Members[p] : EnsureLbIds(p, S)
  \/ \E l \in Members[p] : RemoveLB(p, l)

Next ==
  \/ \E b \in Bindings : StartSync(b) \/ Disable(b) \/ StartDelete(b) \/ Reconcile(b)
  \/ \E p \in Pools : PoolReconcile(p)
  \/ \E l \in LBs : DeleteCloudLb(l)

Spec == Init /\ [][Next]_vars

\* A reconcile that began goes on: the worker goroutine is not stopped.
FairSpec == Spec /\ \A b \in Bindings : WF_vars(Reconcile(b))
-----------------------------------------------------------------------------
(* Safety.                                                                 *)

\* A port and layer-4 protocol of a load balancer is with one binding at most, counting
\* what workers hold between two steps, and once in that binding (tryAllocateFromLb).
Exclusive ==
  \A b, c \in Bindings : \A a \in Owned(b), d \in Owned(c) :
    Slot(a) = Slot(d) => b = c /\ a = d

\* What a binding or its worker has is recorded as allocated for as long as the pool
\* lists the load balancer, also while a same-port search is being undone.
Recorded ==
  \A b \in Bindings : \A a \in Owned(b) :
    a.lb \in lbs[a.pool] => Key(a.port) \in cache[a.pool][a.lb]

\* Nothing is recorded that nobody has, except what reconciles abandoned: no roll back,
\* failed write, removal or deletion leaves a port allocated.
NoGhost ==
  \A p \in Pools : \A l \in lbs[p] : poolState[p] = "registered" =>
    \A k \in cache[p][l] :
      \E a \in (UNION {Owned(b) : b \in Bindings}) \cup abandoned :
        a.pool = p /\ a.lb = l /\ Key(a.port) = k

\* A load balancer never has more listeners than its quota.
QuotaRespected ==
  \A p \in Pools, l \in LBs : Cardinality(cache[p][l]) <= PoolSpec[p].quota

\* Port numbers stay between the start port and the end port of their pool.
InRange ==
  \A b \in Bindings : \A a \in Owned(b) :
    PoolSpec[a.pool].startPort <= a.port.port /\ a.port.port <= PoolSpec[a.pool].endPort

LastPort(port) == IF port.endPort = 0 THEN port.port ELSE port.endPort

Overlap(q, r) ==
  /\ L4Protocol(q.protocol) = L4Protocol(r.protocol)
  /\ q.port <= LastPort(r) /\ r.port <= LastPort(q)

\* The walks of requests for P and for Q visit ports of one grid.
OneGrid(P, Q) ==
  /\ SegmentLength(P) = SegmentLength(Q)
  /\ \E n \in (- MaxUint16) .. MaxUint16 : StartPort(P) - StartPort(Q) = n * SegmentLength(P)

AskedOf(b, a) == PortSpec[b][a.entry].pools

\* Port segments of one load balancer overlap only where their requests walk different grids:
\* AllocatePort compares the first and the last port of a segment as one key.
SegmentsDisjoint ==
  \A b, c \in Bindings : \A a \in Owned(b), d \in Owned(c) :
    a.lb = d.lb /\ Overlap(a.port, d.port) =>
      a = d \/ ~OneGrid(AskedOf(b, a), AskedOf(c, d))

\* useSamePortAcrossPools: the recorded ports of an entry have one number.
SamePort ==
  \A b \in Bindings : \A a, d \in held[b] :
    a.entry = d.entry /\ PortSpec[b][a.entry].samePort => a.port.port = d.port.port

\* The listeners of entry e in a set of allocations.
ListenersIn(A, e) == {[pool |-> a.pool, protocol |-> a.port.protocol] : a \in {d \in A : d.entry = e}}

\* All listeners the entry asks for, in every pool.
AllListeners(r) == [pool: r.pools, protocol: ListenersOf(r.protocol)]

\* A write adds an entry's listeners in all pools or none of them (allocatePortAcrossPools,
\* allocateSamePortAcrossPools).
WholeEntries ==
  [][\A b \in Bindings : \A e \in DOMAIN PortSpec[b] :
       ListenersIn(held'[b] \ held[b], e) \in {{}, AllListeners(PortSpec[b][e])}]_held

\* No port stays allocated after the reconcile that took it failed.
NothingAbandoned == \A a \in abandoned : a.lb \notin cloud

-----------------------------------------------------------------------------
(* The allocator and its clients implement the leasing of slots.           *)

Slots == [lb: LBs, key: ProtocolPort]

Leases == [b \in Bindings |-> {Slot(a) : a \in held[b]}]

Lease == INSTANCE PortLease WITH lease <- Leases

ImplementsLease == Lease!Spec

-----------------------------------------------------------------------------
(* Liveness.                                                               *)

\* A reconcile ends, however often other workers and the pool reconciler get in between.
ReconcilesEnd == \A b \in Bindings : pc[b] # "idle" ~> pc[b] = "idle"

\* Every port the walk of b's request visits is below its end port.
WalksForEver(b) ==
  LET P == Request(b).pools IN Endless(StartPort(P), EndPort(P), SegmentLength(P))

\* It needs the lock of a pool that a walk never gives back.
Blocked(b) ==
  \E p \in spinning :
    /\ p \in left[b] \/ \E a \in drop[b] \cup Lost(b) : a.pool = p
    /\ \E c \in Bindings : pc[c] = "spin" /\ p \in left[c] /\ WalksForEver(c)

\* A worker comes back from every reconcile, or the reason is an endless walk: its own, with the
\* lock of the pool or (at one number across pools) without any, or that of another worker which
\* has the lock of a pool it needs.
StuckByEndlessWalk ==
  \A b \in Bindings :
    \/ []<>(pc[b] = "idle")
    \/ <>[](Blocked(b) \/ (pc[b] \in {"spin", "same", "undoSame"} /\ WalksForEver(b)))
=============================================================================
