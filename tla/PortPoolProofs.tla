--------------------------- MODULE PortPoolProofs ---------------------------
(***************************************************************************)
(* Proofs about PortPool, for every set of bindings, pools and load        *)
(* balancers, every pool and binding spec, and every number of steps.      *)
(***************************************************************************)
EXTENDS PortPool, WellFoundedInduction, TLAPS

-----------------------------------------------------------------------------
(* The arithmetic of port numbers.                                         *)

\* Port arithmetic stays within uint16, whatever is added.
LEMMA WrapType ==
  ASSUME NEW n \in Int
  PROVE  Wrap(n) \in Uint16
BY MaxUint16Assumption DEF Wrap, Uint16

\* A nonempty set of natural numbers has a least element.
LEMMA LeastNat ==
  ASSUME NEW S \in SUBSET Nat, S # {}
  PROVE  \E n \in S : \A m \in S : n <= m
<1> DEFINE Less == OpToRel(<, Nat)
<1>1. \E n \in S : \A m \in S : <<m, n>> \notin Less
  BY WFMin, NatLessThanWellFounded
<1>2. \A n, m \in S : <<m, n>> \notin Less => n <= m
  BY DEF OpToRel
<1> QED BY <1>1, <1>2

\* The highest of some port numbers is one of them.
LEMMA HighestType ==
  ASSUME NEW S \in SUBSET Uint16, S # {}
  PROVE  Highest(S) \in Uint16
<1> DEFINE Gaps == {MaxUint16 - n : n \in S}
<1>1. Gaps \in SUBSET Nat
  <2>1. \A n \in S : MaxUint16 - n \in Nat
    BY MaxUint16Assumption DEF Uint16
  <2> QED BY <2>1
<1>a. Gaps # {}
  OBVIOUS
<1> HIDE DEF Gaps
<1>2. PICK r \in Gaps : \A s \in Gaps : r <= s
  BY <1>1, <1>a, LeastNat
<1>3. PICK n \in S : r = MaxUint16 - n
  BY DEF Gaps
<1>4. \A m \in S : m <= n
  BY <1>2, <1>3, MaxUint16Assumption DEF Gaps, Uint16
<1> QED BY <1>4 DEF Highest

\* The walk over the range of some pools starts at a port and advances by a uint16.
LEMMA RangeType ==
  ASSUME NEW P \in (SUBSET Pools) \ {{}}
  PROVE  StartPort(P) \in Uint16 /\ SegmentLength(P) \in Uint16 \cup {1}
<1>1. {PoolSpec[p].startPort : p \in P} \in SUBSET Uint16 /\ {PoolSpec[p].startPort : p \in P} # {}
  BY PoolSpecAssumption DEF PoolSpecs
<1>2. SegmentLengths(P) \in SUBSET Uint16
  BY PoolSpecAssumption DEF PoolSpecs, SegmentLengths
<1>3. StartPort(P) \in Uint16
  BY <1>1, HighestType DEF StartPort
<1> QED BY <1>2, <1>3, HighestType DEF SegmentLength

\* The walk visits ports.
LEMMA WalkPortType ==
  ASSUME NEW P \in (SUBSET Pools) \ {{}}, NEW k \in Nat
  PROVE  WalkPort(StartPort(P), SegmentLength(P), k) \in Uint16
<1>1. StartPort(P) + k * SegmentLength(P) \in Int
  BY RangeType DEF Uint16
<1> QED BY <1>1, WrapType DEF WalkPort

\* What a request needs at a port is a set of listeners.
LEMMA NeededType ==
  ASSUME NEW r \in PortSpecs, NEW port \in Uint16
  PROVE  Needed(r, port) \in SUBSET ProtocolPort
<1>1. SegmentEnd(port, SegmentLength(r.pools)) \in Uint16
  <2>1. SegmentLength(r.pools) \in Uint16 \cup {1}
    BY RangeType DEF PortSpecs
  <2>2. port + SegmentLength(r.pools) - 1 \in Int
    BY <2>1 DEF Uint16
  <2> QED BY <2>2, WrapType, MaxUint16Assumption DEF SegmentEnd, Uint16
<1>2. ListenersOf(r.protocol) \in SUBSET ListenerProtocols
  BY DEF PortSpecs, Protocols, ListenersOf, ListenerProtocols, L4Protocols
<1> QED BY <1>1, <1>2 DEF Needed, PortsToAllocate, ProtocolPort
\* A key is a port of a layer-4 protocol.
LEMMA KeyType ==
  ASSUME NEW q \in ProtocolPort
  PROVE  Key(q) \in ProtocolPort
BY DEF Key, L4Protocol, ProtocolPort, ListenerProtocols, L4Protocols

-----------------------------------------------------------------------------
(* Type correctness.                                                       *)

\* The entry a worker is at, while there is one, is an entry of the spec.
LEMMA RequestType ==
  ASSUME NEW b \in Bindings, TypeOK, entry[b] <= Len(PortSpec[b])
  PROVE  Request(b) \in PortSpecs
BY PortSpecAssumption DEF Request, TypeOK

\* Workers that ask a pool are at an entry of their spec.
AskingOK ==
  \A b \in Bindings : pc[b] \in {"range", "same", "undoSame"} => entry[b] <= Len(PortSpec[b])

Typed == TypeOK /\ AskingOK

\* Recording ports and completing an entry keeps the types.
LEMMA TakeType ==
  ASSUME NEW b \in Bindings, NEW p \in Pools, NEW l \in LBs, NEW ports \in SUBSET ProtocolPort,
         Typed, pc[b] \in {"range", "same"}, Take(b, p, l, ports)
  PROVE  Typed'
<1> DEFINE new == {[entry |-> entry[b], pool |-> p, lb |-> l, port |-> q] : q \in ports}
<1>1. new \in SUBSET Allocation
  BY DEF Typed, TypeOK, Allocation
<1>2. \A q \in ports : Key(q) \in ProtocolPort
  BY KeyType
<1>3. cache' \in [Pools -> [LBs -> SUBSET ProtocolPort]]
  BY <1>2 DEF Take, Record, Typed, TypeOK
<1>4. taken' \in [Bindings -> SUBSET Allocation] /\ got' \in [Bindings -> SUBSET Allocation]
  BY <1>1 DEF Take, Typed, TypeOK
<1>5. left' \in [Bindings -> SUBSET Pools] /\ entry' \in [Bindings -> Nat \ {0}]
  BY DEF Take, Typed, TypeOK
<1>6. index' \in [Bindings -> Uint16] /\ pc' \in [Bindings -> PCs]
  BY MaxUint16Assumption DEF Take, Typed, TypeOK, Goto, PCs, Uint16
<1>7. TypeOK'
  BY <1>3, <1>4, <1>5, <1>6 DEF Take, Typed, TypeOK, statusVars
<1>8. AskingOK'
  BY DEF Take, Goto, Typed, TypeOK, AskingOK
<1> QED BY <1>7, <1>8 DEF Typed

\* Every step keeps the types.
LEMMA TypeStep ==
  ASSUME Typed, [Next]_vars
  PROVE  Typed'
<1>1. ASSUME NEW p \in Pools, EnsurePool(p)
      PROVE  Typed'
  BY <1>1 DEF EnsurePool, workVars, statusVars, Typed, TypeOK, AskingOK
<1>2. ASSUME NEW p \in Pools, ActivatePool(p) \/ DeletePool(p)
      PROVE  Typed'
  BY <1>2 DEF ActivatePool, DeletePool, SetPhase, workVars, statusVars, Typed, TypeOK, AskingOK
<1>3. ASSUME NEW p \in Pools, RemovePool(p)
      PROVE  Typed'
  BY <1>3 DEF RemovePool, workVars, statusVars, Typed, TypeOK, AskingOK
<1>4. ASSUME NEW p \in Pools, NEW S \in SUBSET Members[p], EnsureLbIds(p, S)
      PROVE  Typed'
  BY <1>4, MembersAssumption DEF EnsureLbIds, workVars, statusVars, SetLbs, Typed, TypeOK, AskingOK
<1>5. ASSUME NEW p \in Pools, NEW l \in Members[p], RemoveLB(p, l)
      PROVE  Typed'
  BY <1>5, MembersAssumption DEF RemoveLB, workVars, statusVars, SetLbs, Typed, TypeOK, AskingOK
<1>6. ASSUME NEW l \in LBs, DeleteCloudLb(l)
      PROVE  Typed'
  BY <1>6 DEF DeleteCloudLb, workVars, statusVars, Typed, TypeOK, AskingOK
<1>7. ASSUME NEW b \in Bindings, StartSync(b)
      PROVE  Typed'
  BY <1>7 DEF StartSync, Goto, PCs, poolVars, statusVars, Typed, TypeOK, AskingOK
<1>8. ASSUME NEW b \in Bindings, SkipEntry(b)
      PROVE  Typed'
  BY <1>8 DEF SkipEntry, Goto, PCs, poolVars, statusVars, AtEntry, Typed, TypeOK, AskingOK
<1>9. ASSUME NEW b \in Bindings, RefuseEntry(b)
      PROVE  Typed'
  BY <1>9, MaxUint16Assumption DEF RefuseEntry, Goto, PCs, poolVars, statusVars, ReleasePorts, Forget, Typed, TypeOK, AskingOK, Uint16
<1>10. ASSUME NEW b \in Bindings, FailLookup(b)
      PROVE  Typed'
  <2>1. bound' \in [Bindings -> BOOLEAN]
    BY <1>10 DEF FailLookup, LeaveBound, Typed, TypeOK
  <2>2. got' \in [Bindings -> SUBSET Allocation] /\ abandoned' \in SUBSET Allocation
    BY <1>10 DEF FailLookup, Typed, TypeOK
  <2>3. pc' \in [Bindings -> PCs] /\ AskingOK'
    BY <1>10 DEF FailLookup, Goto, Forget, PCs, Typed, TypeOK, AskingOK
  <2>4. /\ entry' \in [Bindings -> Nat \ {0}]
        /\ left' \in [Bindings -> SUBSET Pools]
        /\ index' \in [Bindings -> Uint16]
    BY <1>10, MaxUint16Assumption DEF FailLookup, Forget, Typed, TypeOK, Uint16
  <2> QED BY <1>10, <2>1, <2>2, <2>3, <2>4 DEF FailLookup, poolVars, Typed, TypeOK
<1>11. ASSUME NEW b \in Bindings, Lookup(b)
      PROVE  Typed'
  BY <1>11, RequestType DEF Lookup, Goto, PCs, poolVars, statusVars, AtEntry, Typed, TypeOK, AskingOK, PortSpecs
<1>12. ASSUME NEW b \in Bindings, SameExhausted(b)
      PROVE  Typed'
  BY <1>12, MaxUint16Assumption DEF SameExhausted, Goto, PCs, poolVars, statusVars, ReleasePorts, Forget, Typed, TypeOK, AskingOK, Uint16
<1>13. ASSUME NEW b \in Bindings, EndRelease(b)
      PROVE  Typed'
  BY <1>13 DEF EndRelease, LeaveBound, Goto, PCs, poolVars, statusVars, Typed, TypeOK, AskingOK
<1>14. ASSUME NEW b \in Bindings, NextPort(b)
      PROVE  Typed'
  <2>1. Request(b) \in PortSpecs
    BY <1>14, RequestType DEF NextPort, Typed, AskingOK
  <2>2. Wrap(index[b] + 1) \in Uint16
    BY WrapType DEF Typed, TypeOK, Uint16
  <2> QED
    BY <1>14, <2>1, <2>2 DEF NextPort, Goto, PCs, poolVars, statusVars, Typed, TypeOK, AskingOK, PortSpecs
<1>15. ASSUME NEW b \in Bindings, EndEntries(b)
      PROVE  Typed'
  BY <1>15, MaxUint16Assumption DEF EndEntries, Goto, PCs, poolVars, statusVars, Forget, Typed, TypeOK, AskingOK, Uint16
<1>16. ASSUME NEW b \in Bindings, WriteStatus(b)
      PROVE  Typed'
  BY <1>16 DEF WriteStatus, Goto, PCs, poolVars, statusVars, Typed, TypeOK, AskingOK
<1>17. ASSUME NEW b \in Bindings, WriteFails(b)
      PROVE  Typed'
  BY <1>17, MaxUint16Assumption DEF WriteFails, Goto, PCs, poolVars, statusVars, ReleasePorts, Forget, Typed, TypeOK, AskingOK, Uint16
<1>18. ASSUME NEW b \in Bindings, EnsureListeners(b)
      PROVE  Typed'
  <2>1. PICK D \in SUBSET Lost(b), V \in SUBSET (held[b] \ Lost(b)) :
          /\ drop' = [drop EXCEPT ![b] = D]
          /\ lost' = [lost EXCEPT ![b] = D \cup V]
          /\ abandoned' = abandoned \cup V
          /\ Goto(b, IF D = Lost(b) /\ \A a \in held[b] \ D : a.lb \in cloud
                     THEN "unbind" ELSE "unbindFailed")
    BY <1>18 DEF EnsureListeners
  <2>2. D \subseteq held[b] /\ V \subseteq held[b] /\ held[b] \subseteq Allocation
    BY DEF Lost, Typed, TypeOK
  <2>3. /\ drop' \in [Bindings -> SUBSET Allocation]
        /\ lost' \in [Bindings -> SUBSET Allocation]
        /\ abandoned' \in SUBSET Allocation
    BY <2>1, <2>2 DEF Typed, TypeOK
  <2>4. pc' \in [Bindings -> PCs] /\ AskingOK'
    BY <1>18, <2>1 DEF EnsureListeners, Goto, PCs, Unbinding, Typed, TypeOK, AskingOK
  <2> QED BY <1>18, <2>3, <2>4 DEF EnsureListeners, poolVars, Typed, TypeOK
<1>19. ASSUME NEW b \in Bindings, EndUnbind(b)
      PROVE  Typed'
  <2>1. held' \in [Bindings -> SUBSET Allocation]
    BY <1>19 DEF EndUnbind, Typed, TypeOK
  <2>3. bound' \in [Bindings -> BOOLEAN]
    <3>1. CASE LeaveBound(b)
      BY <3>1 DEF LeaveBound, Typed, TypeOK
    <3>2. CASE bound' = [bound EXCEPT ![b] = held'[b] # {}]
      <4>1. (held'[b] # {}) \in BOOLEAN
        OBVIOUS
      <4> QED BY <3>2, <4>1 DEF Typed, TypeOK
    <3> QED BY <1>19, <3>1, <3>2 DEF EndUnbind
  <2>2. pc' \in [Bindings -> PCs] /\ AskingOK'
    BY <1>19 DEF EndUnbind, Goto, PCs, Unbinding, Typed, TypeOK, AskingOK
  <2> QED BY <1>19, <2>1, <2>2, <2>3 DEF EndUnbind, poolVars, Typed, TypeOK
<1>20. ASSUME NEW b \in Bindings, Disable(b)
      PROVE  Typed'
  BY <1>20 DEF Disable, poolVars, workVars, Typed, TypeOK, AskingOK
<1>22. ASSUME NEW b \in Bindings, StartDelete(b)
      PROVE  Typed'
  BY <1>22 DEF StartDelete, Goto, PCs, poolVars, statusVars, Typed, TypeOK, AskingOK
<1>23. ASSUME NEW b \in Bindings, NEW p \in Pools, RangeFail(b, p)
      PROVE  Typed'
  BY <1>23, MaxUint16Assumption DEF RangeFail, Goto, PCs, poolVars, statusVars, ReleasePorts, Forget, Typed, TypeOK, AskingOK, Uint16
<1>24. ASSUME NEW b \in Bindings, NEW p \in Pools, RangeSpin(b, p)
      PROVE  Typed'
  BY <1>24 DEF RangeSpin, Goto, PCs, poolVars, statusVars, Asks, Typed, TypeOK, AskingOK
<1>25. ASSUME NEW b \in Bindings, NEW p \in Pools, SameBusy(b, p)
      PROVE  Typed'
  BY <1>25 DEF SameBusy, Goto, PCs, poolVars, statusVars, Asks, Typed, TypeOK, AskingOK
<1>26. ASSUME NEW b \in Bindings, NEW p \in Pools, SameFull(b, p)
      PROVE  Typed'
  BY <1>26, MaxUint16Assumption DEF SameFull, Goto, PCs, poolVars, statusVars, ReleasePorts, Forget, Typed, TypeOK, AskingOK, Uint16
<1>27. ASSUME NEW b \in Bindings, NEW a \in drop[b], ReleaseTaken(b, a)
      PROVE  Typed'
  BY <1>27 DEF ReleaseTaken, statusVars, Erase, Allocation, Typed, TypeOK, AskingOK
<1>28. ASSUME NEW b \in Bindings, NEW a \in drop[b], ReleaseBinding(b, a)
      PROVE  Typed'
  <2>1. cache' \in [Pools -> [LBs -> SUBSET ProtocolPort]]
    <3>1. CASE IsLbExists(a.pool, a.lb)
      <4>1. Erase(a)
        BY <1>28, <3>1 DEF ReleaseBinding
      <4>2. a.pool \in Pools /\ a.lb \in LBs
        BY DEF Typed, TypeOK, Allocation
      <4> QED BY <4>1, <4>2 DEF Erase, Typed, TypeOK
    <3>2. CASE ~IsLbExists(a.pool, a.lb)
      BY <1>28, <3>2 DEF ReleaseBinding, Typed, TypeOK
    <3> QED BY <3>1, <3>2
  <2> QED BY <1>28, <2>1 DEF ReleaseBinding, statusVars, Typed, TypeOK, AskingOK
<1>29. ASSUME NEW b \in Bindings, NEW p \in Pools, RangeTake(b, p)
      PROVE  Typed'
  <2>1. pc[b] = "range" /\ entry[b] <= Len(PortSpec[b])
    BY <1>29 DEF RangeTake, Asks, Typed, AskingOK
  <2>2. Request(b) \in PortSpecs
    BY <2>1, RequestType DEF Typed
  <2>3. PICK l \in LBs, k \in Nat :
          Take(b, p, l, Needed(Request(b), WalkPort(StartPort(Request(b).pools),
                                                    SegmentLength(Request(b).pools), k)))
    BY <1>29 DEF RangeTake, Typed, TypeOK, Room, First, Takeable, TakeableAt, Walk, Uint16
  <2>4. WalkPort(StartPort(Request(b).pools), SegmentLength(Request(b).pools), k) \in Uint16
    BY <2>2, WalkPortType DEF PortSpecs
  <2>5. Needed(Request(b), WalkPort(StartPort(Request(b).pools), SegmentLength(Request(b).pools), k))
          \in SUBSET ProtocolPort
    BY <2>2, <2>4, NeededType
  <2> QED BY <2>1, <2>3, <2>5, TakeType
<1>30. ASSUME NEW b \in Bindings, NEW p \in Pools, SameTake(b, p)
      PROVE  Typed'
  <2>1. pc[b] = "same" /\ entry[b] <= Len(PortSpec[b])
    BY <1>30 DEF SameTake, Asks, Typed, AskingOK
  <2>2. Request(b) \in PortSpecs
    BY <2>1, RequestType DEF Typed
  <2>3. PICK l \in LBs : Take(b, p, l, Needed(Request(b), RequestPort(b)))
    BY <1>30 DEF SameTake, Typed, TypeOK, Room
  <2>4. RequestPort(b) \in Uint16
    <3>1. index[b] \in Nat /\ Request(b).pools \in (SUBSET Pools) \ {{}}
      BY <2>2 DEF PortSpecs, Typed, TypeOK, Uint16
    <3> QED BY <3>1, WalkPortType DEF RequestPort
  <2>5. Needed(Request(b), RequestPort(b)) \in SUBSET ProtocolPort
    BY <2>2, <2>4, NeededType
  <2> QED BY <2>1, <2>3, <2>5, TakeType
<1>31. CASE UNCHANGED vars
  BY <1>31 DEF Typed, TypeOK, AskingOK, vars
<1> QED
  BY <1>1, <1>2, <1>3, <1>4, <1>5, <1>6, <1>7, <1>8, <1>9, <1>10, <1>11, <1>12, <1>13, <1>14, <1>15, <1>16, <1>17, <1>18, <1>19, <1>20, <1>22, <1>23, <1>24, <1>25, <1>26, <1>27, <1>28, <1>29, <1>30, <1>31 DEF Next, Reconcile, Ask, PoolReconcile

\* Every variable keeps its type (PortPool!TypeOK).
THEOREM TypeCorrect == Spec => []TypeOK
<1>1. Init => Typed
  BY MaxUint16Assumption DEF Init, Typed, TypeOK, AskingOK, PCs, Uint16
<1>2. Typed /\ [Next]_vars => Typed'
  BY TypeStep
<1>3. Typed => TypeOK
  BY DEF Typed
<1> QED BY <1>1, <1>2, <1>3, PTL DEF Spec
-----------------------------------------------------------------------------
(* Exclusive ports.  Exclusive is not inductive by itself: a port is only  *)
(* taken when its key is not recorded, so what is owned has to be          *)
(* recorded; a key is only erased when its port is released, so nothing    *)
(* may be owned twice; and a load balancer that enters a pool has an empty *)
(* record, so nobody may own a port of it yet.                             *)

\* Load balancers stay with the pool they are a member of and do not come back to it.
PoolsOK ==
  \A p \in Pools :
    /\ lbs[p] \cup gone[p] \subseteq Members[p]
    /\ lbs[p] \cap gone[p] = {}
    /\ poolState[p] = "absent" => lbs[p] = {} /\ gone[p] = {}

\* A port was taken from a load balancer of its pool.
Known == \A b \in Bindings : \A a \in Owned(b) : a.lb \in lbs[a.pool] \cup gone[a.pool]

\* What a worker may have in its hands at each step, and that it has nothing twice.
\* The ports it releases while they are still in the status left the pool for good.
Phases ==
  \A b \in Bindings :
    /\ pc[b] \notin {"range", "same", "spin"} => taken[b] = {}
    /\ pc[b] \in {"idle", "listen", "undo", "delete"} \cup Unbinding => got[b] = {}
    /\ pc[b] \notin {"undo", "undoSame", "delete"} \cup Unbinding => drop[b] = {}
    /\ taken[b] \cap got[b] = {} /\ got[b] \cap drop[b] = {}
    /\ (taken[b] \cup got[b]) \cap held[b] = {}
    /\ pc[b] \notin Unbinding => drop[b] \cap held[b] = {}
    /\ pc[b] \in Unbinding => \A a \in drop[b] : ~IsLbExists(a.pool, a.lb)

Inv == Typed /\ PoolsOK /\ Known /\ Phases /\ Recorded /\ Exclusive

\* Ports are given up or change hands inside one binding; the allocator does not change.
Kept ==
  /\ UNCHANGED <<poolState, lbs, cache, gone>>
  /\ \A b \in Bindings : Owned(b)' \subseteq Owned(b)

\* Steps that leave the allocator alone and only give ports up keep the invariant.
LEMMA KeptSafe ==
  ASSUME Inv, Kept, Typed', Phases'
  PROVE  Inv'
<1>1. PoolsOK'
  BY DEF Inv, Kept, PoolsOK
<1>2. Known'
  BY DEF Inv, Kept, Known
<1>3. Recorded'
  BY DEF Inv, Kept, Recorded
<1>4. Exclusive'
  BY DEF Inv, Kept, Exclusive
<1> QED BY <1>1, <1>2, <1>3, <1>4 DEF Inv

\* The steps of a worker that leave the allocator alone.
LEMMA WorkerKeeps ==
  ASSUME Inv, NEW b \in Bindings,
         \/ StartSync(b) \/ SkipEntry(b) \/ RefuseEntry(b) \/ FailLookup(b) \/ Lookup(b)
         \/ \E p \in Pools : RangeFail(b, p) \/ RangeSpin(b, p) \/ SameBusy(b, p) \/ SameFull(b, p)
         \/ SameExhausted(b) \/ EndRelease(b) \/ NextPort(b) \/ EndEntries(b)
         \/ WriteStatus(b) \/ WriteFails(b) \/ EnsureListeners(b) \/ EndUnbind(b)
         \/ Disable(b) \/ StartDelete(b)
  PROVE  Kept /\ Phases'
<1> USE DEF Inv, Typed, TypeOK, Goto, poolVars, statusVars, Unbinding
<1>1. CASE StartSync(b)
  <2>1. Kept
    BY <1>1 DEF StartSync, Kept, Owned
  <2>2. Phases'
    BY <1>1 DEF StartSync, Phases, IsLbExists
  <2> QED BY <2>1, <2>2
<1>2. CASE SkipEntry(b)
  <2>1. Kept
    BY <1>2 DEF SkipEntry, Kept, Owned
  <2>2. Phases'
    BY <1>2 DEF SkipEntry, Phases, IsLbExists, AtEntry
  <2> QED BY <2>1, <2>2
<1>3. CASE RefuseEntry(b)
  <2>1. Kept
    BY <1>3 DEF RefuseEntry, Kept, Owned, ReleasePorts
  <2>2. Phases'
    BY <1>3 DEF RefuseEntry, Phases, IsLbExists, ReleasePorts, AtEntry
  <2> QED BY <2>1, <2>2
<1>4. CASE FailLookup(b)
  <2>1. Kept
    BY <1>4 DEF FailLookup, Kept, Owned
  <2>2. Phases'
    BY <1>4 DEF FailLookup, Phases, IsLbExists, AtEntry
  <2> QED BY <2>1, <2>2
<1>5. CASE Lookup(b)
  <2>1. Kept
    BY <1>5 DEF Lookup, Kept, Owned
  <2>2. Phases'
    BY <1>5 DEF Lookup, Phases, IsLbExists, AtEntry
  <2> QED BY <2>1, <2>2
<1>6. CASE SameExhausted(b)
  <2>1. Kept
    BY <1>6 DEF SameExhausted, Kept, Owned, ReleasePorts
  <2>2. Phases'
    BY <1>6 DEF SameExhausted, Phases, IsLbExists, ReleasePorts
  <2> QED BY <2>1, <2>2
<1>7. CASE EndRelease(b)
  <2>1. Kept
    BY <1>7 DEF EndRelease, Kept, Owned
  <2>2. Phases'
    BY <1>7 DEF EndRelease, Phases, IsLbExists
  <2> QED BY <2>1, <2>2
<1>8. CASE NextPort(b)
  <2>1. Kept
    BY <1>8 DEF NextPort, Kept, Owned
  <2>2. Phases'
    BY <1>8 DEF NextPort, Phases, IsLbExists
  <2> QED BY <2>1, <2>2
<1>9. CASE EndEntries(b)
  <2>1. Kept
    BY <1>9 DEF EndEntries, Kept, Owned
  <2>2. Phases'
    BY <1>9 DEF EndEntries, Phases, IsLbExists
  <2> QED BY <2>1, <2>2
<1>10. CASE WriteStatus(b)
  <2>1. Kept
    BY <1>10 DEF WriteStatus, Kept, Owned
  <2>2. Phases'
    BY <1>10 DEF WriteStatus, Phases, IsLbExists
  <2> QED BY <2>1, <2>2
<1>11. CASE WriteFails(b)
  <2>1. Kept
    BY <1>11 DEF WriteFails, Kept, Owned, ReleasePorts
  <2>2. Phases'
    BY <1>11 DEF WriteFails, Phases, IsLbExists, ReleasePorts
  <2> QED BY <2>1, <2>2
<1>12. CASE EnsureListeners(b)
  <2>1. Kept
    BY <1>12 DEF EnsureListeners, Lost, Kept, Owned
  <2>2. Phases'
    BY <1>12 DEF EnsureListeners, Phases, IsLbExists, Lost
  <2> QED BY <2>1, <2>2
<1>13. CASE EndUnbind(b)
  <2>1. Kept
    BY <1>13 DEF EndUnbind, Kept, Owned
  <2>2. Phases'
    BY <1>13 DEF EndUnbind, Phases, IsLbExists
  <2> QED BY <2>1, <2>2
<1>14. CASE Disable(b)
  <2>1. Kept
    BY <1>14 DEF Disable, Kept, Owned, workVars
  <2>2. Phases'
    BY <1>14 DEF Disable, Phases, IsLbExists, workVars
  <2> QED BY <2>1, <2>2
<1>16. CASE StartDelete(b)
  <2>1. Kept
    BY <1>16 DEF StartDelete, Kept, Owned
  <2>2. Phases'
    BY <1>16 DEF StartDelete, Phases, IsLbExists
  <2> QED BY <2>1, <2>2
<1>17. ASSUME NEW p \in Pools, RangeFail(b, p)
      PROVE  Kept /\ Phases'
  <2>1. Kept
    BY <1>17 DEF RangeFail, Kept, Owned, ReleasePorts
  <2>2. Phases'
    BY <1>17 DEF RangeFail, Phases, IsLbExists, ReleasePorts, Asks
  <2> QED BY <2>1, <2>2
<1>18. ASSUME NEW p \in Pools, RangeSpin(b, p)
      PROVE  Kept /\ Phases'
  <2>1. Kept
    BY <1>18 DEF RangeSpin, Kept, Owned
  <2>2. Phases'
    BY <1>18 DEF RangeSpin, Phases, IsLbExists, Asks
  <2> QED BY <2>1, <2>2
<1>19. ASSUME NEW p \in Pools, SameBusy(b, p)
      PROVE  Kept /\ Phases'
  <2>1. Kept
    BY <1>19 DEF SameBusy, Kept, Owned
  <2>2. Phases'
    BY <1>19 DEF SameBusy, Phases, IsLbExists, Asks
  <2> QED BY <2>1, <2>2
<1>20. ASSUME NEW p \in Pools, SameFull(b, p)
      PROVE  Kept /\ Phases'
  <2>1. Kept
    BY <1>20 DEF SameFull, Kept, Owned, ReleasePorts
  <2>2. Phases'
    BY <1>20 DEF SameFull, Phases, IsLbExists, ReleasePorts, Asks
  <2> QED BY <2>1, <2>2
<1> QED BY <1>1, <1>2, <1>3, <1>4, <1>5, <1>6, <1>7, <1>8, <1>9, <1>10, <1>11, <1>12, <1>13, <1>14, <1>16, <1>17, <1>18, <1>19, <1>20

\* Setting the load balancers of a pool wipes no record of a port that is owned.
LEMMA SetLbsSafe ==
  ASSUME Inv, NEW p \in Pools, NEW S \in SUBSET Members[p], poolState[p] = "registered",
         S \cap gone[p] = {}, SetLbs(p, S), Typed'
  PROVE  Inv'
<1>1. /\ lbs' = [lbs EXCEPT ![p] = S]
      /\ cache' = [cache EXCEPT ![p] = [l \in LBs |-> IF l \in S \cap lbs[p] THEN cache[p][l] ELSE {}]]
      /\ gone' = [gone EXCEPT ![p] = gone[p] \cup (lbs[p] \ S)]
      /\ UNCHANGED <<poolState, workVars, statusVars>>
  BY DEF SetLbs
<1>2. \A b \in Bindings : Owned(b)' = Owned(b) /\ Owned(b) \subseteq Allocation
  BY <1>1 DEF Owned, workVars, statusVars, Inv, Typed, TypeOK
<1>3. PoolsOK'
  BY <1>1 DEF PoolsOK, Inv, Typed, TypeOK
<1>4. Known'
  BY <1>1, <1>2 DEF Known, Allocation, Inv, Typed, TypeOK
<1>5. Recorded'
  <2> SUFFICES ASSUME NEW b \in Bindings, NEW a \in Owned(b), a.lb \in lbs'[a.pool]
               PROVE  Key(a.port) \in cache'[a.pool][a.lb]
    BY <1>2 DEF Recorded
  <2>1. a.pool \in Pools /\ a.lb \in LBs
    BY <1>2 DEF Allocation
  <2>2. a.lb \in lbs[a.pool]
    BY <1>1, <2>1 DEF Inv, Known, Typed, TypeOK
  <2>3. Key(a.port) \in cache[a.pool][a.lb]
    BY <2>2 DEF Inv, Recorded
  <2> QED BY <1>1, <2>1, <2>2, <2>3 DEF Inv, Typed, TypeOK
<1>6. Exclusive'
  BY <1>2 DEF Exclusive, Inv
<1>7. Phases'
  <2>1. ASSUME NEW b \in Bindings, NEW a \in drop[b], ~IsLbExists(a.pool, a.lb)
        PROVE  ~IsLbExists(a.pool, a.lb)'
    <3>1. a \in Owned(b) /\ a.pool \in Pools
      BY <1>2 DEF Owned, Allocation
    <3> QED BY <1>1, <2>1, <3>1 DEF IsLbExists, Inv, Known, Typed, TypeOK
  <2> QED BY <1>1, <2>1 DEF Phases, workVars, statusVars, Inv
<1> QED BY <1>3, <1>4, <1>5, <1>6, <1>7 DEF Inv

\* The steps of the pool reconciler and of the cloud.
LEMMA PoolSafe ==
  ASSUME Inv, ~LbsReturn, NEW p \in Pools, PoolReconcile(p), Typed'
  PROVE  Inv'
<1>1. CASE EnsurePool(p)
  <2>1. UNCHANGED <<lbs, cache, gone, workVars, statusVars>> /\ lbs[p] = {}
    BY <1>1 DEF EnsurePool, Inv, PoolsOK
  <2>2. \A b \in Bindings : Owned(b)' = Owned(b)
    BY <2>1 DEF Owned, workVars, statusVars
  <2>3. \A q \in Pools, l \in LBs : IsLbExists(q, l)' => IsLbExists(q, l)
    BY <1>1, <2>1 DEF EnsurePool, IsLbExists, Inv, Typed, TypeOK
  <2>4. PoolsOK'
    BY <1>1, <2>1 DEF EnsurePool, PoolsOK, Inv, Typed, TypeOK
  <2>5. Known' /\ Recorded'
    BY <2>1, <2>2 DEF Known, Recorded, Inv
  <2>6. Exclusive'
    BY <2>2 DEF Exclusive, Inv
  <2>7. Phases'
    BY <2>1, <2>3 DEF Phases, workVars, statusVars, Inv, Typed, TypeOK, Allocation
  <2> QED BY <2>4, <2>5, <2>6, <2>7 DEF Inv
<1>2. CASE ActivatePool(p) \/ DeletePool(p)
  BY <1>2, KeptSafe DEF ActivatePool, DeletePool, SetPhase, Kept, Owned, Phases, IsLbExists, workVars, statusVars, Inv
<1>3. CASE RemovePool(p)
  <2>1. UNCHANGED <<lbs, cache, gone, workVars, statusVars>>
    BY <1>3 DEF RemovePool
  <2>2. \A b \in Bindings : Owned(b)' = Owned(b)
    BY <2>1 DEF Owned, workVars, statusVars
  <2>3. \A q \in Pools, l \in LBs : IsLbExists(q, l)' => IsLbExists(q, l)
    BY <1>3 DEF RemovePool, IsLbExists, Inv, Typed, TypeOK
  <2>4. PoolsOK'
    BY <1>3, <2>1 DEF RemovePool, PoolsOK, Inv, Typed, TypeOK
  <2>5. Known' /\ Recorded'
    BY <2>1, <2>2 DEF Known, Recorded, Inv
  <2>6. Exclusive'
    BY <2>2 DEF Exclusive, Inv
  <2>7. Phases'
    BY <2>1, <2>3 DEF Phases, workVars, statusVars, Inv, Typed, TypeOK, Allocation
  <2> QED BY <2>4, <2>5, <2>6, <2>7 DEF Inv
<1>4. ASSUME NEW S \in SUBSET Members[p], EnsureLbIds(p, S)
      PROVE  Inv'
  BY <1>4, SetLbsSafe DEF EnsureLbIds
<1>5. ASSUME NEW l \in Members[p], RemoveLB(p, l)
      PROVE  Inv'
  <2>1. (lbs[p] \ {l}) \in SUBSET Members[p] /\ (lbs[p] \ {l}) \cap gone[p] = {}
    BY DEF Inv, PoolsOK
  <2> QED BY <1>5, <2>1, SetLbsSafe DEF RemoveLB
<1> QED BY <1>1, <1>2, <1>3, <1>4, <1>5 DEF PoolReconcile

\* The listeners of a request are told apart by their keys.
LEMMA NeededKeys ==
  ASSUME NEW r \in PortSpecs, NEW port, NEW q \in Needed(r, port), NEW s \in Needed(r, port),
         Key(q) = Key(s)
  PROVE  q = s
<1> DEFINE e == SegmentEnd(port, SegmentLength(r.pools))
<1>1. PICK m \in ListenersOf(r.protocol) : q = [port |-> port, endPort |-> e, protocol |-> m]
  BY DEF Needed, PortsToAllocate
<1>2. PICK n \in ListenersOf(r.protocol) : s = [port |-> port, endPort |-> e, protocol |-> n]
  BY DEF Needed, PortsToAllocate
<1>3. L4Protocol(m) = L4Protocol(n)
  BY <1>1, <1>2 DEF Key
<1>4. m = n
  BY <1>3 DEF ListenersOf, L4Protocols, L4Protocol
<1> QED BY <1>1, <1>2, <1>4

\* Taking ports whose keys are not recorded keeps every port exclusive.
LEMMA TakeSafe ==
  ASSUME Inv, NEW b \in Bindings, NEW p \in Pools, NEW l \in lbs[p], NEW ports \in SUBSET ProtocolPort,
         pc[b] \in {"range", "same"}, Take(b, p, l, ports), Typed',
         \A q \in ports : Key(q) \notin cache[p][l],
         \A q, s \in ports : Key(q) = Key(s) => q = s
  PROVE  Inv'
<1> DEFINE new == {[entry |-> entry[b], pool |-> p, lb |-> l, port |-> q] : q \in ports}
<1>1. /\ cache' = [cache EXCEPT ![p][l] = cache[p][l] \cup {Key(q) : q \in ports}]
      /\ UNCHANGED <<poolState, lbs, gone, drop, held>>
      /\ \A c \in Bindings \ {b} : UNCHANGED <<pc[c], taken[c], got[c]>>
      /\ \/ /\ taken'[b] = {} /\ got'[b] = got[b] \cup taken[b] \cup new
            /\ pc'[b] = "allocate"
         \/ /\ taken'[b] = taken[b] \cup new /\ got'[b] = got[b]
            /\ pc'[b] = pc[b]
  BY DEF Take, Record, Goto, statusVars, Inv, Typed, TypeOK
<1>2. \A c \in Bindings : Owned(c) \subseteq Allocation
  BY DEF Owned, Inv, Typed, TypeOK
<1>3. /\ Owned(b)' \subseteq Owned(b) \cup new
      /\ \A c \in Bindings \ {b} : Owned(c)' = Owned(c)
  BY <1>1 DEF Owned
<1>4. \A a \in new : a.pool = p /\ a.lb = l /\ a.port \in ports /\ Key(a.port) \notin cache[p][l]
  OBVIOUS
<1>5. ASSUME NEW c \in Bindings, NEW a \in Owned(c), NEW d \in new
      PROVE  Slot(a) # Slot(d)
  <2>1. SUFFICES ASSUME a.lb = l, Key(a.port) = Key(d.port) PROVE FALSE
    BY <1>4 DEF Slot
  <2>2. a.pool \in Pools /\ l \in Members[a.pool] /\ l \in Members[p]
    BY <1>2, <2>1 DEF Allocation, Inv, Known, PoolsOK
  <2>3. a.pool = p
    BY <2>2, MembersAssumption
  <2> QED BY <1>4, <2>1, <2>3 DEF Inv, Recorded
<1>6. \A a, d \in new : Slot(a) = Slot(d) => a = d
  BY <1>4 DEF Slot
<1>7. PoolsOK'
  BY <1>1 DEF PoolsOK, Inv
<1>8. Known'
  BY <1>1, <1>3, <1>4 DEF Known, Inv
<1>9. Recorded'
  <2> SUFFICES ASSUME NEW c \in Bindings, NEW a \in Owned(c)', a.lb \in lbs[a.pool]
               PROVE  Key(a.port) \in cache'[a.pool][a.lb]
    BY <1>1 DEF Recorded
  <2>1. CASE a \in new
    BY <1>1, <1>4, <2>1 DEF Inv, Typed, TypeOK
  <2>2. CASE a \in Owned(c)
    <3>1. Key(a.port) \in cache[a.pool][a.lb]
      BY <2>2 DEF Inv, Recorded
    <3>2. a.pool \in Pools /\ a.lb \in LBs
      BY <1>2, <2>2 DEF Allocation
    <3> QED BY <1>1, <3>1, <3>2 DEF Inv, Typed, TypeOK
  <2> QED BY <1>3, <2>1, <2>2
<1>10. Exclusive'
  <2> SUFFICES ASSUME NEW c \in Bindings, NEW d \in Bindings, NEW a \in Owned(c)', NEW e \in Owned(d)',
                      Slot(a) = Slot(e)
               PROVE  c = d /\ a = e
    BY DEF Exclusive, Slot
  <2>1. CASE a \in Owned(c) /\ e \in Owned(d)
    BY <2>1 DEF Inv, Exclusive
  <2>2. CASE a \in new /\ c = b /\ e \in new /\ d = b
    BY <1>6, <2>2
  <2> QED BY <1>3, <1>5, <2>1, <2>2
<1>11. Phases'
  <2>1. new \cap Owned(b) = {}
    BY <1>5
  <2> QED BY <1>1, <2>1 DEF Phases, IsLbExists, Owned, Inv, Unbinding
<1> QED BY <1>7, <1>8, <1>9, <1>10, <1>11 DEF Inv

\* A worker takes listeners that are not recorded, from either search.
LEMMA SearchSafe ==
  ASSUME Inv, NEW b \in Bindings, NEW p \in Pools, RangeTake(b, p) \/ SameTake(b, p), Typed'
  PROVE  Inv'
<1>1. pc[b] \in {"range", "same"} /\ entry[b] <= Len(PortSpec[b])
  BY DEF RangeTake, SameTake, Asks, Inv, Typed, AskingOK
<1>2. Request(b) \in PortSpecs
  BY <1>1, RequestType DEF Inv, Typed
<1>3. PICK l \in lbs[p], port \in Uint16 :
        /\ Take(b, p, l, Needed(Request(b), port))
        /\ \A q \in Needed(Request(b), port) : Key(q) \notin cache[p][l]
  <2>1. CASE RangeTake(b, p)
    <3>0. PICK l \in lbs[p] :
            \E k \in First(Takeable(Request(b), p, l)) :
              Take(b, p, l, Needed(Request(b), WalkPort(StartPort(Request(b).pools),
                                                        SegmentLength(Request(b).pools), k)))
      BY <2>1 DEF RangeTake, Room
    <3>1. PICK k \in First(Takeable(Request(b), p, l)) :
            Take(b, p, l, Needed(Request(b), WalkPort(StartPort(Request(b).pools),
                                                      SegmentLength(Request(b).pools), k)))
      BY <3>0
    <3> DEFINE port == WalkPort(StartPort(Request(b).pools), SegmentLength(Request(b).pools), k)
    <3>2. k \in Nat /\ Request(b).pools \in (SUBSET Pools) \ {{}}
      BY <1>2 DEF First, Takeable, TakeableAt, Walk, Uint16, PortSpecs
    <3>3. port \in Uint16
      BY <3>2, WalkPortType
    <3>4. \A q \in Needed(Request(b), port) : Key(q) \notin cache[p][l]
      BY DEF First, Takeable, TakeableAt, CanTake, Needed
    <3> QED BY <3>1, <3>3, <3>4
  <2>2. CASE SameTake(b, p)
    <3>1. index[b] \in Nat /\ Request(b).pools \in (SUBSET Pools) \ {{}}
      BY <1>2 DEF PortSpecs, Inv, Typed, TypeOK, Uint16
    <3>2. RequestPort(b) \in Uint16
      BY <3>1, WalkPortType DEF RequestPort
    <3> QED BY <2>2, <3>2 DEF SameTake, Room, CanTakeAt, CanTake
  <2> QED BY <2>1, <2>2
<1>4. Needed(Request(b), port) \in SUBSET ProtocolPort
  BY <1>2, NeededType
<1>5. \A q, s \in Needed(Request(b), port) : Key(q) = Key(s) => q = s
  BY <1>2, NeededKeys
<1> QED BY <1>1, <1>3, <1>4, <1>5, TakeSafe

\* Erasing the key of a port that is released takes nobody else's record away.
LEMMA EraseSafe ==
  ASSUME Inv, NEW b \in Bindings, NEW a \in drop[b], pc[b] \in {"undo", "undoSame", "delete"},
         Erase(a), drop' = [drop EXCEPT ![b] = drop[b] \ {a}],
         UNCHANGED <<poolState, lbs, gone, pc, taken, got, statusVars>>, Typed'
  PROVE  Inv'
<1>1. a \in Allocation /\ a \in Owned(b)
  BY DEF Owned, Inv, Typed, TypeOK
<1>2. cache' = [cache EXCEPT ![a.pool][a.lb] = cache[a.pool][a.lb] \ {Key(a.port)}]
  BY DEF Erase
<1>3. \A c \in Bindings : Owned(c)' \subseteq Owned(c) /\ Owned(c) \subseteq Allocation
  BY DEF Owned, statusVars, Inv, Typed, TypeOK
<1>4. a \notin Owned(b)'
  BY DEF Owned, statusVars, Inv, Phases, Typed, TypeOK, Unbinding
<1>5. PoolsOK' /\ Known'
  BY <1>3 DEF PoolsOK, Known, Inv
<1>6. Recorded'
  <2> SUFFICES ASSUME NEW c \in Bindings, NEW d \in Owned(c)', d.lb \in lbs[d.pool]
               PROVE  Key(d.port) \in cache'[d.pool][d.lb]
    BY DEF Recorded
  <2>1. Key(d.port) \in cache[d.pool][d.lb]
    BY <1>3 DEF Inv, Recorded
  <2>2. ~(d.lb = a.lb /\ Key(d.port) = Key(a.port))
    BY <1>1, <1>3, <1>4 DEF Inv, Exclusive, Slot
  <2>3. d.pool \in Pools /\ d.lb \in LBs /\ a.pool \in Pools /\ a.lb \in LBs
    BY <1>1, <1>3 DEF Allocation
  <2> QED BY <1>2, <2>1, <2>2, <2>3 DEF Inv, Typed, TypeOK
<1>7. Exclusive'
  BY <1>3 DEF Exclusive, Inv
<1>8. Phases'
  BY DEF Phases, IsLbExists, statusVars, Inv, Typed, TypeOK
<1> QED BY <1>5, <1>6, <1>7, <1>8 DEF Inv

\* Every release of one port, of a request that failed or of a binding.
LEMMA ReleaseSafe ==
  ASSUME Inv, NEW b \in Bindings, NEW a \in drop[b], ReleaseTaken(b, a) \/ ReleaseBinding(b, a),
         Typed'
  PROVE  Inv'
<1>1. CASE ReleaseTaken(b, a)
  BY <1>1, EraseSafe DEF ReleaseTaken
<1>2. CASE ReleaseBinding(b, a) /\ IsLbExists(a.pool, a.lb)
  <2>1. pc[b] \notin Unbinding
    BY <1>2 DEF Inv, Phases
  <2> QED BY <1>2, <2>1, EraseSafe DEF ReleaseBinding
<1>3. CASE ReleaseBinding(b, a) /\ ~IsLbExists(a.pool, a.lb)
  <2>1. /\ drop' = [drop EXCEPT ![b] = drop[b] \ {a}]
        /\ UNCHANGED <<poolState, lbs, cache, gone, pc, taken, got, held>>
    BY <1>3 DEF ReleaseBinding, statusVars
  <2>2. Kept
    BY <2>1 DEF Kept, Owned, Inv, Typed, TypeOK
  <2>3. Phases'
    BY <2>1 DEF Phases, IsLbExists, Inv, Typed, TypeOK
  <2> QED BY <2>2, <2>3, KeptSafe
<1> QED BY <1>1, <1>2, <1>3

\* The invariant holds of every state, as long as no load balancer comes back to a pool
\* that it was removed from.
LEMMA InvStep ==
  ASSUME Inv, ~LbsReturn, [Next]_vars
  PROVE  Inv'
<1> USE TypeStep DEF Inv
<1>1. Typed'
  OBVIOUS
<1>2. ASSUME NEW b \in Bindings,
             StartSync(b) \/ Disable(b) \/ StartDelete(b) \/ Reconcile(b)
      PROVE  Inv'
  <2>1. ASSUME NEW p \in Pools, RangeTake(b, p) \/ SameTake(b, p)
        PROVE  Inv'
    BY <1>1, <2>1, SearchSafe
  <2>2. ASSUME NEW a \in drop[b], ReleaseTaken(b, a) \/ ReleaseBinding(b, a)
        PROVE  Inv'
    BY <1>1, <2>2, ReleaseSafe
  <2>3. CASE \/ StartSync(b) \/ SkipEntry(b) \/ RefuseEntry(b) \/ FailLookup(b) \/ Lookup(b)
             \/ \E p \in Pools : RangeFail(b, p) \/ RangeSpin(b, p) \/ SameBusy(b, p) \/ SameFull(b, p)
             \/ SameExhausted(b) \/ EndRelease(b) \/ NextPort(b) \/ EndEntries(b)
             \/ WriteStatus(b) \/ WriteFails(b) \/ EnsureListeners(b) \/ EndUnbind(b)
             \/ Disable(b) \/ StartDelete(b)
    <3>1. Kept /\ Phases'
      BY <2>3, WorkerKeeps
    <3> QED BY <1>1, <3>1, KeptSafe
  <2> QED BY <1>2, <2>1, <2>2, <2>3 DEF Reconcile, Ask
<1>3. ASSUME NEW p \in Pools, PoolReconcile(p)
      PROVE  Inv'
  BY <1>1, <1>3, PoolSafe
<1>4. ASSUME NEW l \in LBs, DeleteCloudLb(l)
      PROVE  Inv'
  BY <1>1, <1>4, KeptSafe DEF DeleteCloudLb, Kept, Owned, Phases, IsLbExists, workVars, statusVars
<1>5. CASE UNCHANGED vars
  BY <1>1, <1>5, KeptSafe DEF vars, Kept, Owned, Phases, IsLbExists
<1> QED BY <1>2, <1>3, <1>4, <1>5 DEF Next

\* The invariant is established by Init and kept by Next.
LEMMA InvCorrect ==
  ASSUME ~LbsReturn
  PROVE  Spec => []Inv
<1>1. Init => Inv
  <2> SUFFICES ASSUME Init PROVE Inv
    OBVIOUS
  <2>1. Typed
    BY MaxUint16Assumption DEF Init, Typed, TypeOK, AskingOK, PCs, Uint16
  <2>2. \A b \in Bindings : Owned(b) = {}
    BY DEF Init, Owned
  <2>3. Known /\ Recorded /\ Exclusive
    BY <2>2 DEF Known, Recorded, Exclusive
  <2>4. PoolsOK /\ Phases
    BY MembersAssumption DEF Init, PoolsOK, Phases
  <2> QED BY <2>1, <2>3, <2>4 DEF Inv
<1>2. Inv /\ [Next]_vars => Inv'
  BY InvStep
<1> QED BY <1>1, <1>2, PTL DEF Spec

\* No port of a load balancer is ever with two bindings, whatever reconcilers run at the
\* same time (PortPool!Exclusive).
THEOREM ExclusiveCorrect ==
  ASSUME ~LbsReturn
  PROVE  Spec => []Exclusive
<1>1. Inv => Exclusive
  BY DEF Inv
<1> QED BY <1>1, InvCorrect, PTL

\* A port that a binding or its worker has is recorded (PortPool!Recorded).
THEOREM RecordedCorrect ==
  ASSUME ~LbsReturn
  PROVE  Spec => []Recorded
<1>1. Inv => Recorded
  BY DEF Inv
<1> QED BY <1>1, InvCorrect, PTL

-----------------------------------------------------------------------------
(* The allocator and its clients implement the lease.                      *)

\* A step leases slots to one binding that nobody holds, or gives some of its slots back.
LEMMA LeaseStep ==
  ASSUME Inv, [Next]_vars
  PROVE  [Lease!Next]_Leases
<1> USE DEF Inv, Typed, TypeOK
<1>1. ASSUME NEW b \in Bindings, held' = [held EXCEPT ![b] = held[b] \cup got[b]]
      PROVE  Lease!Acquire(b)
  <2>1. Leases' = [Leases EXCEPT ![b] = Leases'[b]]
    BY <1>1 DEF Leases
  <2>2. Leases'[b] = Leases[b] \cup {Slot(a) : a \in got[b]}
    BY <1>1 DEF Leases
  <2>3. ASSUME NEW a \in got[b], NEW c \in Bindings, NEW d \in held[c], Slot(a) = Slot(d)
        PROVE  Slot(a) \in Leases[b]
    BY <2>3 DEF Exclusive, Owned, Phases
  <2>4. \A a \in got[b] : Slot(a) \in Slots
    <3>1. \A a \in got[b] : a.lb \in LBs /\ a.port \in ProtocolPort
      BY DEF Allocation
    <3> QED BY <3>1, KeyType DEF Slot, Slots
  <2>5. \A a \in got[b] : Slot(a) \in Lease!Leased => Slot(a) \in Leases[b]
    BY <2>3 DEF Lease!Leased, Leases
  <2>6. Leases[b] \subseteq Leases'[b] /\ Leases'[b] \ Leases[b] \subseteq Slots \ Lease!Leased
    BY <2>2, <2>4, <2>5
  <2> QED BY <2>1, <2>6 DEF Lease!Acquire, Lease!Only
<1>2. ASSUME NEW b \in Bindings, NEW H \in SUBSET held[b], held' = [held EXCEPT ![b] = H]
      PROVE  Lease!GiveBack(b)
  BY <1>2 DEF Lease!GiveBack, Lease!Only, Leases
<1>3. ASSUME UNCHANGED held
      PROVE  UNCHANGED Leases
  BY <1>3 DEF Leases
<1>4. ASSUME NEW b \in Bindings, StartSync(b) \/ Disable(b) \/ StartDelete(b) \/ Reconcile(b)
      PROVE  [Lease!Next]_Leases
  <2>1. CASE WriteStatus(b)
    BY <1>1, <2>1 DEF WriteStatus, Lease!Next
  <2>2. CASE EndUnbind(b)
    <3>1. \E H \in SUBSET held[b] : held' = [held EXCEPT ![b] = H]
      BY <2>2 DEF EndUnbind
    <3> QED BY <1>2, <3>1 DEF Lease!Next
  <2>4. CASE StartDelete(b)
    <3>1. \E H \in SUBSET held[b] : held' = [held EXCEPT ![b] = H]
      BY <2>4 DEF StartDelete
    <3> QED BY <1>2, <3>1 DEF Lease!Next
  <2>5. CASE \/ StartSync(b) \/ SkipEntry(b) \/ RefuseEntry(b) \/ FailLookup(b) \/ Lookup(b)
             \/ SameExhausted(b) \/ EndRelease(b) \/ NextPort(b) \/ EndEntries(b)
             \/ WriteFails(b) \/ EnsureListeners(b) \/ Disable(b)
    BY <1>3, <2>5 DEF StartSync, SkipEntry, RefuseEntry, FailLookup, Lookup, SameExhausted,
       EndRelease, NextPort, EndEntries, WriteFails, EnsureListeners, Disable, ReleasePorts, statusVars
  <2>6. CASE \E p \in Pools : Ask(b, p)
    BY <1>3, <2>6 DEF Ask, RangeTake, RangeFail, RangeSpin, SameTake, SameBusy, SameFull, Take,
       ReleasePorts, statusVars
  <2>7. CASE \E a \in drop[b] : ReleaseTaken(b, a) \/ ReleaseBinding(b, a)
    BY <1>3, <2>7 DEF ReleaseTaken, ReleaseBinding, statusVars
  <2> QED BY <1>4, <2>1, <2>2, <2>4, <2>5, <2>6, <2>7 DEF Reconcile
<1>5. ASSUME NEW p \in Pools, PoolReconcile(p)
      PROVE  [Lease!Next]_Leases
  BY <1>3, <1>5 DEF PoolReconcile, EnsurePool, ActivatePool, DeletePool, SetPhase, RemovePool, EnsureLbIds, RemoveLB, SetLbs,
     statusVars
<1>6. ASSUME NEW l \in LBs, DeleteCloudLb(l)
      PROVE  [Lease!Next]_Leases
  BY <1>3, <1>6 DEF DeleteCloudLb, statusVars
<1>7. CASE UNCHANGED vars
  BY <1>3, <1>7 DEF vars
<1> QED BY <1>4, <1>5, <1>6, <1>7 DEF Next

\* The allocator with its concurrent reconcilers implements the leasing of slots
\* (PortPool!ImplementsLease).
THEOREM LeaseImplemented ==
  ASSUME ~LbsReturn
  PROVE  Spec => ImplementsLease
<1>1. Init => Lease!Init
  BY DEF Init, Lease!Init, Leases
<1>2. Inv /\ [Next]_vars => [Lease!Next]_Leases
  BY LeaseStep
<1> QED BY <1>1, <1>2, InvCorrect, PTL DEF Spec, ImplementsLease, Lease!Spec
=============================================================================
