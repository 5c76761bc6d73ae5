----------------------- MODULE PortPoolRequestProofs -----------------------
(***************************************************************************)
(* Proofs about the requests PortPool serves: entries are written whole    *)
(* and with one port number, quotas and ranges are respected, and nothing  *)
(* stays recorded that nobody has.                                         *)
(***************************************************************************)
EXTENDS PortPoolProofs, FiniteSetTheorems

-----------------------------------------------------------------------------
(* Whole entries.  A worker collects entry by entry: what it has of the    *)
(* entry it is at is in taken, the entries before are in got, and neither  *)
(* the status nor got has anything of the entry it is at.                  *)

Searching(b) == pc[b] \in {"range", "same", "undoSame"}

\* The request a worker searches ports for was looked up, and is for an entry without ports.
Asking(b) ==
  Searching(b) =>
    /\ left[b] \subseteq Request(b).pools
    /\ Cardinality(Quotas(Request(b).pools) \ {0}) = 1
    /\ StartPort(Request(b).pools) <= EndPort(Request(b).pools)
    /\ pc[b] = "range" <=> ~Request(b).samePort
    /\ \A a \in held[b] : a.entry # entry[b]

\* What was taken for the entries before.
Collected(b) ==
  /\ pc[b] \in {"idle", "listen", "undo", "delete"} \cup Unbinding => got[b] = {}
  /\ Searching(b) \/ pc[b] = "allocate" => \A a \in got[b] : a.entry < entry[b]
  /\ \A a \in got[b], d \in held[b] : a.entry # d.entry
  /\ \A e \in DOMAIN PortSpec[b] : ListenersIn(got[b], e) \in {{}, AllListeners(PortSpec[b][e])}

\* What was taken for the entry the worker is at: the listeners of the pools that were asked.
Taking(b) ==
  /\ pc[b] \notin {"range", "same", "spin"} => taken[b] = {}
  /\ pc[b] \in {"range", "same"} =>
       /\ \A a \in taken[b] : a.entry = entry[b]
       /\ ListenersIn(taken[b], entry[b])
            = [pool: Request(b).pools \ left[b], protocol: ListenersOf(Request(b).protocol)]
  /\ pc[b] = "same" => \A a \in taken[b] : a.port.port = RequestPort(b)

\* The ports of an entry that asks for it have one number, in a set of allocations.
OneNumber(b, A) ==
  \A a, d \in A : a.entry = d.entry /\ PortSpec[b][a.entry].samePort => a.port.port = d.port.port

EntryInv(b) ==
  Asking(b) /\ Collected(b) /\ Taking(b) /\ OneNumber(b, got[b]) /\ OneNumber(b, held[b])

\* The variables EntryInv(b) depends on.
Mine(b) == <<pc[b], entry[b], left[b], index[b], taken[b], got[b], held[b]>>

WorkerStep(b) == StartSync(b) \/ Disable(b) \/ StartDelete(b) \/ Reconcile(b)

\* Nothing of a worker changes, nothing changes for its entries.
LEMMA MineStays ==
  ASSUME NEW b \in Bindings, EntryInv(b), UNCHANGED Mine(b)
  PROVE  EntryInv(b)'
<1>1. /\ pc'[b] = pc[b] /\ entry'[b] = entry[b] /\ left'[b] = left[b] /\ index'[b] = index[b]
      /\ taken'[b] = taken[b] /\ got'[b] = got[b] /\ held'[b] = held[b]
  BY DEF Mine
<1>2. Request(b)' = Request(b) /\ RequestPort(b)' = RequestPort(b)
  BY <1>1 DEF Request, RequestPort
<1>3. Asking(b)'
  BY <1>1, <1>2 DEF EntryInv, Asking, Searching
<1>4. Collected(b)'
  BY <1>1 DEF EntryInv, Collected, Searching
<1>5. Taking(b)'
  BY <1>1, <1>2 DEF EntryInv, Taking
<1>6. OneNumber(b, got[b])' /\ OneNumber(b, held[b])'
  BY <1>1 DEF EntryInv, OneNumber
<1> QED
  BY <1>3, <1>4, <1>5, <1>6 DEF EntryInv

\* A worker changes what is its own, and other steps change nothing of a worker.
LEMMA OthersStay ==
  ASSUME Typed
  PROVE  /\ \A b \in Bindings : WorkerStep(b) =>
              \A c \in Bindings \ {b} : UNCHANGED Mine(c) /\ drop'[c] = drop[c] /\ lost'[c] = lost[c]
         /\ (\E p \in Pools : PoolReconcile(p)) \/ (\E l \in LBs : DeleteCloudLb(l)) \/ UNCHANGED vars =>
              \A c \in Bindings : UNCHANGED Mine(c) /\ drop'[c] = drop[c] /\ lost'[c] = lost[c]
<1> USE DEF Typed, TypeOK, Mine, Goto, Forget, workVars, statusVars
<1>1. ASSUME NEW b \in Bindings, WorkerStep(b), NEW c \in Bindings \ {b}
      PROVE  UNCHANGED Mine(c) /\ drop'[c] = drop[c] /\ lost'[c] = lost[c]
  <2>1. CASE StartSync(b) \/ Disable(b) \/ StartDelete(b)
    BY <2>1 DEF StartSync, Disable, StartDelete
  <2>2. CASE SkipEntry(b) \/ RefuseEntry(b) \/ FailLookup(b) \/ Lookup(b) \/ SameExhausted(b)
    BY <2>2 DEF SkipEntry, RefuseEntry, FailLookup, Lookup, SameExhausted, ReleasePorts
  <2>3. CASE EndRelease(b) \/ NextPort(b) \/ EndEntries(b) \/ WriteStatus(b) \/ WriteFails(b)
    BY <2>3 DEF EndRelease, NextPort, EndEntries, WriteStatus, WriteFails, ReleasePorts
  <2>4. CASE EnsureListeners(b) \/ EndUnbind(b)
    BY <2>4 DEF EnsureListeners, EndUnbind
  <2>5. CASE \E a \in drop[b] : ReleaseTaken(b, a) \/ ReleaseBinding(b, a)
    BY <2>5 DEF ReleaseTaken, ReleaseBinding
  <2>6. ASSUME NEW p \in Pools, Ask(b, p)
        PROVE  UNCHANGED Mine(c) /\ drop'[c] = drop[c] /\ lost'[c] = lost[c]
    <3>1. CASE RangeFail(b, p) \/ RangeSpin(b, p) \/ SameBusy(b, p) \/ SameFull(b, p)
      BY <3>1 DEF RangeFail, RangeSpin, SameBusy, SameFull, ReleasePorts
    <3>2. CASE RangeTake(b, p) \/ SameTake(b, p)
      <4>1. PICK l, ports : l \in LBs /\ Take(b, p, l, ports)
        BY <3>2 DEF RangeTake, SameTake, Room
      <4> QED
        BY <4>1 DEF Take
    <3> QED
      BY <2>6, <3>1, <3>2 DEF Ask
  <2> QED
    BY <1>1, <2>1, <2>2, <2>3, <2>4, <2>5, <2>6 DEF WorkerStep, Reconcile
<1>2. ASSUME NEW p \in Pools, PoolReconcile(p)
      PROVE  UNCHANGED <<workVars, statusVars>>
  BY <1>2 DEF PoolReconcile, EnsurePool, ActivatePool, DeletePool, RemovePool, SetPhase,
              EnsureLbIds, RemoveLB, SetLbs
<1>3. ASSUME NEW l \in LBs, DeleteCloudLb(l)
      PROVE  UNCHANGED <<workVars, statusVars>>
  BY <1>3 DEF DeleteCloudLb
<1>4. CASE UNCHANGED vars
  BY <1>4 DEF vars
<1> QED
  BY <1>1, <1>2, <1>3, <1>4 DEF vars

\* What a search found: a port of the walk, not past the end, on a load balancer with room for it.
LEMMA Found ==
  ASSUME Typed, NEW b \in Bindings, NEW p \in Pools, RangeTake(b, p) \/ SameTake(b, p)
  PROVE  /\ Request(b) \in PortSpecs /\ p \in left[b] /\ pc[b] \in {"range", "same"}
         /\ \E l \in lbs[p], k \in Nat :
              LET start == StartPort(Request(b).pools)
                  length == SegmentLength(Request(b).pools)
                  port == WalkPort(start, length, k)
              IN  /\ Take(b, p, l, Needed(Request(b), port))
                  /\ port \in Uint16
                  /\ UnderQuota(cache[p][l], Quota(Request(b).pools), Request(b).protocol)
                  /\ port <= EndPort(Request(b).pools)
                  /\ pc[b] = "range" => k \in Walk(start, EndPort(Request(b).pools), length)
                  /\ pc[b] = "same" => k = index[b]
<1>1. p \in left[b] /\ pc[b] \in {"range", "same"} /\ entry[b] <= Len(PortSpec[b])
  BY DEF RangeTake, SameTake, Asks, Typed, AskingOK
<1>2. Request(b) \in PortSpecs
  BY <1>1, RequestType DEF Typed
<1>3. Request(b).pools \in (SUBSET Pools) \ {{}}
  BY <1>2 DEF PortSpecs
<1> DEFINE start == StartPort(Request(b).pools)
           length == SegmentLength(Request(b).pools)
<1>4. CASE RangeTake(b, p)
  <2>1. pc[b] = "range"
    BY <1>4 DEF RangeTake, Asks
  <2>2. PICK l \in Room(Request(b), p, lbs[p]) :
          \E k \in First(Takeable(Request(b), p, l)) :
            Take(b, p, l, Needed(Request(b), WalkPort(start, length, k)))
    BY <1>4 DEF RangeTake
  <2>3. PICK k \in First(Takeable(Request(b), p, l)) :
          Take(b, p, l, Needed(Request(b), WalkPort(start, length, k)))
    BY <2>2
  <2>4. k \in Walk(start, EndPort(Request(b).pools), length)
    BY DEF First, Takeable, TakeableAt
  <2>5. k \in Nat /\ WalkPort(start, length, k) <= EndPort(Request(b).pools)
    BY <2>4, MaxUint16Assumption DEF Walk, Uint16
  <2>6. WalkPort(start, length, k) \in Uint16
    BY <1>3, <2>5, WalkPortType
  <2>7. l \in lbs[p] /\ UnderQuota(cache[p][l], Quota(Request(b).pools), Request(b).protocol)
    BY DEF Room
  <2> QED
    BY <1>1, <1>2, <2>1, <2>3, <2>4, <2>5, <2>6, <2>7
<1>5. CASE SameTake(b, p)
  <2>1. pc[b] = "same" /\ RequestPort(b) <= EndPort(Request(b).pools)
    BY <1>5 DEF SameTake, Asks
  <2>2. PICK l \in Room(Request(b), p, lbs[p]) : Take(b, p, l, Needed(Request(b), RequestPort(b)))
    BY <1>5 DEF SameTake
  <2>3. index[b] \in Nat /\ RequestPort(b) = WalkPort(start, length, index[b])
    BY DEF RequestPort, Typed, TypeOK, Uint16
  <2>4. RequestPort(b) \in Uint16
    BY <1>3, <2>3, WalkPortType
  <2>5. l \in lbs[p] /\ UnderQuota(cache[p][l], Quota(Request(b).pools), Request(b).protocol)
    BY DEF Room
  <2> QED
    BY <1>1, <1>2, <2>1, <2>2, <2>3, <2>4, <2>5
<1> QED
  BY <1>4, <1>5

\* A request needs a listener of every protocol it stands for, all at one port.
LEMMA NeededPorts ==
  ASSUME NEW r \in PortSpecs, NEW port
  PROVE  /\ \A q \in Needed(r, port) : q.port = port /\ q.protocol \in ListenersOf(r.protocol)
         /\ \A m \in ListenersOf(r.protocol) : \E q \in Needed(r, port) : q.protocol = m
<1> DEFINE At(m) == [port |-> port, endPort |-> SegmentEnd(port, SegmentLength(r.pools)), protocol |-> m]
<1>1. Needed(r, port) = {At(m) : m \in ListenersOf(r.protocol)}
  BY DEF Needed, PortsToAllocate
<1>2. \A m : At(m).port = port /\ At(m).protocol = m
  OBVIOUS
<1> HIDE DEF At
<1> QED
  BY <1>1, <1>2

\* The listeners of two sets of allocations.
LEMMA ListenersOfUnion ==
  ASSUME NEW A, NEW D, NEW e
  PROVE  ListenersIn(A \cup D, e) = ListenersIn(A, e) \cup ListenersIn(D, e)
BY DEF ListenersIn

\* Where nothing is of an entry there are no listeners of it.
LEMMA NoListeners ==
  ASSUME NEW A, NEW e, \A a \in A : a.entry # e
  PROVE  ListenersIn(A, e) = {}
BY DEF ListenersIn

\* The ports of one more pool complete what is taken, or bring it one pool further.
LEMMA TakeEntry ==
  ASSUME Typed, NEW b \in Bindings, EntryInv(b), NEW p \in Pools, RangeTake(b, p) \/ SameTake(b, p)
  PROVE  EntryInv(b)'
<1> DEFINE r == Request(b)
<1>1. r \in PortSpecs /\ p \in left[b] /\ pc[b] \in {"range", "same"}
  BY Found
<1>2. PICK l \in lbs[p], port \in Uint16 :
        /\ Take(b, p, l, Needed(r, port))
        /\ pc[b] = "same" => port = RequestPort(b)
  BY Found DEF RequestPort
<1> DEFINE new == {[entry |-> entry[b], pool |-> p, lb |-> l, port |-> q] : q \in Needed(r, port)}
           last == left[b] = {p}
<1>3. /\ left'[b] = left[b] \ {p}
      /\ taken'[b] = IF last THEN {} ELSE taken[b] \cup new
      /\ got'[b] = IF last THEN got[b] \cup taken[b] \cup new ELSE got[b]
      /\ entry'[b] = IF last THEN entry[b] + 1 ELSE entry[b]
      /\ index'[b] = IF last THEN 0 ELSE index[b]
      /\ pc'[b] = IF last THEN "allocate" ELSE pc[b]
      /\ held'[b] = held[b]
  BY <1>2 DEF Take, Goto, statusVars, Typed, TypeOK
<1>4. /\ left[b] \subseteq r.pools /\ \A a \in held[b] : a.entry # entry[b]
      /\ \A a \in got[b] : a.entry < entry[b]
      /\ \A a \in taken[b] : a.entry = entry[b]
      /\ ListenersIn(taken[b], entry[b]) = [pool: r.pools \ left[b], protocol: ListenersOf(r.protocol)]
      /\ pc[b] = "range" <=> ~r.samePort
  BY <1>1 DEF EntryInv, Asking, Collected, Taking, Searching
<1>5. entry[b] \in Nat /\ \A a \in got[b] \cup held[b] : a.entry \in Nat
  BY DEF Typed, TypeOK, Allocation
<1>6. \A a \in new : a.entry = entry[b] /\ a.port.port = port
  BY <1>1, NeededPorts
<1>7. ListenersIn(new, entry[b]) = [pool: {p}, protocol: ListenersOf(r.protocol)]
  <2>1. ASSUME NEW x \in ListenersIn(new, entry[b])
        PROVE  x \in [pool: {p}, protocol: ListenersOf(r.protocol)]
    <3>1. PICK q \in Needed(r, port) : x = [pool |-> p, protocol |-> q.protocol]
      BY DEF ListenersIn
    <3>2. q.protocol \in ListenersOf(r.protocol)
      BY <1>1, NeededPorts
    <3> QED
      BY <3>1, <3>2
  <2>2. ASSUME NEW x \in [pool: {p}, protocol: ListenersOf(r.protocol)]
        PROVE  x \in ListenersIn(new, entry[b])
    <3>1. PICK q \in Needed(r, port) : q.protocol = x.protocol
      BY <1>1, NeededPorts
    <3>2. x = [pool |-> p, protocol |-> q.protocol]
      BY <3>1
    <3> DEFINE a == [entry |-> entry[b], pool |-> p, lb |-> l, port |-> q]
    <3>3. a \in new /\ a.entry = entry[b] /\ a.pool = p /\ a.port = q
      BY <3>1
    <3> HIDE DEF a
    <3> HIDE DEF new
    <3> QED
      BY <3>2, <3>3 DEF ListenersIn
  <2> QED
    BY <2>1, <2>2
<1>8. ListenersIn(taken[b] \cup new, entry[b])
        = [pool: r.pools \ (left[b] \ {p}), protocol: ListenersOf(r.protocol)]
  <2> HIDE DEF r, new
  <2>1. r.pools \ (left[b] \ {p}) = (r.pools \ left[b]) \cup {p}
    BY <1>1, <1>4
  <2>2. ListenersIn(taken[b] \cup new, entry[b])
          = ListenersIn(taken[b], entry[b]) \cup ListenersIn(new, entry[b])
    BY ListenersOfUnion
  <2> DEFINE L == ListenersOf(r.protocol)
             P == r.pools \ left[b]
  <2>3. ListenersIn(taken[b], entry[b]) = [pool: P, protocol: L]
    BY <1>4
  <2>4. ListenersIn(new, entry[b]) = [pool: {p}, protocol: L]
    BY <1>7
  <2> HIDE DEF L, P
  <2>5. [pool: P \cup {p}, protocol: L] = [pool: P, protocol: L] \cup [pool: {p}, protocol: L]
    OBVIOUS
  <2>6. ListenersIn(taken[b] \cup new, entry[b]) = [pool: P \cup {p}, protocol: L]
    BY <2>2, <2>3, <2>4, <2>5
  <2> QED
    BY <2>1, <2>6 DEF L, P
<1> HIDE DEF new
<1>9. ASSUME ~last
      PROVE  EntryInv(b)'
  <2>1. Request(b)' = r /\ RequestPort(b)' = RequestPort(b)
    BY <1>3, <1>9 DEF Request, RequestPort
  <2>2. Asking(b)'
    BY <1>1, <1>3, <1>9, <2>1 DEF EntryInv, Asking, Searching
  <2>3. Collected(b)'
    BY <1>1, <1>3, <1>9 DEF EntryInv, Collected, Searching
  <2>4. Taking(b)'
    <3>1. taken'[b] = taken[b] \cup new /\ pc'[b] = pc[b] /\ entry'[b] = entry[b] /\ left'[b] = left[b] \ {p}
      BY <1>3, <1>9
    <3>2. pc[b] = "same" => \A a \in taken'[b] : a.port.port = RequestPort(b)
      BY <1>2, <1>6, <3>1 DEF EntryInv, Taking
    <3>3. \A a \in taken'[b] : a.entry = entry[b]
      BY <1>4, <1>6, <3>1
    <3> QED
      BY <1>1, <1>8, <2>1, <3>1, <3>2, <3>3 DEF Taking
  <2>5. OneNumber(b, got[b])' /\ OneNumber(b, held[b])'
    BY <1>3, <1>9 DEF EntryInv, OneNumber
  <2> QED
    BY <2>2, <2>3, <2>4, <2>5 DEF EntryInv
<1>10. ASSUME last
       PROVE  EntryInv(b)'
  <2>1. /\ got'[b] = got[b] \cup (taken[b] \cup new) /\ taken'[b] = {} /\ pc'[b] = "allocate"
        /\ entry'[b] = entry[b] + 1 /\ held'[b] = held[b]
    BY <1>3, <1>10
  <2>2. Asking(b)' /\ Taking(b)'
    BY <2>1 DEF Asking, Searching, Taking
  <2>3. \A a \in taken[b] \cup new : a.entry = entry[b]
    BY <1>4, <1>6
  <2>4. ASSUME NEW e \in DOMAIN PortSpec[b]
        PROVE  ListenersIn(got'[b], e) \in {{}, AllListeners(PortSpec[b][e])}
    <3>1. ListenersIn(got'[b], e) = ListenersIn(got[b], e) \cup ListenersIn(taken[b] \cup new, e)
      BY <2>1, ListenersOfUnion
    <3>2. CASE e = entry[b]
      <4>1. \A a \in got[b] : a.entry # e
        BY <1>4, <1>5, <3>2
      <4>2. ListenersIn(got[b], e) = {}
        BY <4>1, NoListeners
      <4>3. r.pools \ (left[b] \ {p}) = r.pools
        BY <1>10
      <4>4. ListenersIn(got'[b], e) = [pool: r.pools, protocol: ListenersOf(r.protocol)]
        BY <1>8, <3>1, <3>2, <4>2, <4>3
      <4> QED
        BY <3>2, <4>4 DEF AllListeners, Request
    <3>3. CASE e # entry[b]
      <4>1. \A a \in taken[b] \cup new : a.entry # e
        BY <2>3, <3>3
      <4>2. ListenersIn(taken[b] \cup new, e) = {}
        BY <4>1, NoListeners
      <4>3. ListenersIn(got[b], e) \in {{}, AllListeners(PortSpec[b][e])}
        BY DEF EntryInv, Collected
      <4> QED
        BY <3>1, <4>2, <4>3
    <3> QED
      BY <3>2, <3>3
  <2>5. Collected(b)'
    <3>1. \A a \in got'[b] : a.entry < entry'[b]
      BY <1>4, <1>5, <2>1, <2>3
    <3>2. \A a \in got'[b], d \in held[b] : a.entry # d.entry
      BY <1>4, <2>1, <2>3 DEF EntryInv, Collected
    <3> QED
      BY <2>1, <2>4, <3>1, <3>2 DEF Collected, Searching, Unbinding
  <2>6. OneNumber(b, got[b])'
    <3> SUFFICES ASSUME NEW a \in got'[b], NEW d \in got'[b],
                        a.entry = d.entry, PortSpec[b][a.entry].samePort
                 PROVE  a.port.port = d.port.port
      BY DEF OneNumber
    <3>1. CASE a \in got[b] /\ d \in got[b]
      BY <3>1 DEF EntryInv, OneNumber
    <3>2. CASE a \in taken[b] \cup new /\ d \in taken[b] \cup new
      <4>1. r.samePort
        BY <2>3, <3>2 DEF Request
      <4>2. pc[b] = "same"
        BY <1>1, <1>4, <4>1
      <4> QED
        BY <1>2, <1>6, <3>2, <4>2 DEF EntryInv, Taking
    <3>3. CASE a.entry # d.entry
      BY <3>3
    <3>4. (a \in got[b] <=> d \in got[b]) \/ a.entry # d.entry
      BY <1>4, <1>5, <2>1, <2>3
    <3> QED
      BY <2>1, <3>1, <3>2, <3>4
  <2>7. OneNumber(b, held[b])'
    BY <2>1 DEF EntryInv, OneNumber
  <2> QED
    BY <2>2, <2>5, <2>6, <2>7 DEF EntryInv
<1> QED
  BY <1>9, <1>10

\* A worker that is not asking any pool and has no port in its hands fits, wherever it is.
LEMMA EmptyHanded ==
  ASSUME NEW b \in Bindings, EntryInv(b), held'[b] \subseteq held[b], got'[b] = {}, taken'[b] = {},
         pc'[b] \notin {"range", "same", "undoSame"}
  PROVE  EntryInv(b)'
<1>1. Asking(b)' /\ Taking(b)'
  BY DEF Asking, Searching, Taking
<1>2. \A e : ListenersIn(got'[b], e) = {}
  BY DEF ListenersIn
<1>3. Collected(b)'
  BY <1>2 DEF Collected
<1>4. OneNumber(b, got'[b]) /\ OneNumber(b, held'[b])
  BY DEF EntryInv, OneNumber
<1>5. OneNumber(b, got[b])' /\ OneNumber(b, held[b])'
  BY <1>4 DEF OneNumber
<1> QED
  BY <1>1, <1>3, <1>5 DEF EntryInv

\* Every step of a worker keeps its entries whole.
LEMMA WorkerEntry ==
  ASSUME Typed, NEW b \in Bindings, EntryInv(b), WorkerStep(b)
  PROVE  EntryInv(b)'
<1> USE DEF Goto, Forget, poolVars, workVars, statusVars
<1>0. /\ TypeOK /\ AskingOK /\ Asking(b) /\ Collected(b) /\ Taking(b)
      /\ OneNumber(b, got[b]) /\ OneNumber(b, held[b])
  BY DEF Typed, EntryInv
<1>1. CASE StartSync(b)
  <2>1. /\ pc'[b] = "allocate" /\ got[b] = {} /\ taken[b] = {}
        /\ held' = held /\ got' = got /\ taken' = taken
    BY <1>0, <1>1 DEF StartSync, TypeOK, Collected, Taking
  <2> QED
    BY <2>1, EmptyHanded
<1>2. CASE Disable(b)
  <2>1. UNCHANGED Mine(b)
    BY <1>2 DEF Disable, Mine
  <2> QED
    BY <2>1, MineStays
<1>3. CASE StartDelete(b)
  <2>1. /\ pc'[b] = "delete" /\ got[b] = {} /\ taken[b] = {} /\ held'[b] = {}
        /\ got' = got /\ taken' = taken
    BY <1>0, <1>3 DEF StartDelete, TypeOK, Collected, Taking
  <2> QED
    BY <2>1, EmptyHanded
<1>4. CASE SkipEntry(b)
  <2>1. /\ pc[b] = "allocate" /\ pc' = pc /\ entry'[b] = entry[b] + 1
        /\ UNCHANGED <<got, taken, held>>
    BY <1>0, <1>4 DEF SkipEntry, AtEntry, TypeOK
  <2>2. \A a \in got[b] : a.entry < entry[b] + 1
    BY <1>0, <2>1 DEF Collected, TypeOK, Allocation
  <2>3. Asking(b)' /\ Taking(b)' /\ Collected(b)'
    BY <1>0, <2>1, <2>2 DEF Asking, Searching, Taking, Collected, Unbinding
  <2>4. OneNumber(b, got[b])' /\ OneNumber(b, held[b])'
    BY <1>0, <2>1 DEF OneNumber
  <2> QED
    BY <2>3, <2>4 DEF EntryInv
<1>5. CASE \/ RefuseEntry(b) \/ SameExhausted(b) \/ WriteFails(b)
           \/ \E p \in Pools : RangeFail(b, p) \/ SameFull(b, p)
  <2>1. ReleasePorts(b, "undo")
    BY <1>5 DEF RefuseEntry, SameExhausted, WriteFails, RangeFail, SameFull
  <2>2. pc'[b] = "undo" /\ got'[b] = {} /\ taken'[b] = {} /\ held' = held
    BY <1>0, <2>1 DEF ReleasePorts, TypeOK
  <2> QED
    BY <2>2, EmptyHanded
<1>6. CASE FailLookup(b)
  <2>1. pc'[b] = "idle" /\ got'[b] = {} /\ taken[b] = {} /\ taken' = taken /\ held' = held
    BY <1>0, <1>6 DEF FailLookup, AtEntry, TypeOK, Taking
  <2> QED
    BY <2>1, EmptyHanded
<1>7. CASE Lookup(b)
  <2> DEFINE r == Request(b)
  <2>1. /\ pc[b] = "allocate" /\ pc'[b] = IF r.samePort THEN "same" ELSE "range"
        /\ left'[b] = r.pools /\ UNCHANGED <<entry, index, taken, got, held>>
        /\ ~Satisfied(b) /\ LookupSucceeds(r.pools)
    BY <1>0, <1>7 DEF Lookup, AtEntry, TypeOK
  <2>2. taken[b] = {} /\ \A a \in got[b] : a.entry < entry[b]
    BY <1>0, <2>1 DEF Taking, Collected
  <2>3. Request(b)' = r
    BY <2>1 DEF Request
  <2>4. Asking(b)'
    BY <2>1, <2>3 DEF Asking, Searching, Satisfied, LookupSucceeds, Allocatable
  <2>5. ListenersIn(taken'[b], entry'[b]) = [pool: {}, protocol: ListenersOf(r.protocol)]
    BY <2>1, <2>2 DEF ListenersIn
  <2>6. r.pools \ left'[b] = {}
    BY <2>1
  <2>7. Taking(b)'
    BY <2>1, <2>2, <2>3, <2>5, <2>6 DEF Taking
  <2>8. Collected(b)'
    BY <1>0, <2>1, <2>2 DEF Collected, Unbinding
  <2>9. OneNumber(b, got[b])' /\ OneNumber(b, held[b])'
    BY <1>0, <2>1 DEF OneNumber
  <2> QED
    BY <2>4, <2>7, <2>8, <2>9 DEF EntryInv
<1>8. ASSUME NEW p \in Pools, RangeTake(b, p) \/ SameTake(b, p)
      PROVE  EntryInv(b)'
  BY <1>8, TakeEntry
<1>9. ASSUME NEW p \in Pools, RangeSpin(b, p)
      PROVE  EntryInv(b)'
  <2>1. pc'[b] = "spin" /\ UNCHANGED <<entry, left, index, taken, got, held>>
    BY <1>0, <1>9 DEF RangeSpin, TypeOK
  <2>2. Asking(b)' /\ Taking(b)' /\ Collected(b)'
    BY <1>0, <2>1 DEF Asking, Searching, Taking, Collected, Unbinding
  <2>3. OneNumber(b, got[b])' /\ OneNumber(b, held[b])'
    BY <1>0, <2>1 DEF OneNumber
  <2> QED
    BY <2>2, <2>3 DEF EntryInv
<1>10. ASSUME NEW p \in Pools, SameBusy(b, p)
       PROVE  EntryInv(b)'
  <2>1. /\ pc[b] = "same" /\ pc'[b] = "undoSame" /\ taken'[b] = {}
        /\ UNCHANGED <<entry, left, index, got, held>>
    BY <1>0, <1>10 DEF SameBusy, Asks, TypeOK
  <2>2. Request(b)' = Request(b)
    BY <2>1 DEF Request
  <2>3. Asking(b)' /\ Taking(b)' /\ Collected(b)'
    BY <1>0, <2>1, <2>2 DEF Asking, Searching, Taking, Collected, Unbinding
  <2>4. OneNumber(b, got[b])' /\ OneNumber(b, held[b])'
    BY <1>0, <2>1 DEF OneNumber
  <2> QED
    BY <2>3, <2>4 DEF EntryInv
<1>11. CASE \E a \in drop[b] : ReleaseTaken(b, a) \/ ReleaseBinding(b, a)
  <2>1. UNCHANGED Mine(b)
    BY <1>11 DEF ReleaseTaken, ReleaseBinding, Mine
  <2> QED
    BY <2>1, MineStays
<1>12. CASE EndRelease(b)
  <2>1. pc'[b] = "idle" /\ got[b] = {} /\ taken[b] = {} /\ UNCHANGED <<got, taken, held>>
    BY <1>0, <1>12 DEF EndRelease, TypeOK, Collected, Taking
  <2> QED
    BY <2>1, EmptyHanded
<1>13. CASE NextPort(b)
  <2> DEFINE r == Request(b)
  <2>1. /\ pc[b] = "undoSame" /\ pc'[b] = "same" /\ left'[b] = r.pools
        /\ UNCHANGED <<entry, taken, got, held>>
    BY <1>0, <1>13 DEF NextPort, TypeOK
  <2>2. taken[b] = {}
    BY <1>0, <2>1 DEF Taking
  <2>3. Request(b)' = r
    BY <2>1 DEF Request
  <2>4. Asking(b)' /\ Collected(b)'
    BY <1>0, <2>1, <2>3 DEF Asking, Searching, Collected, Unbinding
  <2>5. ListenersIn(taken'[b], entry'[b]) = [pool: {}, protocol: ListenersOf(r.protocol)]
    BY <2>1, <2>2 DEF ListenersIn
  <2>6. r.pools \ left'[b] = {}
    BY <2>1
  <2>7. Taking(b)'
    BY <2>1, <2>2, <2>3, <2>5, <2>6 DEF Taking
  <2>8. OneNumber(b, got[b])' /\ OneNumber(b, held[b])'
    BY <1>0, <2>1 DEF OneNumber
  <2> QED
    BY <2>4, <2>7, <2>8 DEF EntryInv
<1>14. CASE EndEntries(b)
  <2>1. /\ pc[b] = "allocate"
        /\ pc'[b] = IF got[b] # {} THEN "write" ELSE IF held[b] # {} THEN "listen" ELSE "idle"
        /\ UNCHANGED <<taken, got, held>>
    BY <1>0, <1>14 DEF EndEntries, TypeOK
  <2>2. Asking(b)' /\ Taking(b)' /\ Collected(b)'
    BY <1>0, <2>1 DEF Asking, Searching, Taking, Collected, Unbinding
  <2>3. OneNumber(b, got[b])' /\ OneNumber(b, held[b])'
    BY <1>0, <2>1 DEF OneNumber
  <2> QED
    BY <2>2, <2>3 DEF EntryInv
<1>15. CASE WriteStatus(b)
  <2>1. /\ pc[b] = "write" /\ pc'[b] = "listen" /\ got'[b] = {} /\ taken' = taken
        /\ held'[b] = held[b] \cup got[b]
    BY <1>0, <1>15 DEF WriteStatus, TypeOK
  <2>2. Asking(b)' /\ Taking(b)'
    BY <1>0, <2>1 DEF Asking, Searching, Taking
  <2>3. \A e : ListenersIn(got'[b], e) = {}
    BY <2>1 DEF ListenersIn
  <2>4. Collected(b)'
    BY <2>1, <2>3 DEF Collected, Searching
  <2>5. OneNumber(b, got[b])' /\ OneNumber(b, held[b])'
    BY <1>0, <2>1 DEF OneNumber, Collected
  <2> QED
    BY <2>2, <2>4, <2>5 DEF EntryInv
<1>16. CASE EnsureListeners(b)
  <2>1. /\ pc[b] = "listen" /\ pc'[b] \in Unbinding /\ UNCHANGED <<got, taken, held>>
    BY <1>0, <1>16 DEF EnsureListeners, Unbinding, TypeOK
  <2>2. got[b] = {} /\ taken[b] = {}
    BY <1>0, <2>1 DEF Collected, Taking
  <2> QED
    BY <2>1, <2>2, EmptyHanded DEF Unbinding
<1>17. CASE EndUnbind(b)
  <2>1. pc[b] \in Unbinding /\ pc'[b] = "idle" /\ held'[b] \subseteq held[b] /\ UNCHANGED <<got, taken>>
    BY <1>0, <1>17 DEF EndUnbind, TypeOK
  <2>2. got[b] = {} /\ taken[b] = {}
    BY <1>0, <2>1 DEF Collected, Taking, Unbinding
  <2> QED
    BY <2>1, <2>2, EmptyHanded
<1> QED
  BY <1>1, <1>2, <1>3, <1>4, <1>5, <1>6, <1>7, <1>8, <1>9, <1>10, <1>11, <1>12, <1>13, <1>14, <1>15,
     <1>16, <1>17 DEF WorkerStep, Reconcile, Ask

\* What every worker has taken and collected, between any two steps of it.
EntriesInv == Typed /\ \A b \in Bindings : EntryInv(b)

\* The entry that each worker searches for keeps its parts together: every step of its own
\* (NextPort, Ask, ReleaseTaken, ReleaseBinding, WriteStatus) and of the others.
LEMMA EntriesCorrect == Spec => []EntriesInv
<1>1. Init => EntriesInv
  <2> SUFFICES ASSUME Init PROVE EntriesInv
    OBVIOUS
  <2>1. Typed
    BY MaxUint16Assumption DEF Init, Typed, TypeOK, AskingOK, PCs, Uint16
  <2>2. ASSUME NEW b \in Bindings
        PROVE  EntryInv(b)
    <3>1. pc[b] = "idle" /\ got[b] = {} /\ taken[b] = {} /\ held[b] = {}
      BY DEF Init
    <3>2. \A e : ListenersIn(got[b], e) = {}
      BY <3>1 DEF ListenersIn
    <3> QED
      BY <3>1, <3>2 DEF EntryInv, Asking, Searching, Collected, Taking, OneNumber
  <2> QED
    BY <2>1, <2>2 DEF EntriesInv
<1>2. EntriesInv /\ [Next]_vars => EntriesInv'
  <2> SUFFICES ASSUME EntriesInv, [Next]_vars PROVE EntriesInv'
    OBVIOUS
  <2>1. Typed /\ Typed'
    BY TypeStep DEF EntriesInv
  <2>2. ASSUME NEW b \in Bindings
        PROVE  EntryInv(b)'
    <3>1. CASE WorkerStep(b)
      BY <2>1, <3>1, WorkerEntry DEF EntriesInv
    <3>2. CASE \E d \in Bindings \ {b} : WorkerStep(d)
      <4>1. UNCHANGED Mine(b)
        BY <2>1, <3>2, OthersStay
      <4> QED
        BY <4>1, MineStays DEF EntriesInv
    <3>3. CASE (\E p \in Pools : PoolReconcile(p)) \/ (\E l \in LBs : DeleteCloudLb(l)) \/ UNCHANGED vars
      <4>1. UNCHANGED Mine(b)
        BY <2>1, <3>3, OthersStay
      <4> QED
        BY <4>1, MineStays DEF EntriesInv
    <3> QED
      BY <3>1, <3>2, <3>3 DEF Next, WorkerStep
  <2> QED
    BY <2>1, <2>2 DEF EntriesInv
<1> QED
  BY <1>1, <1>2, PTL DEF Spec

\* The recorded ports of an entry with useSamePortAcrossPools have one number, whatever the
\* searches of other workers take and undo meanwhile (PortPool!SamePort).
THEOREM SamePortCorrect == Spec => []SamePort
<1>1. EntriesInv => SamePort
  BY DEF EntriesInv, EntryInv, OneNumber, SamePort
<1> QED
  BY <1>1, EntriesCorrect, PTL

\* A status write adds an entry's listeners in all of its pools or none of them
\* (PortPool!WholeEntries).
THEOREM WholeEntriesCorrect == Spec => WholeEntries
<1> DEFINE Whole == \A b \in Bindings : \A e \in DOMAIN PortSpec[b] :
                      ListenersIn(held'[b] \ held[b], e) \in {{}, AllListeners(PortSpec[b][e])}
<1>1. ASSUME EntriesInv, [Next]_vars
      PROVE  [Whole]_held
  <2> SUFFICES ASSUME NEW b \in Bindings, NEW e \in DOMAIN PortSpec[b]
               PROVE  ListenersIn(held'[b] \ held[b], e) \in {{}, AllListeners(PortSpec[b][e])}
    OBVIOUS
  <2>1. held'[b] \subseteq held[b] \/ (WriteStatus(b) /\ held'[b] = held[b] \cup got[b])
    <3>1. CASE WorkerStep(b)
      <4>1. CASE WriteStatus(b)
        BY <1>1, <4>1 DEF WriteStatus, EntriesInv, Typed, TypeOK
      <4>2. CASE EndUnbind(b)
        BY <1>1, <4>2 DEF EndUnbind, EntriesInv, Typed, TypeOK
      <4>3. CASE StartDelete(b)
        BY <1>1, <4>3 DEF StartDelete, EntriesInv, Typed, TypeOK
      <4>4. CASE ~WriteStatus(b) /\ ~EndUnbind(b) /\ ~StartDelete(b)
        <5>1. UNCHANGED held
          BY <3>1, <4>4 DEF WorkerStep, Reconcile, Ask, StartSync, Disable, SkipEntry, RefuseEntry, FailLookup,
             Lookup, RangeTake, RangeFail, RangeSpin, SameTake, SameBusy, SameFull, Take, SameExhausted,
             ReleaseTaken, ReleaseBinding, EndRelease, NextPort, EndEntries, WriteFails, EnsureListeners,
             ReleasePorts, statusVars
        <5> QED
          BY <5>1
      <4> QED
        BY <4>1, <4>2, <4>3, <4>4
    <3>2. CASE ~WorkerStep(b)
      <4>1. UNCHANGED Mine(b)
        <5>1. \/ \E d \in Bindings \ {b} : WorkerStep(d)
              \/ \E p \in Pools : PoolReconcile(p)
              \/ \E l \in LBs : DeleteCloudLb(l)
              \/ UNCHANGED vars
          BY <1>1, <3>2 DEF Next, WorkerStep
        <5> QED
          BY <1>1, <5>1, TypeStep, OthersStay DEF EntriesInv
      <4> QED
        BY <4>1 DEF Mine
    <3> QED
      BY <3>1, <3>2
  <2>2. CASE held'[b] \subseteq held[b]
    BY <2>2 DEF ListenersIn
  <2>3. CASE held'[b] = held[b] \cup got[b]
    <3>1. Collected(b)
      BY <1>1 DEF EntriesInv, EntryInv
    <3>2. held'[b] \ held[b] = got[b]
      BY <2>3, <3>1 DEF Collected
    <3> QED
      BY <3>1, <3>2 DEF Collected
  <2> QED
    BY <2>1, <2>2, <2>3
<1>2. EntriesInv /\ [Next]_vars => [Whole]_held
  BY <1>1
<1> QED
  BY <1>2, EntriesCorrect, PTL DEF Spec, WholeEntries

-----------------------------------------------------------------------------
(* Quotas.                                                                 *)

\* The pools of a request that was looked up have one quota, once every quota is known.
LEMMA OneQuota ==
  ASSUME IsFiniteSet(Pools), \A p \in Pools : PoolSpec[p].quota > 0,
         NEW P \in SUBSET Pools, Cardinality(Quotas(P) \ {0}) = 1, NEW p \in P
  PROVE  Quota(P) = PoolSpec[p].quota
<1>1. \A q \in P : PoolSpec[q].quota \in Nat /\ PoolSpec[q].quota # 0
  BY PoolSpecAssumption DEF PoolSpecs
<1>2. Quotas(P) \ {0} = Quotas(P)
  BY <1>1 DEF Quotas
<1>3. IsFiniteSet(Quotas(P))
  <2> DEFINE f == [q \in P |-> PoolSpec[q].quota]
  <2>1. f \in Surjection(P, Quotas(P))
    BY DEF Surjection, Quotas
  <2>2. IsFiniteSet(P)
    BY FS_Subset
  <2> QED
    BY <2>1, <2>2, FS_Surjection
<1>4. PICK n : Quotas(P) = {n}
  BY <1>2, <1>3, FS_Singleton
<1>5. n = PoolSpec[p].quota /\ n \in Nat
  BY <1>1, <1>4 DEF Quotas
<1>6. Highest({n}) = n
  BY <1>5 DEF Highest
<1> QED
  BY <1>4, <1>5, <1>6 DEF Quota

\* What a request needs at a port is recorded under no more keys than it asks for listeners.
LEMMA NeededCount ==
  ASSUME NEW r \in PortSpecs, NEW port
  PROVE  LET keys == {Key(q) : q \in Needed(r, port)}
         IN  /\ IsFiniteSet(keys) /\ Cardinality(keys) \in Nat
             /\ Cardinality(ListenersOf(r.protocol)) \in Nat
             /\ Cardinality(keys) <= Cardinality(ListenersOf(r.protocol))
<1> DEFINE L == ListenersOf(r.protocol)
           At(m) == [port |-> port, endPort |-> SegmentEnd(port, SegmentLength(r.pools)), protocol |-> m]
           keys == {Key(q) : q \in Needed(r, port)}
           f == [m \in L |-> Key(At(m))]
<1>1. Needed(r, port) = {At(m) : m \in L}
  BY DEF Needed, PortsToAllocate
<1> HIDE DEF At
<1>2. f \in Surjection(L, keys)
  BY <1>1 DEF Surjection
<1>3. IsFiniteSet(L)
  <2>1. IsFiniteSet({"TCP"} \cup {"UDP"})
    BY FS_Singleton, FS_AddElement
  <2>2. {"TCP"} \cup {"UDP"} = L4Protocols
    BY DEF L4Protocols
  <2> QED
    BY <2>1, <2>2, FS_Singleton DEF ListenersOf
<1> HIDE DEF L, f, keys
<1>4. IsFiniteSet(keys) /\ Cardinality(keys) <= Cardinality(L)
  BY <1>2, <1>3, FS_Surjection
<1>5. Cardinality(keys) \in Nat /\ Cardinality(L) \in Nat
  BY <1>3, <1>4, FS_CardinalityType
<1> QED
  BY <1>4, <1>5 DEF keys, L

\* The caches stay within the quotas.
WithinQuotas ==
  \A p \in Pools, l \in LBs :
    IsFiniteSet(cache[p][l]) /\ Cardinality(cache[p][l]) <= PoolSpec[p].quota

\* The caches only become smaller.
CacheShrinks == \A p \in Pools, l \in LBs : cache'[p][l] \subseteq cache[p][l]

\* What is released or removed leaves a cache within its quota.
LEMMA SmallerCaches ==
  ASSUME WithinQuotas, CacheShrinks
  PROVE  WithinQuotas'
<1> SUFFICES ASSUME NEW p \in Pools, NEW l \in LBs
             PROVE  IsFiniteSet(cache'[p][l]) /\ Cardinality(cache'[p][l]) <= PoolSpec[p].quota
  BY DEF WithinQuotas
<1>1. IsFiniteSet(cache[p][l]) /\ Cardinality(cache[p][l]) <= PoolSpec[p].quota
  BY DEF WithinQuotas
<1>2. cache'[p][l] \in SUBSET cache[p][l]
  BY DEF CacheShrinks
<1>3. IsFiniteSet(cache'[p][l]) /\ Cardinality(cache'[p][l]) <= Cardinality(cache[p][l])
  BY <1>1, <1>2, FS_Subset
<1>4. Cardinality(cache[p][l]) \in Nat /\ Cardinality(cache'[p][l]) \in Nat /\ PoolSpec[p].quota \in Nat
  BY <1>1, <1>3, FS_CardinalityType, PoolSpecAssumption DEF PoolSpecs
<1> QED
  BY <1>1, <1>3, <1>4

\* A pool records what it gives to a search only on a load balancer with room for it.
LEMMA TakeWithinQuota ==
  ASSUME IsFiniteSet(Pools), \A p \in Pools : PoolSpec[p].quota > 0, Typed, WithinQuotas,
         NEW b \in Bindings, Asking(b), NEW p \in Pools, RangeTake(b, p) \/ SameTake(b, p)
  PROVE  WithinQuotas'
<1> DEFINE r == Request(b)
<1>1. r \in PortSpecs /\ p \in left[b] /\ pc[b] \in {"range", "same"}
  BY Found
<1>2. PICK l \in lbs[p], port \in Uint16 :
        /\ Take(b, p, l, Needed(r, port))
        /\ UnderQuota(cache[p][l], Quota(r.pools), r.protocol)
  BY Found
<1>3. p \in r.pools /\ r.pools \in SUBSET Pools /\ Cardinality(Quotas(r.pools) \ {0}) = 1
  BY <1>1 DEF Asking, Searching, PortSpecs
<1>4. Quota(r.pools) = PoolSpec[p].quota
  BY <1>3, OneQuota
<1> DEFINE keys == {Key(q) : q \in Needed(r, port)}
<1>5. cache' = [cache EXCEPT ![p][l] = @ \cup keys]
  BY <1>2 DEF Take, Record
<1>6. /\ IsFiniteSet(keys) /\ Cardinality(keys) \in Nat /\ Cardinality(ListenersOf(r.protocol)) \in Nat
      /\ Cardinality(keys) <= Cardinality(ListenersOf(r.protocol))
  BY <1>1, NeededCount
<1> HIDE DEF keys, r
<1>7. l \in LBs
  BY DEF Typed, TypeOK
<1>8. cache'[p][l] = cache[p][l] \cup keys
  BY <1>5, <1>7 DEF Typed, TypeOK
<1>9. IsFiniteSet(cache[p][l])
  BY <1>7 DEF WithinQuotas
<1>10. IsFiniteSet(cache'[p][l]) /\ Cardinality(cache'[p][l]) <= PoolSpec[p].quota
  <2>1. /\ IsFiniteSet(cache[p][l] \cup keys)
        /\ Cardinality(cache[p][l] \cup keys)
             = Cardinality(cache[p][l]) + Cardinality(keys) - Cardinality(cache[p][l] \cap keys)
    BY <1>6, <1>9, FS_Union
  <2>2. IsFiniteSet(cache[p][l] \cap keys)
    BY <1>9, FS_Subset
  <2>3. Cardinality(cache[p][l] \cap keys) \in Nat /\ Cardinality(cache[p][l]) \in Nat
    BY <1>9, <2>2, FS_CardinalityType
  <2>4. Cardinality(cache[p][l]) + Cardinality(ListenersOf(r.protocol)) <= PoolSpec[p].quota
    BY <1>2, <1>4 DEF UnderQuota
  <2>5. PoolSpec[p].quota \in Nat
    BY PoolSpecAssumption DEF PoolSpecs
  <2> QED
    BY <1>6, <1>8, <2>1, <2>3, <2>4, <2>5
<1>11. \A q \in Pools, m \in LBs : <<q, m>> # <<p, l>> => cache'[q][m] = cache[q][m]
  BY <1>5, <1>7 DEF Typed, TypeOK
<1> QED
  BY <1>10, <1>11 DEF WithinQuotas

\* No other step adds to a cache (Erase, SetLbs).
LEMMA QuotaStep ==
  ASSUME IsFiniteSet(Pools), \A p \in Pools : PoolSpec[p].quota > 0,
         EntriesInv, WithinQuotas, [Next]_vars
  PROVE  WithinQuotas'
<1> USE DEF EntriesInv, Typed, TypeOK, CacheShrinks
<1>1. ASSUME NEW b \in Bindings, WorkerStep(b)
      PROVE  WithinQuotas'
  <2>1. CASE StartSync(b) \/ Disable(b) \/ StartDelete(b)
    BY <2>1, SmallerCaches DEF StartSync, Disable, StartDelete, poolVars
  <2>2. CASE SkipEntry(b) \/ RefuseEntry(b) \/ FailLookup(b) \/ Lookup(b) \/ SameExhausted(b)
    BY <2>2, SmallerCaches DEF SkipEntry, RefuseEntry, FailLookup, Lookup, SameExhausted, ReleasePorts,
       poolVars
  <2>3. CASE EndRelease(b) \/ NextPort(b) \/ EndEntries(b) \/ WriteStatus(b) \/ WriteFails(b)
    BY <2>3, SmallerCaches DEF EndRelease, NextPort, EndEntries, WriteStatus, WriteFails, ReleasePorts,
       poolVars
  <2>4. CASE EnsureListeners(b) \/ EndUnbind(b)
    BY <2>4, SmallerCaches DEF EnsureListeners, EndUnbind, poolVars
  <2>5. ASSUME NEW a \in drop[b], ReleaseTaken(b, a) \/ ReleaseBinding(b, a)
        PROVE  WithinQuotas'
    <3>1. UNCHANGED cache \/ Erase(a)
      BY <2>5 DEF ReleaseTaken, ReleaseBinding
    <3>2. CASE Erase(a)
      <4>1. a.pool \in Pools /\ a.lb \in LBs
        BY <2>5 DEF Allocation
      <4> DEFINE kept == cache[a.pool][a.lb] \ {Key(a.port)}
      <4>2. cache' = [cache EXCEPT ![a.pool][a.lb] = kept]
        BY <3>2 DEF Erase
      <4>3. kept \subseteq cache[a.pool][a.lb]
        OBVIOUS
      <4> HIDE DEF kept
      <4>4. CacheShrinks
        BY <4>1, <4>2, <4>3
      <4> QED
        BY <4>4, SmallerCaches
    <3>3. CASE UNCHANGED cache
      BY <3>3, SmallerCaches
    <3> QED
      BY <3>1, <3>2, <3>3
  <2>6. ASSUME NEW p \in Pools, Ask(b, p)
        PROVE  WithinQuotas'
    <3>1. CASE RangeFail(b, p) \/ RangeSpin(b, p) \/ SameBusy(b, p) \/ SameFull(b, p)
      BY <3>1, SmallerCaches DEF RangeFail, RangeSpin, SameBusy, SameFull, ReleasePorts, poolVars
    <3>2. CASE RangeTake(b, p) \/ SameTake(b, p)
      BY <3>2, TakeWithinQuota DEF EntryInv
    <3> QED
      BY <2>6, <3>1, <3>2 DEF Ask
  <2> QED
    BY <1>1, <2>1, <2>2, <2>3, <2>4, <2>5, <2>6 DEF WorkerStep, Reconcile
<1>2. ASSUME NEW p \in Pools, PoolReconcile(p)
      PROVE  WithinQuotas'
  <2>1. CASE UNCHANGED cache
    BY <2>1, SmallerCaches
  <2>2. ASSUME NEW S, SetLbs(p, S)
        PROVE  CacheShrinks
    <3> DEFINE kept == [l \in LBs |-> IF l \in S \cap lbs[p] THEN cache[p][l] ELSE {}]
    <3>1. cache' = [cache EXCEPT ![p] = kept]
      BY <2>2 DEF SetLbs
    <3>2. \A l \in LBs : kept[l] \subseteq cache[p][l]
      OBVIOUS
    <3> HIDE DEF kept
    <3> QED
      BY <3>1, <3>2
  <2> QED
    BY <1>2, <2>1, <2>2, SmallerCaches DEF PoolReconcile, EnsurePool, ActivatePool, DeletePool,
       RemovePool, SetPhase, EnsureLbIds, RemoveLB
<1>3. CASE (\E l \in LBs : DeleteCloudLb(l)) \/ UNCHANGED vars
  BY <1>3, SmallerCaches DEF DeleteCloudLb, vars
<1> QED
  BY <1>1, <1>2, <1>3 DEF Next, WorkerStep

\* When the quota of every pool is known, no load balancer ever has more listeners than its
\* quota, with any number of workers asking at once (PortPool!QuotaRespected).  Without that
\* premise a pool whose quota is still 0 takes the quota of the pools asked with it.
THEOREM QuotaRespectedCorrect ==
  ASSUME IsFiniteSet(Pools), \A p \in Pools : PoolSpec[p].quota > 0
  PROVE  Spec => []QuotaRespected
<1>1. Init => WithinQuotas
  <2> SUFFICES ASSUME Init PROVE WithinQuotas
    OBVIOUS
  <2>1. \A p \in Pools, l \in LBs : cache[p][l] = {}
    BY DEF Init
  <2>2. IsFiniteSet({}) /\ Cardinality({}) = 0
    BY FS_EmptySet
  <2>3. \A p \in Pools : 0 <= PoolSpec[p].quota
    BY PoolSpecAssumption DEF PoolSpecs
  <2> QED
    BY <2>1, <2>2, <2>3 DEF WithinQuotas
<1>2. EntriesInv /\ WithinQuotas /\ [Next]_vars => WithinQuotas'
  BY QuotaStep
<1>3. WithinQuotas => QuotaRespected
  BY DEF WithinQuotas, QuotaRespected
<1> QED
  BY <1>1, <1>2, <1>3, EntriesCorrect, PTL DEF Spec

-----------------------------------------------------------------------------
(* Ranges.  A walk that cannot pass the largest port number stays in the   *)
(* range: the next number after the end port is a number past the end.     *)

\* The range of every request ends a segment below the largest port number or earlier, so that
\* no step of a walk that begins in the range wraps around.
NoWrap ==
  \A b \in Bindings : \A e \in DOMAIN PortSpec[b] :
    LET P == PortSpec[b][e].pools
    IN  EndPort(P) + SegmentLength(P) <= MaxUint16

\* The highest and the lowest of some port numbers.
LEMMA HighestBounds ==
  ASSUME NEW S \in SUBSET Uint16, S # {}
  PROVE  Highest(S) \in S /\ \A m \in S : m <= Highest(S)
<1> DEFINE Gaps == {MaxUint16 - n : n \in S}
<1>1. Gaps \in SUBSET Nat /\ Gaps # {}
  <2>1. \A n \in S : MaxUint16 - n \in Nat
    BY MaxUint16Assumption DEF Uint16
  <2> QED
    BY <2>1
<1> HIDE DEF Gaps
<1>2. PICK r \in Gaps : \A s \in Gaps : r <= s
  BY <1>1, LeastNat
<1>3. PICK n \in S : r = MaxUint16 - n
  BY DEF Gaps
<1>4. \A m \in S : m <= n
  BY <1>2, <1>3, MaxUint16Assumption DEF Gaps, Uint16
<1> QED
  BY <1>4 DEF Highest

\* The same for the lowest.
LEMMA LowestBounds ==
  ASSUME NEW S \in SUBSET Uint16, S # {}
  PROVE  Lowest(S) \in S /\ \A m \in S : Lowest(S) <= m
<1>1. S \in SUBSET Nat
  BY MaxUint16Assumption DEF Uint16
<1>2. \E n \in S : \A m \in S : n <= m
  BY <1>1, LeastNat
<1> QED
  BY <1>2 DEF Lowest

\* The range of some pools lies in the range of each of them.
LEMMA RangeBounds ==
  ASSUME NEW P \in (SUBSET Pools) \ {{}}
  PROVE  /\ StartPort(P) \in Nat /\ EndPort(P) \in Nat /\ SegmentLength(P) \in Nat \ {0}
         /\ \A p \in P : PoolSpec[p].startPort <= StartPort(P) /\ EndPort(P) <= PoolSpec[p].endPort
<1> DEFINE Starts == {PoolSpec[p].startPort : p \in P}
           Ends == {PoolSpec[p].endPort : p \in P}
<1>1. \A p \in P : PoolSpec[p] \in PoolSpecs
  BY PoolSpecAssumption
<1>2. Starts \in SUBSET Uint16 /\ Starts # {} /\ Ends \in SUBSET Uint16 /\ Ends # {}
  BY <1>1 DEF PoolSpecs
<1>3. SegmentLengths(P) \in SUBSET Uint16 /\ 0 \notin SegmentLengths(P)
  BY <1>1 DEF PoolSpecs, SegmentLengths
<1>4. StartPort(P) \in Starts /\ \A n \in Starts : n <= StartPort(P)
  BY <1>2, HighestBounds DEF StartPort
<1>5. EndPort(P) \in Ends /\ \A n \in Ends : EndPort(P) <= n
  BY <1>2, LowestBounds DEF EndPort
<1>6. StartPort(P) \in Nat /\ EndPort(P) \in Nat
  BY <1>2, <1>4, <1>5, MaxUint16Assumption DEF Uint16
<1>7. SegmentLength(P) \in Nat \ {0}
  <2>1. SegmentLengths(P) # {} => SegmentLength(P) \in SegmentLengths(P)
    BY <1>3, HighestBounds DEF SegmentLength
  <2> QED
    BY <1>3, <2>1, MaxUint16Assumption DEF SegmentLength, Uint16
<1> QED
  BY <1>4, <1>5, <1>6, <1>7

\* The range of the entry a worker is at ends below the top.
LEMMA BelowTop ==
  ASSUME NoWrap, TypeOK, NEW b \in Bindings, entry[b] <= Len(PortSpec[b])
  PROVE  EndPort(Request(b).pools) + SegmentLength(Request(b).pools) <= MaxUint16
<1>1. entry[b] \in DOMAIN PortSpec[b]
  BY PortSpecAssumption DEF TypeOK
<1> QED
  BY <1>1 DEF NoWrap, Request

\* One step further on the walk.
LEMMA NextOfWalk ==
  ASSUME NEW start \in Nat, NEW length \in Nat, NEW k \in Nat
  PROVE  start + (k + 1) * length = (start + k * length) + length
<1>1. (k + 1) * length = k * length + length
  OBVIOUS
<1>2. k * length \in Nat
  OBVIOUS
<1> QED
  BY <1>1, <1>2

\* A walk advances by at least one number per step.
LEMMA WalkAdvances ==
  ASSUME NEW length \in Nat \ {0}, NEW k \in Nat
  PROVE  k * length \in Nat /\ k <= k * length
<1> DEFINE m == length - 1
<1>1. m \in Nat /\ length = m + 1
  OBVIOUS
<1> HIDE DEF m
<1>2. k * (m + 1) = k * m + k /\ k * m \in Nat
  BY <1>1
<1> QED
  BY <1>1, <1>2

\* A sum below the top has no carry.
LEMMA NoCarry ==
  ASSUME NEW n \in Nat, n <= MaxUint16
  PROVE  Wrap(n) = n
BY MaxUint16Assumption DEF Wrap

\* Below the top the walk does not wrap around.
LEMMA StraightPort ==
  ASSUME NEW start \in Nat, NEW length \in Nat, NEW k \in Nat, start + k * length <= MaxUint16
  PROVE  WalkPort(start, length, k) = start + k * length
<1>1. start + k * length \in Nat
  OBVIOUS
<1> QED
  BY <1>1, MaxUint16Assumption DEF WalkPort, Wrap

\* Every index the walk reaches is of a port between the start and the end.
LEMMA StraightWalk ==
  ASSUME NEW start \in Nat, NEW end \in Nat, NEW length \in Nat \ {0},
         start <= end, end + length <= MaxUint16, NEW k \in Walk(start, end, length)
  PROVE  start + k * length <= end
<1> DEFINE Past == {j \in Nat : j <= k /\ start + j * length > end}
<1>1. k \in Nat /\ \A j \in 0 .. k : WalkPort(start, length, j) <= end
  BY MaxUint16Assumption DEF Walk, Uint16
<1>2. SUFFICES ASSUME Past # {} PROVE FALSE
  <2>1. start + k * length \in Nat
    BY <1>1
  <2>2. ASSUME start + k * length > end
        PROVE  k \in Past
    BY <1>1, <2>2
  <2> HIDE DEF Past
  <2> QED
    BY <2>1, <2>2
<1>3. PICK n \in Past : \A j \in Past : n <= j
  BY <1>2, LeastNat
<1>4. n \in Nat /\ n <= k /\ start + n * length > end
  OBVIOUS
<1>5. n # 0
  <2>1. start + 0 * length = start
    OBVIOUS
  <2> QED
    BY <1>4, <2>1
<1>6. n - 1 \in Nat /\ n - 1 \notin Past
  BY <1>3, <1>4, <1>5
<1>7. start + (n - 1) * length \in Nat /\ start + (n - 1) * length <= end
  <2>1. start + (n - 1) * length \in Nat
    BY <1>6
  <2> QED
    BY <1>1, <1>4, <1>6, <2>1
<1>8. start + n * length = (start + (n - 1) * length) + length
  BY <1>4, <1>6, NextOfWalk
<1>9. start + n * length <= MaxUint16
  BY <1>7, <1>8, MaxUint16Assumption
<1>10. WalkPort(start, length, n) = start + n * length
  BY <1>4, <1>9, StraightPort
<1> QED
  BY <1>1, <1>4, <1>10

\* Where the walk of a worker is: it has not passed the end by more than one step.
WalkInv(b) ==
  LET start == StartPort(Request(b).pools)
      end == EndPort(Request(b).pools)
      length == SegmentLength(Request(b).pools)
  IN  /\ ~Searching(b) /\ pc[b] # "spin" => index[b] = 0
      /\ pc[b] = "same" => start + index[b] * length <= end + length
      /\ pc[b] = "undoSame" => start + index[b] * length <= end

\* What a search finds is a port of the walk, in the range of the pool it asks.
LEMMA FoundInRange ==
  ASSUME NoWrap, Typed, NEW b \in Bindings, Asking(b), WalkInv(b), NEW p \in Pools,
         RangeTake(b, p) \/ SameTake(b, p)
  PROVE  \E l \in lbs[p], port \in Uint16 :
           /\ Take(b, p, l, Needed(Request(b), port))
           /\ PoolSpec[p].startPort <= port /\ port <= PoolSpec[p].endPort
           /\ port <= EndPort(Request(b).pools)
           /\ \E k \in Nat :
                port = StartPort(Request(b).pools) + k * SegmentLength(Request(b).pools)
<1> DEFINE P == Request(b).pools
           start == StartPort(P)
           length == SegmentLength(P)
<1>1. Request(b) \in PortSpecs /\ p \in left[b] /\ pc[b] \in {"range", "same"}
  BY Found
<1>2. PICK l \in lbs[p], k \in Nat :
        /\ Take(b, p, l, Needed(Request(b), WalkPort(start, length, k)))
        /\ WalkPort(start, length, k) \in Uint16
        /\ WalkPort(start, length, k) <= EndPort(P)
        /\ pc[b] = "range" => k \in Walk(start, EndPort(P), length)
        /\ pc[b] = "same" => k = index[b]
  BY Found
<1>3. P \in (SUBSET Pools) \ {{}} /\ p \in P /\ start <= EndPort(P)
  BY <1>1 DEF PortSpecs, Asking, Searching
<1>a. entry[b] <= Len(PortSpec[b])
  BY <1>1 DEF Typed, AskingOK
<1>4. /\ start \in Nat /\ EndPort(P) \in Nat /\ length \in Nat \ {0}
      /\ EndPort(P) + length <= MaxUint16
      /\ PoolSpec[p].startPort <= start /\ EndPort(P) <= PoolSpec[p].endPort
  BY <1>3, <1>a, RangeBounds, BelowTop DEF Typed
<1>5. start + k * length \in Nat /\ start <= start + k * length
  <2>1. k * length \in Nat
    BY <1>4
  <2> QED
    BY <1>4, <2>1
<1>6. start + k * length <= MaxUint16
  <2>1. CASE pc[b] = "range"
    <3>1. start + k * length <= EndPort(P)
      BY <1>2, <1>3, <1>4, <2>1, StraightWalk
    <3> QED
      BY <1>4, <1>5, <3>1, MaxUint16Assumption
  <2>2. CASE pc[b] = "same"
    <3>1. start + k * length <= EndPort(P) + length
      BY <1>2, <2>2 DEF WalkInv
    <3> QED
      BY <1>4, <1>5, <3>1, MaxUint16Assumption
  <2> QED
    BY <1>1, <2>1, <2>2
<1>7. WalkPort(start, length, k) = start + k * length
  BY <1>4, <1>6, StraightPort
<1>8. PoolSpec[p].startPort \in Nat /\ PoolSpec[p].endPort \in Nat
  BY PoolSpecAssumption, MaxUint16Assumption DEF PoolSpecs, Uint16
<1> DEFINE port == WalkPort(start, length, k)
<1>9. PoolSpec[p].startPort <= port /\ port <= PoolSpec[p].endPort
  BY <1>2, <1>4, <1>5, <1>7, <1>8
<1>10. \E j \in Nat : port = start + j * length
  BY <1>7
<1> QED
  BY <1>2, <1>9, <1>10

\* Nothing of a worker changes, its walk is where it was.
LEMMA WalkStays ==
  ASSUME NEW b \in Bindings, WalkInv(b), UNCHANGED Mine(b)
  PROVE  WalkInv(b)'
<1>1. pc'[b] = pc[b] /\ entry'[b] = entry[b] /\ index'[b] = index[b]
  BY DEF Mine
<1>2. Request(b)' = Request(b)
  BY <1>1 DEF Request
<1> QED
  BY <1>1, <1>2 DEF WalkInv, Searching

\* Every step of a worker keeps its walk in bounds.
LEMMA WorkerWalk ==
  ASSUME NoWrap, Typed, NEW b \in Bindings, Asking(b), WalkInv(b), WorkerStep(b)
  PROVE  WalkInv(b)'
<1> USE DEF Typed, TypeOK, Goto, Forget, ReleasePorts
<1>1. CASE StartSync(b) \/ Disable(b) \/ StartDelete(b)
  BY <1>1 DEF StartSync, Disable, StartDelete, WalkInv, Searching, workVars
<1>2. CASE SkipEntry(b) \/ RefuseEntry(b) \/ FailLookup(b) \/ SameExhausted(b)
  BY <1>2 DEF SkipEntry, RefuseEntry, FailLookup, SameExhausted, AtEntry, WalkInv, Searching
<1>3. CASE Lookup(b)
  <2>1. /\ pc'[b] \in {"range", "same"} /\ index'[b] = 0 /\ Request(b)' = Request(b)
        /\ StartPort(Request(b).pools) <= EndPort(Request(b).pools)
    BY <1>3 DEF Lookup, LookupSucceeds, Allocatable, AtEntry, Request, WalkInv, Searching
  <2>2. Request(b).pools \in (SUBSET Pools) \ {{}}
    BY <1>3, RequestType DEF Lookup, AtEntry, PortSpecs
  <2> DEFINE start == StartPort(Request(b).pools)
             length == SegmentLength(Request(b).pools)
             end == EndPort(Request(b).pools)
  <2>3. start \in Nat /\ end \in Nat /\ length \in Nat
    BY <2>2, RangeBounds
  <2>4. start + 0 * length <= end + length
    BY <2>1, <2>3
  <2> QED
    BY <2>1, <2>4 DEF WalkInv, Searching
<1>4. CASE EndRelease(b) \/ EndEntries(b) \/ WriteStatus(b) \/ WriteFails(b)
  BY <1>4 DEF EndRelease, EndEntries, WriteStatus, WriteFails, WalkInv, Searching
<1>5. CASE NextPort(b)
  <2>1. /\ pc[b] = "undoSame" /\ pc'[b] = "same" /\ index'[b] = Wrap(index[b] + 1)
        /\ Request(b)' = Request(b)
    BY <1>5 DEF NextPort, Request
  <2>2. Request(b).pools \in (SUBSET Pools) \ {{}}
    BY <2>1, RequestType DEF AskingOK, PortSpecs
  <2> DEFINE start == StartPort(Request(b).pools)
             length == SegmentLength(Request(b).pools)
             end == EndPort(Request(b).pools)
  <2>3. start \in Nat /\ end \in Nat /\ length \in Nat \ {0} /\ end + length <= MaxUint16
    BY <2>1, <2>2, RangeBounds, BelowTop DEF AskingOK
  <2>4. index[b] \in Nat /\ start + index[b] * length <= end
    BY <2>1, MaxUint16Assumption DEF WalkInv, Uint16
  <2>5. index[b] <= index[b] * length /\ index[b] * length \in Nat
    BY <2>3, <2>4, WalkAdvances
  <2>6. index[b] + 1 <= MaxUint16
    BY <2>3, <2>4, <2>5, MaxUint16Assumption
  <2>7. Wrap(index[b] + 1) = index[b] + 1
    <3>1. index[b] + 1 \in Nat
      BY <2>4
    <3> QED
      BY <2>6, <3>1, NoCarry
  <2>8. start + (index[b] + 1) * length = (start + index[b] * length) + length
    BY <2>3, <2>4, NextOfWalk
  <2>9. start + (index[b] + 1) * length <= end + length
    BY <2>3, <2>4, <2>5, <2>8
  <2> QED
    BY <2>1, <2>7, <2>9 DEF WalkInv, Searching
<1>6. CASE EnsureListeners(b) \/ EndUnbind(b)
  BY <1>6 DEF EnsureListeners, EndUnbind, WalkInv, Searching, Unbinding
<1>7. ASSUME NEW a \in drop[b], ReleaseTaken(b, a) \/ ReleaseBinding(b, a)
      PROVE  WalkInv(b)'
  BY <1>7, WalkStays DEF ReleaseTaken, ReleaseBinding, Mine, statusVars
<1>8. ASSUME NEW p \in Pools, RangeFail(b, p) \/ RangeSpin(b, p) \/ SameFull(b, p)
      PROVE  WalkInv(b)'
  BY <1>8 DEF RangeFail, RangeSpin, SameFull, WalkInv, Searching
<1>9. ASSUME NEW p \in Pools, SameBusy(b, p)
      PROVE  WalkInv(b)'
  <2>1. /\ pc[b] = "same" /\ pc'[b] = "undoSame" /\ index'[b] = index[b] /\ Request(b)' = Request(b)
        /\ RequestPort(b) <= EndPort(Request(b).pools)
    BY <1>9 DEF SameBusy, Asks, Request
  <2>2. Request(b).pools \in (SUBSET Pools) \ {{}}
    BY <2>1, RequestType DEF AskingOK, PortSpecs
  <2> DEFINE start == StartPort(Request(b).pools)
             length == SegmentLength(Request(b).pools)
             end == EndPort(Request(b).pools)
  <2>3. start \in Nat /\ end \in Nat /\ length \in Nat \ {0} /\ end + length <= MaxUint16
    BY <2>1, <2>2, RangeBounds, BelowTop DEF AskingOK
  <2>4. index[b] \in Nat /\ start + index[b] * length <= end + length
    BY <2>1, MaxUint16Assumption DEF WalkInv, Uint16
  <2>5. index[b] * length \in Nat
    BY <2>3, <2>4, WalkAdvances
  <2>6. RequestPort(b) = start + index[b] * length
    BY <2>3, <2>4, <2>5, StraightPort, MaxUint16Assumption DEF RequestPort
  <2> QED
    BY <2>1, <2>6 DEF WalkInv, Searching
<1>10. ASSUME NEW p \in Pools, RangeTake(b, p) \/ SameTake(b, p)
       PROVE  WalkInv(b)'
  <2>1. PICK l \in lbs[p], port \in Uint16 : Take(b, p, l, Needed(Request(b), port))
    BY <1>10, FoundInRange
  <2>2. pc[b] \in {"range", "same"}
    BY <1>10 DEF RangeTake, SameTake, Asks
  <2>3. CASE left[b] = {p}
    BY <2>1, <2>2, <2>3 DEF Take, WalkInv, Searching
  <2>4. CASE left[b] # {p}
    <3>1. pc'[b] = pc[b] /\ index'[b] = index[b] /\ Request(b)' = Request(b)
      BY <2>1, <2>4 DEF Take, Request
    <3> QED
      BY <2>2, <3>1 DEF WalkInv, Searching
  <2> QED
    BY <2>3, <2>4
<1> QED
  BY <1>1, <1>2, <1>3, <1>4, <1>5, <1>6, <1>7, <1>8, <1>9, <1>10 DEF WorkerStep, Reconcile, Ask

\* Only a search adds to what a binding or its worker has, and only what it takes.
LEMMA OwnedGrows ==
  ASSUME Typed, [Next]_vars, NEW b \in Bindings, NEW x \in Owned(b)'
  PROVE  \/ x \in Owned(b)
         \/ \E p \in Pools :
              /\ RangeTake(b, p) \/ SameTake(b, p)
              /\ \A l, ports : Take(b, p, l, ports) =>
                   x.entry = entry[b] /\ x.pool = p /\ x.lb = l /\ x.port \in ports
<1> USE DEF Typed, TypeOK, Goto, Forget, ReleasePorts, Owned
<1>1. CASE ~WorkerStep(b)
  <2>1. \/ \E d \in Bindings \ {b} : WorkerStep(d)
        \/ \E p \in Pools : PoolReconcile(p)
        \/ \E l \in LBs : DeleteCloudLb(l)
        \/ UNCHANGED vars
    BY <1>1 DEF Next, WorkerStep
  <2>2. UNCHANGED Mine(b) /\ drop'[b] = drop[b]
    BY <2>1, OthersStay
  <2> QED
    BY <2>2 DEF Mine
<1>2. CASE StartSync(b) \/ Disable(b) \/ StartDelete(b)
  BY <1>2 DEF StartSync, Disable, StartDelete, workVars, statusVars
<1>3. CASE SkipEntry(b) \/ RefuseEntry(b) \/ FailLookup(b) \/ Lookup(b) \/ SameExhausted(b)
  BY <1>3 DEF SkipEntry, RefuseEntry, FailLookup, Lookup, SameExhausted, statusVars
<1>4. CASE EndRelease(b) \/ NextPort(b) \/ EndEntries(b) \/ WriteStatus(b) \/ WriteFails(b)
  BY <1>4 DEF EndRelease, NextPort, EndEntries, WriteStatus, WriteFails, statusVars
<1>5. CASE EnsureListeners(b)
  <2>1. \A a \in drop'[b] : a \in held[b]
    BY <1>5 DEF EnsureListeners, Lost
  <2> QED
    BY <1>5, <2>1 DEF EnsureListeners
<1>6. CASE EndUnbind(b)
  BY <1>6 DEF EndUnbind
<1>7. ASSUME NEW a \in drop[b], ReleaseTaken(b, a) \/ ReleaseBinding(b, a)
      PROVE  x \in Owned(b)
  BY <1>7 DEF ReleaseTaken, ReleaseBinding, statusVars
<1>8. ASSUME NEW p \in Pools, RangeFail(b, p) \/ RangeSpin(b, p) \/ SameBusy(b, p) \/ SameFull(b, p)
      PROVE  x \in Owned(b)
  BY <1>8 DEF RangeFail, RangeSpin, SameBusy, SameFull, statusVars
<1>9. ASSUME x \notin Owned(b), NEW p, NEW l, NEW ports, Take(b, p, l, ports)
      PROVE  x.entry = entry[b] /\ x.pool = p /\ x.lb = l /\ x.port \in ports
  <2> DEFINE new == {[entry |-> entry[b], pool |-> p, lb |-> l, port |-> q] : q \in ports}
  <2>1. /\ taken'[b] \cup got'[b] \subseteq taken[b] \cup got[b] \cup new
        /\ drop'[b] = drop[b] /\ held'[b] = held[b]
    BY <1>9 DEF Take, statusVars
  <2>2. x \in new
    BY <1>9, <2>1
  <2> QED
    BY <2>2
<1> QED
  BY <1>1, <1>2, <1>3, <1>4, <1>5, <1>6, <1>7, <1>8, <1>9 DEF WorkerStep, Reconcile, Ask

\* Where the walks of all workers are.
Walks == \A b \in Bindings : WalkInv(b)

\* Every step keeps the walks of all workers in bounds.
LEMMA WalksStep ==
  ASSUME NoWrap, EntriesInv, Walks, [Next]_vars
  PROVE  Walks'
<1> SUFFICES ASSUME NEW b \in Bindings
             PROVE  WalkInv(b)'
  BY DEF Walks
<1>1. Typed /\ Asking(b) /\ WalkInv(b)
  BY DEF EntriesInv, EntryInv, Walks
<1>2. CASE WorkerStep(b)
  BY <1>1, <1>2, WorkerWalk
<1>3. CASE ~WorkerStep(b)
  <2>1. \/ \E d \in Bindings \ {b} : WorkerStep(d)
        \/ \E p \in Pools : PoolReconcile(p)
        \/ \E l \in LBs : DeleteCloudLb(l)
        \/ UNCHANGED vars
    BY <1>3 DEF Next, WorkerStep
  <2>2. UNCHANGED Mine(b)
    BY <1>1, <2>1, OthersStay
  <2> QED
    BY <1>1, <2>2, WalkStays
<1> QED
  BY <1>2, <1>3

\* Every port that is taken, recorded in a status or being released is in the range of its
\* pool, when every request's range ends far enough below the largest port number (PortPool!InRange);
\* without that premise the walk wraps around to low numbers.
THEOREM InRangeCorrect ==
  ASSUME NoWrap
  PROVE  Spec => []InRange
<1>1. Init => InRange /\ Walks
  BY DEF Init, InRange, Owned, Walks, WalkInv, Searching
<1>2. ASSUME EntriesInv, Walks, [Next]_vars
      PROVE  Walks'
  BY <1>2, WalksStep
<1>3. ASSUME EntriesInv, InRange, Walks, [Next]_vars
      PROVE  InRange'
  <2> SUFFICES ASSUME NEW b \in Bindings, NEW a \in Owned(b)'
               PROVE  PoolSpec[a.pool].startPort <= a.port.port /\ a.port.port <= PoolSpec[a.pool].endPort
    BY DEF InRange
  <2>1. Typed /\ Asking(b) /\ WalkInv(b)
    BY <1>3 DEF EntriesInv, EntryInv, Walks
  <2>2. CASE a \in Owned(b)
    BY <1>3, <2>2 DEF InRange
  <2>3. CASE a \notin Owned(b)
    <3>1. PICK p \in Pools :
            /\ RangeTake(b, p) \/ SameTake(b, p)
            /\ \A l, ports : Take(b, p, l, ports) => a.pool = p /\ a.port \in ports
      BY <1>3, <2>1, <2>3, OwnedGrows
    <3>2. PICK l \in lbs[p], port \in Uint16 :
            /\ Take(b, p, l, Needed(Request(b), port))
            /\ PoolSpec[p].startPort <= port /\ port <= PoolSpec[p].endPort
      BY <2>1, <3>1, FoundInRange
    <3>3. Request(b) \in PortSpecs
      BY <2>1, <3>1, Found
    <3>4. a.pool = p /\ a.port.port = port
      BY <3>1, <3>2, <3>3, NeededPorts
    <3> QED
      BY <3>2, <3>4
  <2> QED
    BY <2>2, <2>3
<1>4. EntriesInv /\ InRange /\ Walks /\ [Next]_vars => (InRange /\ Walks)'
  BY <1>2, <1>3
<1> QED
  BY <1>1, <1>4, EntriesCorrect, PTL DEF Spec

-----------------------------------------------------------------------------
(* No ghosts.  What leaves a worker's hands without a release either was   *)
(* abandoned or is on a load balancer that left its pool; the latter are   *)
(* the ports that wait in lost for the status write, and their load        *)
(* balancer must not come back meanwhile.                                  *)

\* Every port in lost is abandoned, or its load balancer left the pool.
LostOK ==
  \A b \in Bindings : \A a \in lost[b] :
    a \in abandoned \/ (~IsLbExists(a.pool, a.lb) /\ a.lb \in lbs[a.pool] \cup gone[a.pool])

\* A port that a worker no longer has was released, abandoned, or is removed from the status.
LEMMA OwnersStay ==
  ASSUME Inv, [Next]_vars, NEW b \in Bindings, NEW a \in Owned(b), a \notin Owned(b)'
  PROVE  a \in abandoned' \/ a \in lost[b] \/ ReleaseTaken(b, a) \/ ReleaseBinding(b, a)
<1> USE DEF Inv, Typed, TypeOK, Goto, Forget, ReleasePorts, Owned
<1>1. CASE ~WorkerStep(b)
  <2>1. \/ \E d \in Bindings \ {b} : WorkerStep(d)
        \/ \E p \in Pools : PoolReconcile(p)
        \/ \E l \in LBs : DeleteCloudLb(l)
        \/ UNCHANGED vars
    BY <1>1 DEF Next, WorkerStep
  <2>2. UNCHANGED Mine(b) /\ drop'[b] = drop[b]
    BY <2>1, OthersStay
  <2> QED
    BY <2>2 DEF Mine
<1>2. CASE StartSync(b) \/ Disable(b) \/ StartDelete(b)
  BY <1>2 DEF StartSync, Disable, StartDelete, workVars, statusVars, Phases, Unbinding
<1>3. CASE SkipEntry(b) \/ RefuseEntry(b) \/ FailLookup(b) \/ Lookup(b) \/ SameExhausted(b)
  BY <1>3 DEF SkipEntry, RefuseEntry, FailLookup, Lookup, SameExhausted, AtEntry, statusVars, Phases,
     Unbinding
<1>4. CASE EndRelease(b) \/ NextPort(b) \/ EndEntries(b) \/ WriteStatus(b) \/ WriteFails(b)
  BY <1>4 DEF EndRelease, NextPort, EndEntries, WriteStatus, WriteFails, statusVars, Phases, Unbinding
<1>5. CASE EnsureListeners(b)
  BY <1>5 DEF EnsureListeners, Phases, Unbinding
<1>6. CASE EndUnbind(b)
  BY <1>6 DEF EndUnbind
<1>7. ASSUME NEW d \in drop[b], ReleaseTaken(b, d) \/ ReleaseBinding(b, d)
      PROVE  ReleaseTaken(b, a) \/ ReleaseBinding(b, a)
  <2>1. a = d
    BY <1>7 DEF ReleaseTaken, ReleaseBinding, statusVars
  <2> QED
    BY <1>7, <2>1
<1>8. ASSUME NEW p \in Pools, RangeFail(b, p) \/ RangeSpin(b, p) \/ SameBusy(b, p) \/ SameFull(b, p)
      PROVE  FALSE
  BY <1>8 DEF RangeFail, RangeSpin, SameBusy, SameFull, Asks, statusVars, Phases, Unbinding
<1>9. ASSUME NEW p \in Pools, RangeTake(b, p) \/ SameTake(b, p)
      PROVE  FALSE
  <2>1. PICK l, ports : Take(b, p, l, ports)
    BY <1>9 DEF RangeTake, SameTake
  <2> QED
    BY <2>1 DEF Take, statusVars
<1> QED
  BY <1>1, <1>2, <1>3, <1>4, <1>5, <1>6, <1>7, <1>8, <1>9 DEF WorkerStep, Reconcile, Ask

\* A key that is recorded on a load balancer of a pool was recorded before, or is new.
LEMMA KeyOrigin ==
  ASSUME Inv, [Next]_vars, NEW p \in Pools, NEW l \in LBs, IsLbExists(p, l)', NEW k \in cache'[p][l]
  PROVE  \/ IsLbExists(p, l) /\ k \in cache[p][l]
         \/ \E b \in Bindings : \E ports : Take(b, p, l, ports) /\ k \in {Key(q) : q \in ports}
<1> USE DEF Inv, Typed, TypeOK, IsLbExists
<1>1. CASE UNCHANGED <<poolState, lbs, cache>>
  BY <1>1
<1>2. ASSUME NEW b \in Bindings, WorkerStep(b)
      PROVE  \/ IsLbExists(p, l) /\ k \in cache[p][l]
             \/ \E ports : Take(b, p, l, ports) /\ k \in {Key(q) : q \in ports}
  <2>1. CASE \/ StartSync(b) \/ SkipEntry(b) \/ RefuseEntry(b) \/ FailLookup(b) \/ Lookup(b)
             \/ \E q \in Pools : RangeFail(b, q) \/ RangeSpin(b, q) \/ SameBusy(b, q) \/ SameFull(b, q)
             \/ SameExhausted(b) \/ EndRelease(b) \/ NextPort(b) \/ EndEntries(b)
             \/ WriteStatus(b) \/ WriteFails(b) \/ EnsureListeners(b) \/ EndUnbind(b)
             \/ Disable(b) \/ StartDelete(b)
    BY <1>1, <2>1, WorkerKeeps DEF Kept
  <2>2. ASSUME NEW a \in drop[b], ReleaseTaken(b, a) \/ ReleaseBinding(b, a)
        PROVE  IsLbExists(p, l) /\ k \in cache[p][l]
    <3>1. a.pool \in Pools /\ a.lb \in LBs
      BY <2>2 DEF Allocation
    <3>2. UNCHANGED <<poolState, lbs>> /\ (UNCHANGED cache \/ Erase(a))
      BY <2>2 DEF ReleaseTaken, ReleaseBinding
    <3>3. cache'[p][l] \subseteq cache[p][l]
      <4> DEFINE kept == cache[a.pool][a.lb] \ {Key(a.port)}
      <4>1. UNCHANGED cache \/ cache' = [cache EXCEPT ![a.pool][a.lb] = kept]
        BY <3>2 DEF Erase
      <4>2. kept \subseteq cache[a.pool][a.lb]
        OBVIOUS
      <4> HIDE DEF kept
      <4>3. cache \in [Pools -> [LBs -> SUBSET ProtocolPort]]
        OBVIOUS
      <4>4. CASE p = a.pool /\ l = a.lb
        BY <3>1, <4>1, <4>2, <4>3, <4>4
      <4>5. CASE ~(p = a.pool /\ l = a.lb)
        <5>1. cache'[p][l] = cache[p][l]
          BY <3>1, <4>1, <4>3, <4>5
        <5> QED
          BY <5>1
      <4> QED
        BY <4>4, <4>5
    <3> QED
      BY <3>2, <3>3
  <2>3. ASSUME NEW q \in Pools, RangeTake(b, q) \/ SameTake(b, q)
        PROVE  \/ IsLbExists(p, l) /\ k \in cache[p][l]
               \/ \E ports : Take(b, p, l, ports) /\ k \in {Key(r) : r \in ports}
    <3>1. PICK m, ports : m \in LBs /\ Take(b, q, m, ports)
      BY <2>3 DEF RangeTake, SameTake, Room
    <3> DEFINE keys == {Key(r) : r \in ports}
    <3>2. UNCHANGED <<poolState, lbs>> /\ cache' = [cache EXCEPT ![q][m] = @ \cup keys]
      BY <3>1 DEF Take, Record
    <3> HIDE DEF keys
    <3>3. k \in cache[p][l] \/ (q = p /\ m = l /\ k \in keys)
      BY <3>2
    <3> QED
      BY <3>1, <3>2, <3>3 DEF keys
  <2> QED
    BY <1>2, <2>1, <2>2, <2>3 DEF WorkerStep, Reconcile, Ask
<1>3. ASSUME NEW q \in Pools, PoolReconcile(q)
      PROVE  IsLbExists(p, l) /\ k \in cache[p][l]
  <2>1. CASE EnsurePool(q) \/ ActivatePool(q) \/ DeletePool(q) \/ RemovePool(q)
    BY <2>1 DEF EnsurePool, ActivatePool, DeletePool, RemovePool, SetPhase, PoolsOK
  <2>2. ASSUME NEW S, poolState[q] = "registered", SetLbs(q, S)
        PROVE  IsLbExists(p, l) /\ k \in cache[p][l]
    BY <2>2 DEF SetLbs
  <2> QED
    BY <1>3, <2>1, <2>2 DEF PoolReconcile, EnsureLbIds, RemoveLB
<1>4. CASE \E m \in LBs : DeleteCloudLb(m)
  BY <1>1, <1>4 DEF DeleteCloudLb
<1> QED
  BY <1>1, <1>2, <1>3, <1>4 DEF Next, WorkerStep, vars

\* A load balancer that is out of its pool stays out.
LEMMA LostStays ==
  ASSUME Inv, Inv', ~LbsReturn, [Next]_vars, NEW p \in Pools, NEW l \in LBs,
         ~IsLbExists(p, l), l \in lbs[p] \cup gone[p]
  PROVE  ~IsLbExists(p, l)' /\ l \in lbs'[p] \cup gone'[p]
<1> USE DEF Inv, Typed, TypeOK, IsLbExists
<1>1. CASE UNCHANGED <<poolState, lbs, gone>>
  BY <1>1
<1>2. ASSUME NEW b \in Bindings, WorkerStep(b)
      PROVE  UNCHANGED <<poolState, lbs, gone>>
  <2>1. CASE \/ StartSync(b) \/ SkipEntry(b) \/ RefuseEntry(b) \/ FailLookup(b) \/ Lookup(b)
             \/ \E q \in Pools : RangeFail(b, q) \/ RangeSpin(b, q) \/ SameBusy(b, q) \/ SameFull(b, q)
             \/ SameExhausted(b) \/ EndRelease(b) \/ NextPort(b) \/ EndEntries(b)
             \/ WriteStatus(b) \/ WriteFails(b) \/ EnsureListeners(b) \/ EndUnbind(b)
             \/ Disable(b) \/ StartDelete(b)
    BY <2>1, WorkerKeeps DEF Kept
  <2>2. CASE \E a \in drop[b] : ReleaseTaken(b, a) \/ ReleaseBinding(b, a)
    BY <2>2 DEF ReleaseTaken, ReleaseBinding
  <2>3. CASE \E q \in Pools : RangeTake(b, q) \/ SameTake(b, q)
    BY <2>3 DEF RangeTake, SameTake, Take
  <2> QED
    BY <1>2, <2>1, <2>2, <2>3 DEF WorkerStep, Reconcile, Ask
<1>3. ASSUME NEW q \in Pools, PoolReconcile(q)
      PROVE  ~IsLbExists(p, l)' /\ l \in lbs'[p] \cup gone'[p]
  <2>1. CASE EnsurePool(q)
    BY <2>1 DEF EnsurePool, PoolsOK
  <2>2. CASE ActivatePool(q) \/ DeletePool(q)
    BY <2>2, <1>1 DEF ActivatePool, DeletePool, SetPhase
  <2>3. CASE RemovePool(q)
    BY <2>3 DEF RemovePool
  <2>4. ASSUME NEW S, poolState[q] = "registered", S \cap gone[q] = {}, SetLbs(q, S)
        PROVE  ~IsLbExists(p, l)' /\ l \in lbs'[p] \cup gone'[p]
    <3>1. /\ lbs' = [lbs EXCEPT ![q] = S] /\ gone' = [gone EXCEPT ![q] = gone[q] \cup (lbs[q] \ S)]
          /\ poolState' = poolState
      BY <2>4 DEF SetLbs
    <3>2. CASE p = q
      BY <2>4, <3>1, <3>2
    <3>3. CASE p # q
      BY <3>1, <3>3
    <3> QED
      BY <3>2, <3>3
  <2>5. \A m : (lbs[q] \ {m}) \cap gone[q] = {}
    BY DEF PoolsOK
  <2> QED
    BY <1>3, <2>1, <2>2, <2>3, <2>4, <2>5 DEF PoolReconcile, EnsureLbIds, RemoveLB
<1>4. CASE \E m \in LBs : DeleteCloudLb(m)
  BY <1>1, <1>4 DEF DeleteCloudLb
<1> QED
  BY <1>1, <1>2, <1>3, <1>4 DEF Next, WorkerStep, vars

\* What is abandoned stays known as such.
LEMMA AbandonedGrows ==
  ASSUME [Next]_vars
  PROVE  abandoned \subseteq abandoned'
<1>1. ASSUME NEW b \in Bindings, WorkerStep(b)
      PROVE  abandoned \subseteq abandoned'
  <2>1. CASE StartSync(b) \/ Disable(b) \/ StartDelete(b) \/ SkipEntry(b) \/ RefuseEntry(b)
    BY <2>1 DEF StartSync, Disable, StartDelete, SkipEntry, RefuseEntry, ReleasePorts
  <2>2. CASE FailLookup(b) \/ Lookup(b) \/ SameExhausted(b) \/ EndRelease(b) \/ NextPort(b)
    BY <2>2 DEF FailLookup, Lookup, SameExhausted, EndRelease, NextPort, ReleasePorts
  <2>3. CASE EndEntries(b) \/ WriteStatus(b) \/ WriteFails(b) \/ EnsureListeners(b) \/ EndUnbind(b)
    BY <2>3 DEF EndEntries, WriteStatus, WriteFails, EnsureListeners, EndUnbind, ReleasePorts
  <2>4. CASE \E a \in drop[b] : ReleaseTaken(b, a) \/ ReleaseBinding(b, a)
    BY <2>4 DEF ReleaseTaken, ReleaseBinding
  <2>5. CASE \E p \in Pools : RangeFail(b, p) \/ RangeSpin(b, p) \/ SameBusy(b, p) \/ SameFull(b, p)
    BY <2>5 DEF RangeFail, RangeSpin, SameBusy, SameFull, ReleasePorts
  <2>6. CASE \E p \in Pools : RangeTake(b, p) \/ SameTake(b, p)
    BY <2>6 DEF RangeTake, SameTake, Take
  <2> QED
    BY <1>1, <2>1, <2>2, <2>3, <2>4, <2>5, <2>6 DEF WorkerStep, Reconcile, Ask
<1>2. ASSUME NEW p \in Pools, PoolReconcile(p)
      PROVE  abandoned \subseteq abandoned'
  BY <1>2 DEF PoolReconcile, EnsurePool, ActivatePool, DeletePool, RemovePool, SetPhase,
              EnsureLbIds, RemoveLB, SetLbs
<1> QED
  BY <1>1, <1>2 DEF Next, WorkerStep, DeleteCloudLb, vars

\* What waits to leave the status is set by ensureBackendBindings alone.
LEMMA LostStep ==
  ASSUME Inv, Inv', LostOK, ~LbsReturn, [Next]_vars
  PROVE  LostOK'
<1> SUFFICES ASSUME NEW b \in Bindings, NEW a \in lost'[b]
             PROVE  \/ a \in abandoned'
                    \/ ~IsLbExists(a.pool, a.lb)' /\ a.lb \in lbs'[a.pool] \cup gone'[a.pool]
  BY DEF LostOK
<1>1. ASSUME a \in lost[b]
      PROVE  \/ a \in abandoned'
             \/ ~IsLbExists(a.pool, a.lb)' /\ a.lb \in lbs'[a.pool] \cup gone'[a.pool]
  <2>1. a.pool \in Pools /\ a.lb \in LBs
    BY <1>1 DEF Inv, Typed, TypeOK, Allocation
  <2>2. a \in abandoned \/ (~IsLbExists(a.pool, a.lb) /\ a.lb \in lbs[a.pool] \cup gone[a.pool])
    BY <1>1 DEF LostOK
  <2> QED
    BY <2>1, <2>2, AbandonedGrows, LostStays
<1>2. CASE EnsureListeners(b)
  <2>1. PICK D \in SUBSET Lost(b), V \in SUBSET (held[b] \ Lost(b)) :
          lost' = [lost EXCEPT ![b] = D \cup V] /\ abandoned' = abandoned \cup V
    BY <1>2 DEF EnsureListeners
  <2>0. lost'[b] = D \cup V
    BY <2>1 DEF Inv, Typed, TypeOK
  <2>2. CASE a \in V
    BY <2>1, <2>2
  <2>3. CASE a \in D
    <3>1. a \in held[b] /\ ~IsLbExists(a.pool, a.lb)
      BY <2>3 DEF Lost
    <3>2. a.lb \in lbs[a.pool] \cup gone[a.pool]
      BY <3>1 DEF Inv, Known, Owned
    <3>3. UNCHANGED <<poolState, lbs, gone>>
      BY <1>2 DEF EnsureListeners, poolVars
    <3> QED
      BY <3>1, <3>2, <3>3 DEF IsLbExists
  <2> QED
    BY <2>0, <2>2, <2>3
<1>3. CASE ~EnsureListeners(b)
  <2> USE DEF Inv, Typed, TypeOK, ReleasePorts
  <2>1. CASE ~WorkerStep(b)
    <3>1. \/ \E d \in Bindings \ {b} : WorkerStep(d)
          \/ \E p \in Pools : PoolReconcile(p)
          \/ \E l \in LBs : DeleteCloudLb(l)
          \/ UNCHANGED vars
      BY <2>1 DEF Next, WorkerStep
    <3> QED
      BY <1>1, <3>1, OthersStay
  <2>2. CASE StartSync(b) \/ Disable(b) \/ StartDelete(b)
    BY <1>1, <2>2 DEF StartSync, Disable, StartDelete, statusVars
  <2>3. CASE SkipEntry(b) \/ RefuseEntry(b) \/ FailLookup(b) \/ Lookup(b) \/ SameExhausted(b)
    BY <1>1, <2>3 DEF SkipEntry, RefuseEntry, FailLookup, Lookup, SameExhausted, statusVars
  <2>4. CASE EndRelease(b) \/ NextPort(b) \/ EndEntries(b) \/ WriteStatus(b) \/ WriteFails(b)
    BY <1>1, <2>4 DEF EndRelease, NextPort, EndEntries, WriteStatus, WriteFails, statusVars
  <2>5. CASE EndUnbind(b)
    BY <1>1, <2>5 DEF EndUnbind
  <2>6. CASE \E d \in drop[b] : ReleaseTaken(b, d) \/ ReleaseBinding(b, d)
    BY <1>1, <2>6 DEF ReleaseTaken, ReleaseBinding, statusVars
  <2>7. CASE \E p \in Pools : RangeFail(b, p) \/ RangeSpin(b, p) \/ SameBusy(b, p) \/ SameFull(b, p)
    BY <1>1, <2>7 DEF RangeFail, RangeSpin, SameBusy, SameFull, statusVars
  <2>8. CASE \E p \in Pools : RangeTake(b, p) \/ SameTake(b, p)
    BY <1>1, <2>8 DEF RangeTake, SameTake, Take, statusVars
  <2> QED
    BY <1>3, <2>1, <2>2, <2>3, <2>4, <2>5, <2>6, <2>7, <2>8 DEF WorkerStep, Reconcile, Ask
<1> QED
  BY <1>2, <1>3

\* Every key of a load balancer that is in its pool has somebody behind it, after every step.
LEMMA GhostStep ==
  ASSUME Inv, Inv', LostOK, NoGhost, ~LbsReturn, [Next]_vars
  PROVE  NoGhost'
<1> DEFINE Behind(a, p, l, k) == a.pool = p /\ a.lb = l /\ Key(a.port) = k
           Everybody == (UNION {Owned(b) : b \in Bindings}) \cup abandoned
<1> SUFFICES ASSUME NEW p \in Pools, NEW l \in LBs, IsLbExists(p, l)', NEW k \in cache'[p][l]
             PROVE  \E a \in Everybody' : Behind(a, p, l, k)
  <2>1. \A q \in Pools : lbs'[q] \subseteq LBs
    BY DEF Inv, Typed, TypeOK
  <2> QED
    BY <2>1 DEF NoGhost, IsLbExists
<1>0. /\ \A a \in Everybody : (\E b \in Bindings : a \in Owned(b)) \/ a \in abandoned
      /\ \A a : (\E b \in Bindings : a \in Owned(b)') \/ a \in abandoned' => a \in Everybody'
  <2>1. ASSUME NEW a \in Everybody
        PROVE  (\E b \in Bindings : a \in Owned(b)) \/ a \in abandoned
    BY <2>1
  <2>2. ASSUME NEW a, NEW b \in Bindings, a \in Owned(b)'
        PROVE  a \in Everybody'
    <3>1. Owned(b)' \in {Owned(c)' : c \in Bindings}
      OBVIOUS
    <3> QED
      BY <2>2, <3>1
  <2>3. ASSUME NEW a \in abandoned'
        PROVE  a \in Everybody'
    BY <2>3
  <2> HIDE DEF Everybody
  <2> QED
    BY <2>1, <2>2, <2>3
<1> HIDE DEF Everybody
<1>1. CASE IsLbExists(p, l) /\ k \in cache[p][l]
  <2>1. PICK a \in Everybody : Behind(a, p, l, k)
    BY <1>1 DEF NoGhost, IsLbExists, Everybody
  <2>2. CASE a \in abandoned'
    BY <1>0, <2>1, <2>2
  <2>3. CASE a \notin abandoned'
    <3>1. PICK b \in Bindings : a \in Owned(b)
      BY <1>0, <2>3, AbandonedGrows
    <3>2. CASE a \in Owned(b)'
      BY <1>0, <2>1, <3>2
    <3>3. CASE a \notin Owned(b)'
      <4>1. a \in lost[b] \/ ReleaseTaken(b, a) \/ ReleaseBinding(b, a)
        BY <2>3, <3>1, <3>3, OwnersStay
      <4>2. a \notin lost[b]
        BY <1>1, <2>1, <2>3, AbandonedGrows DEF LostOK
      <4>3. Erase(a)
        BY <1>1, <2>1, <4>1, <4>2 DEF ReleaseTaken, ReleaseBinding
      <4>4. k \notin cache'[p][l]
        BY <2>1, <4>3 DEF Erase, Inv, Typed, TypeOK
      <4> QED
        BY <4>4
    <3> QED
      BY <3>2, <3>3
  <2> QED
    BY <2>2, <2>3
<1>2. ASSUME NEW b \in Bindings, NEW ports, Take(b, p, l, ports), k \in {Key(q) : q \in ports}
      PROVE  \E a \in Everybody' : Behind(a, p, l, k)
  <2>1. PICK q \in ports : k = Key(q)
    BY <1>2
  <2> DEFINE new == {[entry |-> entry[b], pool |-> p, lb |-> l, port |-> r] : r \in ports}
             a == [entry |-> entry[b], pool |-> p, lb |-> l, port |-> q]
  <2>2. a \in new /\ Behind(a, p, l, k)
    BY <2>1
  <2>3. new \subseteq taken'[b] \cup got'[b]
    BY <1>2 DEF Take, Inv, Typed, TypeOK
  <2>4. a \in Owned(b)'
    BY <2>2, <2>3 DEF Owned
  <2> HIDE DEF a
  <2> QED
    BY <1>0, <2>2, <2>4
<1> QED
  BY <1>1, <1>2, KeyOrigin

\* Whatever reconciles roll back, fail to write, remove or delete, nothing stays recorded as
\* allocated that nobody has, but for what they abandoned (PortPool!NoGhost).
THEOREM NoGhostCorrect ==
  ASSUME ~LbsReturn
  PROVE  Spec => []NoGhost
<1>1. Init => LostOK /\ NoGhost
  BY DEF Init, LostOK, NoGhost
<1>2. Inv /\ Inv' /\ LostOK /\ NoGhost /\ [Next]_vars => (LostOK /\ NoGhost)'
  BY LostStep, GhostStep
<1> QED
  BY <1>1, <1>2, InvCorrect, PTL DEF Spec
=============================================================================
