---------------------------- MODULE ScaleUpProofs ----------------------------
(***************************************************************************)
(* Proofs about ScaleUp, for every set of bindings, every capacity, quota  *)
(* and limit, and every kind and number of faults.                         *)
(***************************************************************************)
EXTENDS ScaleUp, FiniteSetTheorems, TLAPS

-----------------------------------------------------------------------------
(* Types.                                                                  *)

\* What is recorded as allocated on a load balancer is a number up to its capacity.
LEMMA AllocatedType ==
  ASSUME NEW S \in SUBSET Ports
  PROVE  Cardinality(S) \in 0..Capacity
<1>1. IsFiniteSet(Ports) /\ Cardinality(Ports) = Capacity
  BY ScaleUpAssumption, FS_Interval DEF Ports
<1>2. IsFiniteSet(S) /\ Cardinality(S) <= Capacity
  BY <1>1, FS_Subset
<1> QED BY <1>2, FS_CardinalityType, ScaleUpAssumption

\* The empty status is a status.
LEMMA NoStatusType == NoStatus \in [LBs -> Entries]
BY ScaleUpAssumption DEF NoStatus, Absent, Entries

\* The pool reconciler builds a status.
LEMMA LbStatusType ==
  ASSUME TypeOK, NEW tagged \in SUBSET LBs
  PROVE  LbStatus(tagged) \in [LBs -> Entries]
<1>1. ASSUME NEW l \in LBs
      PROVE  /\ [state |-> "Running", allocated |-> 0] \in Entries
             /\ [state |-> "Running", allocated |-> Cardinality(used[l])] \in Entries
             /\ [cached[l] EXCEPT !.state = "NotFound"] \in Entries
             /\ Absent \in Entries
  <2>1. Cardinality(used[l]) \in 0..Capacity
    BY AllocatedType DEF TypeOK
  <2>2. 0 \in 0..Capacity
    BY ScaleUpAssumption
  <2>3. [cached[l] EXCEPT !.state = "NotFound"] \in Entries
    <3>1. cached[l] \in Entries
      BY DEF TypeOK
    <3> QED BY <3>1 DEF Entries
  <2> QED BY <2>1, <2>2, <2>3 DEF Entries, Absent
<1> QED BY <1>1 DEF LbStatus

\* The list of the allocator and its records keep their types.
LEMMA EnsureLbIdsType ==
  ASSUME TypeOK, NEW S \in SUBSET LBs, EnsureLbIds(S)
  PROVE  lbs' \in SUBSET LBs /\ used' \in [LBs -> SUBSET Ports]
<1>1. lbs' \in SUBSET LBs
  BY DEF EnsureLbIds, TypeOK
<1>2. used' \in [LBs -> SUBSET Ports]
  BY DEF EnsureLbIds, TypeOK
<1> QED BY <1>1, <1>2

\* A released port leaves a record of ports.
LEMMA ReleasedType ==
  ASSUME TypeOK, NEW b \in Bindings
  PROVE  Released(b) \in [LBs -> SUBSET Ports]
BY DEF TypeOK, Released

\* A fault is counted.
LEMMA FaultType ==
  ASSUME TypeOK, NEW kind, Fault(kind)
  PROVE  faults' \in 0..MaxFaults
BY ScaleUpAssumption DEF TypeOK, Fault

\* The types hold at the start.
LEMMA TypeInit == Init => TypeOK
<1> SUFFICES ASSUME Init PROVE TypeOK
  OBVIOUS
<1>1. created \in 0..CloudQuota /\ faults \in 0..MaxFaults
  BY ScaleUpAssumption DEF Init
<1>2. stored \in [LBs -> Entries]
  BY NoStatusType DEF Init
<1>3. cached \in [LBs -> Entries] /\ base \in [LBs -> Entries] /\ work \in [LBs -> Entries]
  BY <1>2 DEF Init
<1> QED BY <1>1, <1>2, <1>3 DEF Init, TypeOK, PoolPCs, BindPCs

\* Every step of a binding's worker keeps the types.
LEMMA BindType ==
  ASSUME TypeOK, NEW b \in Bindings, Bind(b) \/ DeleteBinding(b)
  PROVE  TypeOK'
<1> USE DEF TypeOK, BindPCs, Goto, Enqueue, Unplace, allocVars, cloudVars, statusVars, poolVars
<1>1. CASE Allocate(b)
  BY <1>1 DEF Allocate, Room
<1>2. CASE WriteBinding(b)
  BY <1>2 DEF WriteBinding
<1>3. CASE WriteBindingFails(b)
  BY <1>3, ReleasedType, FaultType DEF WriteBindingFails
<1>4. CASE Listen(b)
  BY <1>4 DEF Listen
<1>5. CASE Request(b)
  BY <1>5 DEF Request
<1>6. CASE RequestCAS(b)
  BY <1>6 DEF RequestCAS
<1>7. CASE Check(b)
  BY <1>7 DEF Check
<1>8. CASE GiveUp(b)
  BY <1>8 DEF GiveUp
<1>9. CASE MarkNoPort(b)
  BY <1>9 DEF MarkNoPort
<1>10. CASE DeleteBinding(b)
  BY <1>10, ReleasedType, FaultType DEF DeleteBinding
<1> QED BY <1>1, <1>2, <1>3, <1>4, <1>5, <1>6, <1>7, <1>8, <1>9, <1>10 DEF Bind

\* The identity of a new load balancer is one.
LEMMA NewLbType ==
  ASSUME TypeOK, created < CloudQuota
  PROVE  NewLb \in LBs /\ NewLb \in 0..CloudQuota
BY ScaleUpAssumption DEF TypeOK, NewLb, LBs

\* createCLB adds an entry without a state.
LEMMA NewEntryType == [state |-> "", allocated |-> 0] \in Entries
<1>1. 0 \in 0..Capacity
  BY ScaleUpAssumption
<1> QED BY <1>1 DEF Entries

\* Every step of the pool reconciler keeps the types.
LEMMA PoolType ==
  ASSUME TypeOK, PoolStep
  PROVE  TypeOK'
<1> USE DEF TypeOK, PoolPCs, EndPool, PoolError, allocVars, cloudVars, statusVars, bindVars
<1>1. CASE EnsureLbStatus
  <2>1. Tagged \in SUBSET LBs /\ Found \in SUBSET LBs
    BY DEF Tagged, Found, Recorded
  <2>2. lbs' \in SUBSET LBs /\ used' \in [LBs -> SUBSET Ports]
    BY <1>1, <2>1, EnsureLbIdsType DEF EnsureLbStatus
  <2>3. LbStatus(Tagged) \in [LBs -> Entries]
    BY <2>1, LbStatusType
  <2> QED BY <1>1, <2>2, <2>3 DEF EnsureLbStatus
<1>2. CASE AskRequest
  BY <1>2 DEF AskRequest
<1>3. CASE ClearRequest
  BY <1>3 DEF ClearRequest
<1>4. CASE CreateCLB
  <2>1. NewLb \in LBs /\ created' \in 0..CloudQuota
    BY <1>4, NewLbType DEF CreateCLB
  <2>2. lbs' \in SUBSET LBs /\ used' \in [LBs -> SUBSET Ports]
    BY <1>4, <2>1, EnsureLbIdsType DEF CreateCLB, Running
  <2>3. work' \in [LBs -> Entries]
    BY <1>4, <2>1, NewEntryType DEF CreateCLB
  <2> QED BY <1>4, <2>1, <2>2, <2>3 DEF CreateCLB
<1>5. CASE CreateFails
  <2>1. created < CloudQuota => NewLb \in LBs /\ NewLb \in 0..CloudQuota
    BY NewLbType
  <2>2. faults' \in 0..MaxFaults
    BY <1>5, FaultType DEF CreateFails
  <2>3. created' \in 0..CloudQuota /\ cloud' \in SUBSET LBs
    BY <1>5, <2>1 DEF CreateFails
  <2> QED BY <1>5, <2>2, <2>3, NoStatusType DEF CreateFails
<1>6. CASE MarkScaleUpCompleted
  BY <1>6 DEF MarkScaleUpCompleted
<1>7. CASE ResetScaleUpRequest
  BY <1>7 DEF ResetScaleUpRequest
<1>8. CASE SkipWrite
  BY <1>8, NoStatusType DEF SkipWrite
<1>9. CASE WritePool
  BY <1>9, NoStatusType DEF WritePool
<1>10. CASE PoolFails
  BY <1>10, NoStatusType, FaultType DEF PoolFails
<1> QED BY <1>1, <1>2, <1>3, <1>4, <1>5, <1>6, <1>7, <1>8, <1>9, <1>10 DEF PoolStep

\* A restart keeps the types.
LEMMA RestartType ==
  ASSUME TypeOK, Restart
  PROVE  TypeOK'
<1> DEFINE kept == [b \in Bindings |-> IF bpc[b] = "write" THEN None ELSE place[b]]
<1> DEFINE listed == Recorded(stored) \ NotFound(stored)
<1>1. kept \in [Bindings -> [lb: LBs, port: Ports] \cup {None}]
  BY DEF TypeOK
<1>2. ASSUME NEW l \in LBs
      PROVE  {kept[b].port : b \in {c \in Bindings : kept[c].lb = l}} \in SUBSET Ports
  <2>1. None.lb # l
    BY <1>2, ScaleUpAssumption DEF None, LBs
  <2>2. \A c \in Bindings : kept[c].lb = l => kept[c].port \in Ports
    BY <1>1, <2>1
  <2> QED BY <2>2
<1>3. used' = [l \in LBs |->
                 IF l \in listed
                 THEN {kept[b].port : b \in {c \in Bindings : kept[c].lb = l}} ELSE {}]
  BY DEF Restart
<1> HIDE DEF kept
<1>4. used' \in [LBs -> SUBSET Ports]
  BY <1>2, <1>3
<1>5. place' = kept
  BY DEF Restart, kept
<1>6. lbs' \in SUBSET LBs
  BY DEF Restart, Recorded
<1>7. faults' \in 0..MaxFaults
  BY FaultType DEF Restart
<1>8. bpc' \in [Bindings -> BindPCs] /\ queued' \in [Bindings -> BOOLEAN]
  BY DEF Restart, BindPCs
<1>9. place' \in [Bindings -> [lb: LBs, port: Ports] \cup {None}]
  BY <1>1, <1>5
<1> QED BY <1>4, <1>6, <1>7, <1>8, <1>9, NoStatusType DEF Restart, TypeOK, EndPool, PoolPCs, cloudVars

\* Every step keeps the types.
LEMMA TypeStep == TypeOK /\ [Next]_vars => TypeOK'
<1> SUFFICES ASSUME TypeOK, [Next]_vars PROVE TypeOK'
  OBVIOUS
<1> USE DEF allocVars, cloudVars, statusVars, poolVars, bindVars
<1>1. CASE \E b \in Bindings : Bind(b) \/ DeleteBinding(b)
  BY <1>1, BindType
<1>2. CASE PoolStep
  BY <1>2, PoolType
<1>3. CASE Deliver
  BY <1>3 DEF Deliver, TypeOK
<1>4. CASE \E l \in LBs : DeleteCloudLb(l)
  BY <1>4, FaultType DEF DeleteCloudLb, TypeOK
<1>5. CASE Restart
  BY <1>5, RestartType
<1>6. CASE UNCHANGED vars
  BY <1>6 DEF vars, TypeOK
<1> QED BY <1>1, <1>2, <1>3, <1>4, <1>5, <1>6 DEF Next

\* Type correctness: TypeOK holds in every reachable state, with every kind of fault.
THEOREM TypeCorrect == Spec => []TypeOK
<1> QED BY TypeInit, TypeStep, PTL DEF Spec

-----------------------------------------------------------------------------
(* A request is never left behind.                                         *)

\* Every step keeps a request visible to a round of the pool reconciler.
LEMMA RequestSeenStep == TypeOK /\ RequestSeen /\ [Next]_vars => RequestSeen'
<1> SUFFICES ASSUME TypeOK, RequestSeen, [Next]_vars PROVE RequestSeen'
  OBVIOUS
<1> USE DEF RequestSeen, allocVars, cloudVars, statusVars, poolVars, bindVars
<1>t. bpc \in [Bindings -> BindPCs] /\ requested \in BOOLEAN
  BY DEF TypeOK
<1>1. ASSUME NEW b \in Bindings, Bind(b) \/ DeleteBinding(b)
      PROVE  RequestSeen'
  <2> USE <1>t DEF Goto
  \* The steps before and after the request: who set the flag stays where it is.
  <2>1. CASE Allocate(b)
    BY <2>1 DEF Allocate
  <2>2. CASE WriteBinding(b)
    BY <2>2 DEF WriteBinding
  <2>3. CASE WriteBindingFails(b)
    BY <2>3 DEF WriteBindingFails
  <2>4. CASE Listen(b)
    BY <2>4 DEF Listen
  <2>5. CASE Request(b)
    BY <2>5 DEF Request
  <2>6. CASE RequestCAS(b)
    BY <2>6 DEF RequestCAS
  <2>7. CASE Check(b)
    BY <2>7 DEF Check
  <2>8. CASE GiveUp(b)
    BY <2>8 DEF GiveUp
  <2>9. CASE MarkNoPort(b)
    BY <2>9 DEF MarkNoPort
  <2>10. CASE DeleteBinding(b)
    BY <2>10 DEF DeleteBinding
  <2> QED BY <1>1, <2>1, <2>2, <2>3, <2>4, <2>5, <2>6, <2>7, <2>8, <2>9, <2>10 DEF Bind
<1>2. CASE PoolStep
  <2> USE DEF EndPool, PoolError
  <2>1. CASE EnsureLbStatus
    BY <2>1 DEF EnsureLbStatus
  <2>2. CASE AskRequest
    BY <2>2 DEF AskRequest
  <2>3. CASE ClearRequest
    BY <2>3 DEF ClearRequest
  <2>4. CASE CreateCLB
    BY <2>4 DEF CreateCLB
  <2>5. CASE CreateFails
    BY <2>5 DEF CreateFails
  <2>6. CASE MarkScaleUpCompleted
    BY <2>6 DEF MarkScaleUpCompleted
  <2>7. CASE ResetScaleUpRequest
    BY <2>7 DEF ResetScaleUpRequest
  <2>8. CASE SkipWrite
    BY <2>8 DEF SkipWrite
  <2>9. CASE WritePool
    BY <2>9 DEF WritePool
  <2>10. CASE PoolFails
    BY <2>10 DEF PoolFails
  <2> QED BY <1>2, <2>1, <2>2, <2>3, <2>4, <2>5, <2>6, <2>7, <2>8, <2>9, <2>10 DEF PoolStep
<1>3. CASE Deliver
  BY <1>3 DEF Deliver
<1>4. CASE \E l \in LBs : DeleteCloudLb(l)
  <2>1. UNCHANGED <<requested, wake, ppc, bpc>>
    BY <1>4 DEF DeleteCloudLb
  <2> QED BY <2>1
<1>5. CASE Restart
  BY <1>5 DEF Restart
<1>6. CASE UNCHANGED vars
  BY <1>6 DEF vars
<1> QED BY <1>1, <1>2, <1>3, <1>4, <1>5, <1>6 DEF Next

\* While the flag of a scale-up request is set, somebody will still look at it: no request of a
\* binding (tryRequestScaleUp) is left behind by the pool reconciler, whatever fails.
THEOREM RequestSeenCorrect == Spec => []RequestSeen
<1>1. Init => RequestSeen
  BY DEF Init, RequestSeen
<1> QED BY <1>1, TypeCorrect, RequestSeenStep, PTL DEF Spec

-----------------------------------------------------------------------------
(* A load balancer that was created is never forgotten.                    *)

\* Load balancers are numbered in the order of their creation.
Numbered ==
  /\ cloud \subseteq 1..created
  /\ Recorded(stored) \cup Recorded(cached) \cup Recorded(base) \cup Recorded(work) \subseteq 1..created

\* What the pool reconciler builds has every load balancer that exists; what it read, and what
\* the informer has, has no load balancer that exists and is not stored.
NoneForgotten ==
  /\ ppc # "idle" => cloud \subseteq Recorded(work)
  /\ cloud \cap Recorded(cached) \subseteq Recorded(stored)
  /\ cloud \cap Recorded(base) \subseteq Recorded(stored)

RecordInv == TypeOK /\ Numbered /\ NoneForgotten /\ CreatedRecorded

\* Nothing is recorded in the empty status.
LEMMA RecordedNoStatus == Recorded(NoStatus) = {}
BY DEF Recorded, NoStatus, Absent

\* The status that is built has what was recorded and what the tags tell of.
LEMMA RecordedLbStatus ==
  ASSUME TypeOK, NEW tagged \in SUBSET LBs
  PROVE  Recorded(LbStatus(tagged)) = Recorded(cached) \cup tagged
<1>1. ASSUME NEW l \in LBs
      PROVE  LbStatus(tagged)[l].state # "absent" <=> l \in Recorded(cached) \cup tagged
  <2>1. LbStatus(tagged)[l] =
          IF l \in tagged THEN [state |-> "Running", allocated |-> 0]
          ELSE IF l \in Found THEN [state |-> "Running", allocated |-> Cardinality(used[l])]
          ELSE IF l \in Recorded(cached) THEN [cached[l] EXCEPT !.state = "NotFound"]
          ELSE Absent
    BY DEF LbStatus
  <2>2. cached[l] \in Entries
    BY DEF TypeOK
  <2>3. [cached[l] EXCEPT !.state = "NotFound"].state = "NotFound"
    BY <2>2 DEF Entries
  <2>4. l \in Found => l \in Recorded(cached)
    BY DEF Found
  <2> QED BY <2>1, <2>3, <2>4 DEF Absent
<1>2. Recorded(cached) \subseteq LBs
  BY DEF Recorded
<1>3. Recorded(LbStatus(tagged)) = {l \in LBs : LbStatus(tagged)[l].state # "absent"}
  BY DEF Recorded
<1> QED BY <1>1, <1>2, <1>3

\* The end of a reconcile keeps the invariant when every load balancer is stored or the pool is
\* queued again.
LEMMA EndPoolRecorded ==
  ASSUME RecordInv, EndPool, UNCHANGED <<cloud, created, cached>>, TypeOK',
         Recorded(stored') \subseteq 1..created,
         cloud \cap Recorded(cached) \subseteq Recorded(stored'),
         wake' \/ cloud \subseteq Recorded(stored')
  PROVE  RecordInv'
<1>1. Recorded(base') = {} /\ Recorded(work') = {}
  BY RecordedNoStatus DEF EndPool
<1>2. Recorded(base)' = Recorded(base') /\ Recorded(work)' = Recorded(work')
      /\ Recorded(stored)' = Recorded(stored') /\ Recorded(cached)' = Recorded(cached)
  BY DEF Recorded
<1>3. Numbered'
  BY <1>1, <1>2 DEF RecordInv, Numbered
<1>4. NoneForgotten'
  BY <1>1, <1>2 DEF NoneForgotten, EndPool
<1>5. CreatedRecorded'
  BY <1>2 DEF CreatedRecorded
<1> QED BY <1>3, <1>4, <1>5 DEF RecordInv

\* Nothing exists and nothing is recorded at the start.
LEMMA RecordInit == Init => RecordInv
<1> SUFFICES ASSUME Init PROVE RecordInv
  OBVIOUS
<1>1. Recorded(stored) = {} /\ Recorded(cached) = {} /\ Recorded(base) = {} /\ Recorded(work) = {}
  BY RecordedNoStatus DEF Init
<1>2. cloud = {}
  BY DEF Init
<1> QED BY <1>1, <1>2, TypeInit DEF RecordInv, Numbered, NoneForgotten, CreatedRecorded

\* What the invariant is about, and who leaves it alone: the workers of bindings and half of the
\* steps of the pool reconciler.
LEMMA RecordUnchanged ==
  ASSUME RecordInv, TypeOK', UNCHANGED <<cloud, created, stored, cached, base, work>>,
         ppc' # "idle" => ppc # "idle",
         ppc' = "idle" => ppc = "idle", wake => wake' \/ ppc' # "idle"
  PROVE  RecordInv'
<1>1. Recorded(stored)' = Recorded(stored) /\ Recorded(cached)' = Recorded(cached)
      /\ Recorded(base)' = Recorded(base) /\ Recorded(work)' = Recorded(work)
  BY DEF Recorded
<1>2. Numbered'
  BY <1>1 DEF RecordInv, Numbered
<1>3. NoneForgotten'
  BY <1>1 DEF RecordInv, NoneForgotten
<1>4. CreatedRecorded'
  BY <1>1 DEF RecordInv, CreatedRecorded
<1> QED BY <1>2, <1>3, <1>4 DEF RecordInv

\* Bindings and the allocator leave what is recorded alone (Bind, DeleteBinding).
LEMMA RecordBind ==
  ASSUME RecordInv, TypeOK', NEW b \in Bindings, Bind(b) \/ DeleteBinding(b)
  PROVE  RecordInv'
<1> USE DEF allocVars, cloudVars, statusVars, poolVars
<1>1. UNCHANGED <<cloud, created, stored, cached, base, work, ppc>> /\ (wake => wake')
  <2>1. CASE Allocate(b)
    BY <2>1 DEF Allocate
  <2>2. CASE WriteBinding(b)
    BY <2>2 DEF WriteBinding
  <2>3. CASE WriteBindingFails(b)
    BY <2>3 DEF WriteBindingFails
  <2>4. CASE Listen(b)
    BY <2>4 DEF Listen
  <2>5. CASE Request(b)
    BY <2>5 DEF Request
  <2>6. CASE RequestCAS(b)
    BY <2>6 DEF RequestCAS
  <2>7. CASE Check(b)
    BY <2>7 DEF Check
  <2>8. CASE GiveUp(b)
    BY <2>8 DEF GiveUp
  <2>9. CASE MarkNoPort(b)
    BY <2>9 DEF MarkNoPort
  <2>10. CASE DeleteBinding(b)
    BY <2>10 DEF DeleteBinding
  <2> QED BY <2>1, <2>2, <2>3, <2>4, <2>5, <2>6, <2>7, <2>8, <2>9, <2>10 DEF Bind
<1> QED BY <1>1, RecordUnchanged

\* A new load balancer has a new number.
LEMMA NewLbFresh ==
  ASSUME RecordInv
  PROVE  /\ NewLb \notin 1..created
         /\ 1..created \cup {NewLb} \subseteq 1..NewLb
<1>1. created \in Nat
  BY ScaleUpAssumption DEF RecordInv, TypeOK
<1> QED BY <1>1 DEF NewLb

\* The steps of a round of the pool reconciler, creation and status writes among them.
LEMMA RecordPool ==
  ASSUME RecordInv, TypeOK', PoolStep
  PROVE  RecordInv'
<1> USE DEF allocVars, cloudVars, statusVars
<1>r. /\ Recorded(stored)' = Recorded(stored') /\ Recorded(cached)' = Recorded(cached')
      /\ Recorded(base)' = Recorded(base') /\ Recorded(work)' = Recorded(work')
  BY DEF Recorded
<1>1. CASE EnsureLbStatus
  <2>1. Tagged \in SUBSET LBs
    BY DEF Tagged, RecordInv, TypeOK
  <2>2. Recorded(work') = Recorded(cached) \cup Tagged
    BY <1>1, <2>1, RecordedLbStatus DEF EnsureLbStatus, RecordInv
  <2>3. /\ UNCHANGED <<cloud, created, stored, cached>>
        /\ base' = cached /\ ppc' = "ask"
    BY <1>1 DEF EnsureLbStatus
  <2>4. cloud \subseteq Recorded(work') /\ Recorded(work') \subseteq 1..created
    BY <2>2 DEF Tagged, RecordInv, Numbered
  <2>5. Numbered'
    BY <1>r, <2>3, <2>4 DEF RecordInv, Numbered
  <2>6. NoneForgotten'
    BY <1>r, <2>3, <2>4 DEF RecordInv, NoneForgotten
  <2> QED BY <2>3, <2>5, <2>6 DEF RecordInv, CreatedRecorded
<1>2. CASE AskRequest
  BY <1>2, RecordUnchanged DEF AskRequest
<1>3. CASE ClearRequest
  BY <1>3, RecordUnchanged DEF ClearRequest
<1>4. CASE CreateCLB
  <2>1. /\ UNCHANGED <<stored, cached, base>> /\ created' = NewLb
        /\ cloud' = cloud \cup {NewLb} /\ ppc = "create" /\ ppc' = "complete"
    BY <1>4 DEF CreateCLB
  <2>2. NewLb \in LBs
    BY <1>4, NewLbType DEF CreateCLB, RecordInv
  <2>3. Recorded(work') = Recorded(work) \cup {NewLb}
    <3>1. work' = [work EXCEPT ![NewLb] = [state |-> "", allocated |-> 0]]
      BY <1>4 DEF CreateCLB
    <3>2. work \in [LBs -> Entries]
      BY DEF RecordInv, TypeOK
    <3> QED BY <2>2, <3>1, <3>2 DEF Recorded
  <2>4. Numbered'
    BY <1>r, <2>1, <2>3, NewLbFresh DEF RecordInv, Numbered
  <2>5. NoneForgotten'
    <3>1. NewLb \notin Recorded(cached) /\ NewLb \notin Recorded(base)
      BY NewLbFresh DEF RecordInv, Numbered
    <3> QED BY <1>r, <2>1, <2>3, <3>1 DEF RecordInv, NoneForgotten
  <2> QED BY <2>1, <2>4, <2>5 DEF RecordInv, CreatedRecorded
<1>5. CASE CreateFails
  <2>1. /\ UNCHANGED <<stored, cached>> /\ ppc' = "idle" /\ wake'
        /\ base' = NoStatus /\ work' = NoStatus
        /\ \/ created' = NewLb /\ cloud' = cloud \cup {NewLb}
           \/ created' = created /\ cloud' = cloud
    BY <1>5 DEF CreateFails, PoolError, EndPool
  <2>2. Recorded(base') = {} /\ Recorded(work') = {}
    BY <2>1, RecordedNoStatus
  <2>3. Numbered'
    <3>1. cloud' \subseteq 1..created' /\ 1..created \subseteq 1..created'
      BY <2>1, NewLbFresh DEF RecordInv, Numbered
    <3> QED BY <1>r, <2>1, <2>2, <3>1 DEF RecordInv, Numbered
  <2>4. NoneForgotten'
    <3>1. NewLb \notin Recorded(cached)
      BY NewLbFresh DEF RecordInv, Numbered
    <3> QED BY <1>r, <2>1, <2>2, <3>1 DEF RecordInv, NoneForgotten
  <2> QED BY <2>1, <2>3, <2>4 DEF RecordInv, CreatedRecorded
<1>6. CASE MarkScaleUpCompleted
  BY <1>6, RecordUnchanged DEF MarkScaleUpCompleted
<1>7. CASE ResetScaleUpRequest
  BY <1>7, RecordUnchanged DEF ResetScaleUpRequest
\* Nothing is written: what the reconciler built is what it read or what the informer has, and
\* those have no load balancer that is not stored.
<1>8. CASE SkipWrite
  <2>1. EndPool /\ UNCHANGED <<cloud, created, stored, cached>>
    BY <1>8 DEF SkipWrite
  <2>2. cloud \subseteq Recorded(stored')
    BY <1>8, <2>1 DEF SkipWrite, RecordInv, NoneForgotten
  <2>3. Recorded(stored') \subseteq 1..created
    BY <2>1 DEF RecordInv, Numbered
  <2> QED BY <2>1, <2>2, <2>3, EndPoolRecorded
<1>9. CASE WritePool
  <2>1. EndPool /\ UNCHANGED <<cloud, created, cached>>
    BY <1>9 DEF WritePool, PoolError
  <2>2. CASE stored' = work
    <3>1. cloud \subseteq Recorded(stored')
      BY <1>9, <2>2 DEF WritePool, RecordInv, NoneForgotten
    <3>2. Recorded(stored') \subseteq 1..created
      BY <2>2 DEF RecordInv, Numbered
    <3> QED BY <2>1, <3>1, <3>2, EndPoolRecorded
  <2>3. CASE stored' = stored /\ wake'
    <3>1. Recorded(stored') \subseteq 1..created /\ cloud \cap Recorded(cached) \subseteq Recorded(stored')
      BY <2>3 DEF RecordInv, Numbered, NoneForgotten
    <3> QED BY <2>1, <2>3, <3>1, EndPoolRecorded
  <2> QED BY <1>9, <2>2, <2>3 DEF WritePool, PoolError
<1>10. CASE PoolFails
  <2>1. EndPool /\ wake' /\ UNCHANGED <<cloud, created, stored, cached>>
    BY <1>10 DEF PoolFails, PoolError
  <2>2. Recorded(stored') \subseteq 1..created /\ cloud \cap Recorded(cached) \subseteq Recorded(stored')
    BY <2>1 DEF RecordInv, Numbered, NoneForgotten
  <2> QED BY <2>1, <2>2, EndPoolRecorded
<1> QED BY <1>1, <1>2, <1>3, <1>4, <1>5, <1>6, <1>7, <1>8, <1>9, <1>10 DEF PoolStep

\* A load balancer that the cloud deletes leaves a smaller set to record.
LEMMA RecordEnvironment ==
  ASSUME RecordInv, TypeOK', Deliver \/ (\E l \in LBs : DeleteCloudLb(l)) \/ Restart
  PROVE  RecordInv'
<1>r. /\ Recorded(stored)' = Recorded(stored') /\ Recorded(cached)' = Recorded(cached')
      /\ Recorded(base)' = Recorded(base') /\ Recorded(work)' = Recorded(work')
  BY DEF Recorded
<1>1. CASE Deliver
  <2>1. UNCHANGED <<cloud, created, stored, base, work, ppc>> /\ cached' = stored /\ wake'
    BY <1>1 DEF Deliver, cloudVars, poolVars
  <2>2. Numbered'
    BY <1>r, <2>1 DEF RecordInv, Numbered
  <2>3. NoneForgotten'
    BY <1>r, <2>1 DEF RecordInv, NoneForgotten
  <2> QED BY <2>1, <2>2, <2>3 DEF RecordInv, CreatedRecorded
<1>2. CASE \E l \in LBs : DeleteCloudLb(l)
  <2>1. UNCHANGED <<created, stored, cached, base, work, ppc, wake>> /\ cloud' \subseteq cloud
    BY <1>2 DEF DeleteCloudLb, statusVars, poolVars
  <2>2. Numbered'
    BY <1>r, <2>1 DEF RecordInv, Numbered
  <2>3. NoneForgotten'
    BY <1>r, <2>1 DEF RecordInv, NoneForgotten
  <2>4. CreatedRecorded'
    BY <1>r, <2>1 DEF RecordInv, CreatedRecorded
  <2> QED BY <2>2, <2>3, <2>4 DEF RecordInv
<1>3. CASE Restart
  <2>1. /\ UNCHANGED <<cloud, created, stored>> /\ cached' = stored /\ wake' /\ ppc' = "idle"
        /\ base' = NoStatus /\ work' = NoStatus
    BY <1>3 DEF Restart, EndPool, cloudVars
  <2>2. Recorded(base') = {} /\ Recorded(work') = {}
    BY <2>1, RecordedNoStatus
  <2>3. Numbered'
    BY <1>r, <2>1, <2>2 DEF RecordInv, Numbered
  <2>4. NoneForgotten'
    BY <1>r, <2>1, <2>2 DEF RecordInv, NoneForgotten
  <2> QED BY <2>1, <2>3, <2>4 DEF RecordInv, CreatedRecorded
<1> QED BY <1>1, <1>2, <1>3

\* Every step keeps the record complete.
LEMMA RecordStep == RecordInv /\ [Next]_vars => RecordInv'
<1> SUFFICES ASSUME RecordInv, [Next]_vars PROVE RecordInv'
  OBVIOUS
<1>1. TypeOK'
  BY TypeStep DEF RecordInv
<1>2. CASE \E b \in Bindings : Bind(b) \/ DeleteBinding(b)
  BY <1>1, <1>2, RecordBind
<1>3. CASE PoolStep
  BY <1>1, <1>3, RecordPool
<1>4. CASE Deliver \/ (\E l \in LBs : DeleteCloudLb(l)) \/ Restart
  BY <1>1, <1>4, RecordEnvironment
<1>5. CASE UNCHANGED vars
  BY <1>1, <1>5, RecordUnchanged DEF vars, cloudVars, statusVars, poolVars
<1> QED BY <1>2, <1>3, <1>4, <1>5 DEF Next

\* Between two rounds of the pool reconciler every load balancer that exists is in the pool's
\* status: a creation whose status write failed, was lost in a crash or was refused is found by
\* its tags (ensureLbStatus) before the pool rests.
THEOREM CreatedRecordedCorrect == Spec => []CreatedRecorded
<1>1. RecordInv => CreatedRecorded
  BY DEF RecordInv
<1> QED BY <1>1, RecordInit, RecordStep, PTL DEF Spec

-----------------------------------------------------------------------------
(* Exclusive ports.  The allocator knows the ports of the load balancers   *)
(* it lists.  A load balancer that leaves the list takes its record along, *)
(* so no port of it may be in use if it comes back: without a restart it   *)
(* leaves only when it does not exist any more, although the pool          *)
(* reconciler lists what an out-of-date status tells it.                   *)

\* The ports of listed load balancers are recorded, the others are on load balancers that are gone.
PortsKnown ==
  \A b \in Bindings : place[b] # None =>
    /\ place[b].lb \in 1..created
    /\ place[b].lb \in lbs => place[b].port \in used[place[b].lb]
    /\ place[b].lb \notin lbs => place[b].lb \notin cloud

\* What a status calls not found does not exist, and never will again.
MissingGone == cloud \cap (NotFound(stored) \cup NotFound(cached) \cup NotFound(work)) = {}

\* Until it creates a load balancer, a round lists all that exist, and what it found is listed.
RoundLists ==
  ppc \in {"ask", "create"} => cloud \subseteq Running(work) /\ Running(work) \subseteq lbs

ExclusiveInv ==
  RecordInv /\ lbs \subseteq 1..created /\ PortsKnown /\ MissingGone /\ RoundLists /\ Exclusive

\* What is not found, and what runs, is recorded.
LEMMA NotFoundRecorded ==
  ASSUME NEW status
  PROVE  NotFound(status) \subseteq Recorded(status) /\ Running(status) \subseteq Recorded(status)
BY DEF NotFound, Running, Recorded

\* A round finds every load balancer that exists.
LEMMA FoundAll ==
  ASSUME ExclusiveInv
  PROVE  Found \cup Tagged = cloud
BY DEF ExclusiveInv, MissingGone, Found, Tagged

\* In the status that a round begins with, what exists runs and the rest is not found.
LEMMA RoundStatus ==
  ASSUME ExclusiveInv
  PROVE  Running(LbStatus(Tagged)) = cloud /\ NotFound(LbStatus(Tagged)) \cap cloud = {}
<1>1. cloud \subseteq LBs
  BY DEF ExclusiveInv, RecordInv, TypeOK
<1>2. ASSUME NEW l \in LBs
      PROVE  /\ LbStatus(Tagged)[l].state = "Running" <=> l \in cloud
             /\ LbStatus(Tagged)[l].state = "NotFound" => l \notin cloud
  <2>1. LbStatus(Tagged)[l] =
          IF l \in Tagged THEN [state |-> "Running", allocated |-> 0]
          ELSE IF l \in Found THEN [state |-> "Running", allocated |-> Cardinality(used[l])]
          ELSE IF l \in Recorded(cached) THEN [cached[l] EXCEPT !.state = "NotFound"]
          ELSE Absent
    BY DEF LbStatus
  <2>2. cached[l] \in Entries
    BY DEF ExclusiveInv, RecordInv, TypeOK
  <2>3. [cached[l] EXCEPT !.state = "NotFound"].state = "NotFound"
    BY <2>2 DEF Entries
  <2>4. l \in cloud <=> l \in Found \/ l \in Tagged
    BY FoundAll
  <2> QED BY <2>1, <2>3, <2>4 DEF Absent
<1> QED BY <1>1, <1>2 DEF Running, NotFound

\* A change of the list that drops only what does not exist, and adds only what existed or is
\* new, keeps the ports known (EnsureLbIds).
LEMMA ListChange ==
  ASSUME ExclusiveInv, NEW S \in SUBSET LBs, EnsureLbIds(S), UNCHANGED place,
         1..created \subseteq 1..created',
         \A l \in 1..created : l \in cloud' => l \in cloud,
         \A l \in lbs : l \notin S => l \notin cloud',
         \A l \in S : l \in 1..created /\ l \notin lbs => l \in cloud
  PROVE  PortsKnown'
<1> SUFFICES ASSUME NEW b \in Bindings, place[b] # None
             PROVE  /\ place[b].lb \in 1..created'
                    /\ place[b].lb \in lbs' => place[b].port \in used'[place[b].lb]
                    /\ place[b].lb \notin lbs' => place[b].lb \notin cloud'
  BY DEF PortsKnown
<1> DEFINE l == place[b].lb
<1>1. /\ l \in 1..created
      /\ l \in lbs => place[b].port \in used[l]
      /\ l \notin lbs => l \notin cloud
  BY DEF ExclusiveInv, PortsKnown
<1>2. l \in LBs
  BY DEF ExclusiveInv, RecordInv, TypeOK
<1>3. /\ lbs' = IF S = {} THEN lbs ELSE S
      /\ used' = [m \in LBs |-> IF m \in lbs \cap lbs' THEN used[m] ELSE {}]
  BY DEF EnsureLbIds
<1> HIDE DEF l
<1>4. l \in lbs' => l \in lbs
  BY <1>1, <1>3
<1>5. l \in lbs' => used'[l] = used[l]
  BY <1>2, <1>3, <1>4
<1>6. l \notin lbs' => l \notin cloud'
  BY <1>1, <1>3
<1> QED BY <1>1, <1>4, <1>5, <1>6 DEF l

\* Steps that change neither the list nor the load balancers, and only give ports up.
LEMMA PortsGivenUp ==
  ASSUME ExclusiveInv, NEW b \in Bindings,
         UNCHANGED <<lbs, cloud, created>>,
         place' = [place EXCEPT ![b] = None], used' = used \/ used' = Released(b)
  PROVE  PortsKnown' /\ Exclusive'
<1>1. place \in [Bindings -> [lb: LBs, port: Ports] \cup {None}] /\ used \in [LBs -> SUBSET Ports]
  BY DEF ExclusiveInv, RecordInv, TypeOK
<1>2. place'[b] = None /\ \A c \in Bindings : c # b => place'[c] = place[c]
  BY <1>1
<1>3. Exclusive'
  BY <1>2 DEF ExclusiveInv, Exclusive
<1>4. ASSUME NEW c \in Bindings, place'[c] # None
      PROVE  /\ place'[c].lb \in 1..created'
             /\ place'[c].lb \in lbs' => place'[c].port \in used'[place'[c].lb]
             /\ place'[c].lb \notin lbs' => place'[c].lb \notin cloud'
  <2>1. c # b /\ place'[c] = place[c] /\ place[c] # place[b]
    BY <1>2, <1>4 DEF ExclusiveInv, Exclusive
  <2>2. place[c] \in [lb: LBs, port: Ports]
    BY <1>1, <1>4, <2>1
  <2>3. /\ place[c].lb \in 1..created
        /\ place[c].lb \in lbs => place[c].port \in used[place[c].lb]
        /\ place[c].lb \notin lbs => place[c].lb \notin cloud
    BY <1>4, <2>1 DEF ExclusiveInv, PortsKnown
  <2>4. place[c].lb = place[b].lb => place[c].port # place[b].port
    <3>1. place[b] \in [lb: LBs, port: Ports] \/ place[b] = None
      BY <1>1
    <3>2. place[b] = None => place[b].lb \notin LBs
      BY ScaleUpAssumption DEF None, LBs
    <3>3. CASE place[b] \in [lb: LBs, port: Ports]
      BY <2>1, <2>2, <3>3
    <3> QED BY <2>2, <3>1, <3>2, <3>3
  <2>5. place[c].lb \in lbs => place[c].port \in used'[place[c].lb]
    BY <2>2, <2>3, <2>4 DEF Released
  <2> QED BY <2>1, <2>3, <2>5
<1> QED BY <1>3, <1>4 DEF PortsKnown

\* What a binding's worker leaves alone.
LEMMA BindLeaves ==
  ASSUME NEW b \in Bindings, Bind(b) \/ DeleteBinding(b)
  PROVE  UNCHANGED <<lbs, cloud, created, stored, cached, work, ppc>>
<1> USE DEF allocVars, cloudVars, statusVars, poolVars
<1>1. CASE Allocate(b) \/ WriteBinding(b) \/ WriteBindingFails(b) \/ Listen(b)
  BY <1>1 DEF Allocate, WriteBinding, WriteBindingFails, Listen
<1>2. CASE Request(b) \/ RequestCAS(b) \/ Check(b) \/ GiveUp(b) \/ MarkNoPort(b)
  BY <1>2 DEF Request, RequestCAS, Check, GiveUp, MarkNoPort
<1>3. CASE DeleteBinding(b)
  BY <1>3 DEF DeleteBinding
<1> QED BY <1>1, <1>2, <1>3 DEF Bind

\* A binding takes a port that is not recorded, or gives its port up.
LEMMA BindExclusive ==
  ASSUME ExclusiveInv, NEW b \in Bindings, Bind(b) \/ DeleteBinding(b)
  PROVE  PortsKnown' /\ Exclusive'
<1> USE DEF allocVars, cloudVars, statusVars, poolVars
<1>1. UNCHANGED <<lbs, cloud, created>>
  BY BindLeaves
<1>2. place \in [Bindings -> [lb: LBs, port: Ports] \cup {None}] /\ used \in [LBs -> SUBSET Ports]
  BY DEF ExclusiveInv, RecordInv, TypeOK
<1>3. CASE UNCHANGED <<place, used>>
  BY <1>1, <1>3 DEF ExclusiveInv, PortsKnown, Exclusive
<1>4. CASE /\ place' = [place EXCEPT ![b] = None]
           /\ used' = used \/ used' = Released(b)
  BY <1>1, <1>4, PortsGivenUp
<1>5. ASSUME NEW l \in Room, NEW port \in Ports \ used[l],
             used' = [used EXCEPT ![l] = @ \cup {port}],
             place' = [place EXCEPT ![b] = [lb |-> l, port |-> port]]
      PROVE  PortsKnown' /\ Exclusive'
  <2>1. l \in lbs /\ l \in LBs /\ l \in 1..created
    BY DEF Room, ExclusiveInv, RecordInv, TypeOK
  <2>2. /\ place'[b] = [lb |-> l, port |-> port] /\ used'[l] = used[l] \cup {port}
        /\ \A c \in Bindings : c # b => place'[c] = place[c]
        /\ \A m \in LBs : used[m] \subseteq used'[m]
    BY <1>2, <1>5, <2>1
  <2>3. ASSUME NEW c \in Bindings, place[c] # None
        PROVE  /\ place[c].lb \in 1..created /\ place[c].lb \in LBs
               /\ place[c].lb \in lbs => place[c].port \in used[place[c].lb]
               /\ place[c].lb \notin lbs => place[c].lb \notin cloud
    BY <1>2, <2>3 DEF ExclusiveInv, PortsKnown
  <2>4. PortsKnown'
    <3> SUFFICES ASSUME NEW c \in Bindings, place'[c] # None
                 PROVE  /\ place'[c].lb \in 1..created'
                        /\ place'[c].lb \in lbs' => place'[c].port \in used'[place'[c].lb]
                        /\ place'[c].lb \notin lbs' => place'[c].lb \notin cloud'
      BY DEF PortsKnown
    <3>1. CASE c = b
      BY <1>1, <2>1, <2>2, <3>1
    <3>2. CASE c # b
      BY <1>1, <2>2, <2>3, <3>2
    <3> QED BY <3>1, <3>2
  <2>5. \A c \in Bindings : place[c] # [lb |-> l, port |-> port]
    <3> SUFFICES ASSUME NEW c \in Bindings, place[c] = [lb |-> l, port |-> port] PROVE FALSE
      OBVIOUS
    <3>1. place[c].lb = l /\ place[c].port = port
      OBVIOUS
    <3>2. place[c] # None
      BY <2>1, <3>1, ScaleUpAssumption DEF None, LBs
    <3> QED BY <2>1, <2>3, <3>1, <3>2
  <2>6. Exclusive'
    BY <2>2, <2>5 DEF ExclusiveInv, Exclusive
  <2> QED BY <2>4, <2>6
<1>6. CASE Allocate(b)
  BY <1>3, <1>5, <1>6 DEF Allocate
<1>7. CASE WriteBinding(b)
  BY <1>3, <1>7 DEF WriteBinding
<1>8. CASE WriteBindingFails(b) \/ DeleteBinding(b)
  BY <1>4, <1>8 DEF WriteBindingFails, DeleteBinding, Unplace
<1>9. CASE Listen(b)
  <2>1. used' = used /\ (place' = [place EXCEPT ![b] = None] \/ place' = [place EXCEPT ![b] = place[b]])
    BY <1>9 DEF Listen
  <2>2. [place EXCEPT ![b] = place[b]] = place
    BY <1>2
  <2> QED BY <1>3, <1>4, <2>1, <2>2
<1>10. CASE Request(b) \/ RequestCAS(b) \/ Check(b) \/ GiveUp(b) \/ MarkNoPort(b)
  BY <1>3, <1>10 DEF Request, RequestCAS, Check, GiveUp, MarkNoPort
<1> QED BY <1>6, <1>7, <1>8, <1>9, <1>10 DEF Bind

\* The sets of a status in the next state.
LEMMA PrimedStatus ==
  /\ NotFound(stored)' = NotFound(stored') /\ NotFound(cached)' = NotFound(cached')
  /\ NotFound(work)' = NotFound(work') /\ Running(work)' = Running(work')
BY DEF NotFound, Running

\* Steps that leave the list, the ports and the load balancers alone.
LEMMA PortsStay ==
  ASSUME ExclusiveInv, UNCHANGED <<place, used, lbs, created>>, cloud' \subseteq cloud
  PROVE  PortsKnown' /\ Exclusive' /\ (lbs \subseteq 1..created)'
BY DEF ExclusiveInv, PortsKnown, Exclusive

\* A step of the pool reconciler keeps ports exclusive.
LEMMA PoolExclusive ==
  ASSUME ExclusiveInv, RecordInv', PoolStep
  PROVE  ExclusiveInv'
<1> USE PrimedStatus DEF allocVars, cloudVars, statusVars, bindVars
<1>n. NotFound(NoStatus) = {}
  BY RecordedNoStatus, NotFoundRecorded
<1>f. NewLb \notin 1..created /\ 1..created \cup {NewLb} \subseteq 1..NewLb
  BY NewLbFresh DEF ExclusiveInv
<1>r. cloud \subseteq 1..created /\ NotFound(stored) \cup NotFound(cached) \cup Running(work) \subseteq 1..created
  BY NotFoundRecorded DEF ExclusiveInv, RecordInv, Numbered
<1>1. CASE EnsureLbStatus
  <2>1. /\ UNCHANGED <<cloud, created, stored, cached, place>>
        /\ work' = LbStatus(Tagged) /\ EnsureLbIds(Found \cup Tagged) /\ ppc' = "ask"
    BY <1>1 DEF EnsureLbStatus
  <2>2. EnsureLbIds(cloud)
    BY <2>1, FoundAll
  <2>3. cloud \in SUBSET LBs
    BY DEF ExclusiveInv, RecordInv, TypeOK
  <2>4. PortsKnown'
    BY <2>1, <2>2, <2>3, ListChange
  <2>5. MissingGone'
    BY <2>1, RoundStatus DEF ExclusiveInv, MissingGone
  <2>6. (lbs \subseteq 1..created)' /\ RoundLists'
    BY <1>r, <2>1, <2>2, RoundStatus DEF ExclusiveInv, EnsureLbIds, RoundLists
  <2>7. Exclusive'
    BY <2>1 DEF ExclusiveInv, Exclusive
  <2> QED BY <2>4, <2>5, <2>6, <2>7 DEF ExclusiveInv
<1>2. CASE CreateCLB
  <2> DEFINE S == Running(work) \cup {NewLb}
  <2>1. /\ UNCHANGED <<stored, cached, place>> /\ created' = NewLb /\ cloud' = cloud \cup {NewLb}
        /\ work' = [work EXCEPT ![NewLb] = [state |-> "", allocated |-> 0]]
        /\ EnsureLbIds(S) /\ ppc = "create" /\ ppc' = "complete"
    BY <1>2 DEF CreateCLB
  <2>2. NewLb \in LBs /\ S \in SUBSET LBs
    BY <1>2, NewLbType DEF CreateCLB, ExclusiveInv, RecordInv, Running
  <2>3. cloud \subseteq Running(work) /\ Running(work) \subseteq lbs
    BY <2>1 DEF ExclusiveInv, RoundLists
  <2>4. PortsKnown'
    <3>1. \A l \in 1..created : l \in cloud' => l \in cloud
      BY <1>f, <2>1
    <3>2. \A l \in lbs : l \notin S => l \notin cloud'
      BY <2>1, <2>3
    <3>3. \A l \in S : l \in 1..created /\ l \notin lbs => l \in cloud
      BY <1>f, <2>3
    <3>4. 1..created \subseteq 1..created' /\ UNCHANGED place
      BY <1>f, <2>1
    <3> HIDE DEF S
    <3> QED BY <2>1, <2>2, <3>1, <3>2, <3>3, <3>4, ListChange
  <2>5. MissingGone'
    <3>1. work \in [LBs -> Entries]
      BY DEF ExclusiveInv, RecordInv, TypeOK
    <3>2. NotFound(work') \subseteq NotFound(work) /\ NewLb \notin NotFound(work')
      BY <2>1, <2>2, <3>1 DEF NotFound
    <3> QED BY <1>f, <1>r, <2>1, <3>2 DEF ExclusiveInv, MissingGone
  <2>6. (lbs \subseteq 1..created)'
    <3>1. lbs' = S
      BY <2>1 DEF EnsureLbIds
    <3> QED BY <1>f, <1>r, <2>1, <3>1
  <2>7. RoundLists' /\ Exclusive'
    BY <2>1 DEF ExclusiveInv, RoundLists, Exclusive
  <2> QED BY <2>4, <2>5, <2>6, <2>7 DEF ExclusiveInv
<1>3. CASE CreateFails
  <2>1. /\ UNCHANGED <<lbs, used, stored, cached, place>> /\ ppc' = "idle" /\ work' = NoStatus
        /\ \/ created' = NewLb /\ cloud' = cloud \cup {NewLb}
           \/ created' = created /\ cloud' = cloud
    BY <1>3 DEF CreateFails, PoolError, EndPool
  <2>2. 1..created \subseteq 1..created' /\ cloud' \subseteq cloud \cup {NewLb}
    BY <1>f, <2>1
  <2>3. PortsKnown' /\ (lbs \subseteq 1..created)'
    BY <1>f, <2>1, <2>2 DEF ExclusiveInv, PortsKnown
  <2>4. MissingGone'
    BY <1>f, <1>n, <1>r, <2>1, <2>2 DEF ExclusiveInv, MissingGone
  <2>5. RoundLists' /\ Exclusive'
    BY <2>1 DEF ExclusiveInv, RoundLists, Exclusive
  <2> QED BY <2>3, <2>4, <2>5 DEF ExclusiveInv
<1>4. CASE AskRequest \/ ClearRequest \/ MarkScaleUpCompleted \/ ResetScaleUpRequest
  <2>1. /\ UNCHANGED <<lbs, used, place, cloud, created, stored, cached, work>>
        /\ ppc' \in {"ask", "create"} => ppc \in {"ask", "create"}
    BY <1>4 DEF AskRequest, ClearRequest, MarkScaleUpCompleted, ResetScaleUpRequest
  <2>2. MissingGone' /\ RoundLists'
    BY <2>1 DEF ExclusiveInv, MissingGone, RoundLists
  <2> QED BY <2>1, <2>2, PortsStay DEF ExclusiveInv
<1>5. CASE SkipWrite \/ WritePool \/ PoolFails
  <2>1. /\ UNCHANGED <<lbs, used, place, cloud, created, cached>>
        /\ ppc' = "idle" /\ work' = NoStatus /\ stored' \in {stored, work}
    BY <1>5 DEF SkipWrite, WritePool, PoolFails, PoolError, EndPool
  <2>2. MissingGone' /\ RoundLists'
    BY <1>n, <2>1 DEF ExclusiveInv, MissingGone, RoundLists
  <2> QED BY <2>1, <2>2, PortsStay DEF ExclusiveInv
<1> QED BY <1>1, <1>2, <1>3, <1>4, <1>5 DEF PoolStep

\* Every step but a restart keeps ports exclusive.
LEMMA ExclusiveStep ==
  ASSUME "restart" \notin Faults
  PROVE  ExclusiveInv /\ [Next]_vars => ExclusiveInv'
<1> SUFFICES ASSUME ExclusiveInv, [Next]_vars PROVE ExclusiveInv'
  OBVIOUS
<1> USE PrimedStatus
<1>1. RecordInv'
  BY RecordStep DEF ExclusiveInv
<1>2. ASSUME NEW b \in Bindings, Bind(b) \/ DeleteBinding(b)
      PROVE  ExclusiveInv'
  <2>1. UNCHANGED <<lbs, cloud, created, stored, cached, work, ppc>>
    BY <1>2, BindLeaves
  <2>2. PortsKnown' /\ Exclusive'
    BY <1>2, BindExclusive
  <2> QED BY <1>1, <2>1, <2>2 DEF ExclusiveInv, MissingGone, RoundLists
<1>3. CASE PoolStep
  BY <1>1, <1>3, PoolExclusive
<1>4. CASE Deliver
  <2>1. UNCHANGED <<lbs, used, place, cloud, created, stored, work, ppc>> /\ cached' = stored
    BY <1>4 DEF Deliver, allocVars, cloudVars, poolVars
  <2>2. MissingGone' /\ RoundLists'
    BY <2>1 DEF ExclusiveInv, MissingGone, RoundLists
  <2> QED BY <1>1, <2>1, <2>2, PortsStay DEF ExclusiveInv
<1>5. CASE \E l \in LBs : DeleteCloudLb(l)
  <2>1. /\ UNCHANGED <<lbs, used, place, created, stored, cached, work, ppc>>
        /\ cloud' \subseteq cloud
    BY <1>5 DEF DeleteCloudLb, allocVars, statusVars, poolVars, bindVars
  <2>2. MissingGone' /\ RoundLists'
    BY <2>1 DEF ExclusiveInv, MissingGone, RoundLists
  <2> QED BY <1>1, <2>1, <2>2, PortsStay DEF ExclusiveInv
<1>6. CASE Restart
  BY <1>6 DEF Restart, Fault
<1>7. CASE UNCHANGED vars
  <2>1. UNCHANGED <<lbs, used, place, cloud, created, stored, cached, work, ppc>>
    BY <1>7 DEF vars, allocVars, cloudVars, statusVars, poolVars, bindVars
  <2>2. MissingGone' /\ RoundLists'
    BY <2>1 DEF ExclusiveInv, MissingGone, RoundLists
  <2> QED BY <1>1, <2>1, <2>2, PortsStay DEF ExclusiveInv
<1> QED BY <1>2, <1>3, <1>4, <1>5, <1>6, <1>7 DEF Next

\* Without a restart no port is with two bindings (ScaleUp!Exclusive), whatever else fails,
\* whichever load balancers are deleted and however old the status is that the pool reconciler
\* lists from: the run scale_up_restart shows that one restart is enough for the opposite, since
\* initCache knows only what the stored status lists.
THEOREM ExclusiveUnlessRestarted ==
  ASSUME "restart" \notin Faults
  PROVE  Spec => []Exclusive
<1>1. Init => ExclusiveInv
  <2> SUFFICES ASSUME Init PROVE ExclusiveInv
    OBVIOUS
  <2>1. \A b \in Bindings : place[b] = None
    BY DEF Init
  <2>2. lbs = {} /\ cloud = {} /\ ppc = "idle"
    BY DEF Init
  <2> QED BY <2>1, <2>2, RecordInit DEF ExclusiveInv, PortsKnown, MissingGone, RoundLists, Exclusive
<1>2. ExclusiveInv => Exclusive
  BY DEF ExclusiveInv
<1> QED BY <1>1, <1>2, ExclusiveStep, PTL DEF Spec
=============================================================================
