------------------------- MODULE BindingLifeProofs -------------------------
(***************************************************************************)
(* What the binding controller guarantees for every number of bindings,    *)
(* ports and addresses, whatever fails and whenever.                       *)
(***************************************************************************)
EXTENDS BindingLife, WellFoundedInduction, TLAPS

\* What a worker knows fits the step it is at.
Ready(w) ==
  /\ w.at \in {"backend", "wait", "listener"} => w.obj.port # 0
  /\ w.at \in {"allocate", "record"} => w.obj.port = 0
  /\ w.port # 0 <=> w.at = "record"
  /\ w.at = "bind" => w.ip # 0
  /\ w.at = "release" => w.obj.finalized

TypeInv == TypeOK /\ \A b \in Bindings : Ready(worker[b])

-----------------------------------------------------------------------------
\* A set of numbers that is not empty has a least one.
LEMMA LeastExists ==
  ASSUME NEW S \in SUBSET Nat, S # {}
  PROVE  \E p \in S : \A q \in S : p <= q
<1> DEFINE Less == OpToRel(<, Nat)
<1>1. \E p \in S : \A q \in S : <<q, p>> \notin Less
  BY WFMin, NatLessThanWellFounded
<1>2. \A p, q \in S : <<q, p>> \notin Less => p <= q
  BY DEF OpToRel
<1> QED
  BY <1>1, <1>2

\* The search finds a port that is free.
LEMMA FirstFreeIsFree ==
  ASSUME Ports \ allocated # {}
  PROVE  FirstFree \in Ports \ allocated
<1>1. \E p \in Ports \ allocated : \A q \in Ports \ allocated : p <= q
  BY LeastExists, BindingLifeAssumption
<1> QED
  BY <1>1 DEF FirstFree

\* A new listener has an id nobody holds.
LEMMA NewIdIsFresh ==
  ASSUME FreshIds # {}
  PROVE  NewId \in FreshIds
<1>1. FreshIds \subseteq Nat
  BY BindingLifeAssumption DEF FreshIds, Ids
<1>2. \E i \in FreshIds : \A j \in FreshIds : i <= j
  BY <1>1, LeastExists
<1> QED
  BY <1>2 DEF NewId

\* The records that stand for nothing, and the numbers, have their types.
LEMMA Typing ==
  /\ Absent \in Objects /\ NoPod \in Pods /\ Idle \in Workers /\ Ready(Idle)
  /\ Ids \subseteq AnyId /\ 0 \in AnyId /\ Alien \in AnyId
  /\ Ports \subseteq Nat \ {0} /\ IPs \subseteq Nat \ {0}
<1>1. Ids \subseteq AnyId /\ 0 \in AnyId /\ Alien \in AnyId
  BY BindingLifeAssumption DEF Ids, AnyId, Alien
<1>2. Absent \in Objects
  BY <1>1 DEF Absent, Objects, Uids, States
<1>3. NoPod \in Pods
  BY DEF NoPod, Pods, Uids
<1>4. Idle \in Workers /\ Ready(Idle)
  BY <1>1, <1>2 DEF Idle, Workers, Steps, Ready
<1> QED
  BY <1>1, <1>2, <1>3, <1>4, BindingLifeAssumption

\* In the beginning no worker is at work and the variables have their types.
LEMMA InitTyped == Init => TypeInv
<1> SUFFICES ASSUME Init PROVE TypeInv
  OBVIOUS
<1> USE DEF Init
<1>1. FirstIP \in [Bindings -> IPs]
  BY BindingLifeAssumption DEF FirstIP
<1>2. pod \in [Bindings -> Pods]
  <2>1. \A b \in Bindings : [NoPod EXCEPT !.uid = 1, !.ip = FirstIP[b]] \in Pods
    <3> SUFFICES ASSUME NEW b \in Bindings
                 PROVE  [NoPod EXCEPT !.uid = 1, !.ip = FirstIP[b]] \in Pods
      OBVIOUS
    <3>1. FirstIP[b] \in IPs
      BY <1>1
    <3> HIDE DEF Init
    <3>2. NoPod \in Pods /\ 1 \in Uids
      BY Typing DEF Uids
    <3> QED
      BY <3>1, <3>2 DEF Pods
  <2> QED
    BY <2>1
<1>3. acts \subseteq ActKinds /\ faults \subseteq FaultKinds
  BY BindingLifeAssumption
<1>4. listener \in [Ports -> AnyId] /\ cache \in [Ports -> AnyId]
  BY Typing
<1>5. obj \in [Bindings -> Objects] /\ copy \in [Bindings -> Objects]
  BY Typing
<1>6. worker \in [Bindings -> Workers] /\ \A b \in Bindings : Ready(worker[b])
  BY Typing
<1> QED
  BY <1>2, <1>3, <1>4, <1>5, <1>6 DEF TypeInv, TypeOK

-----------------------------------------------------------------------------
(* The workers' steps.                                                     *)

\* What is known of the workers when one of them goes on.
WorkersTyped == worker \in [Bindings -> Workers] /\ \A b \in Bindings : Ready(worker[b])

\* A worker that goes to a step that fits what it knows leaves the workers typed.
LEMMA Goes ==
  ASSUME TypeInv, NEW b \in Bindings, NEW w \in Workers, Ready(w), Becomes(b, w)
  PROVE  WorkersTyped'
BY DEF TypeInv, TypeOK, WorkersTyped, Becomes

\* After the ports were ensured a worker goes on with what it has, or its reconcile ends.
Onward(b, w) ==
  \/ worker' = [worker EXCEPT ![b] = Idle]
  \/ \E at \in {"bind", "save", "fail", "annotate", "bound"} :
       /\ at = "bind" => w.ip # 0
       /\ worker' = [worker EXCEPT ![b] = [w EXCEPT !.at = at]]

\* Reporting an error is one of the ways onward.
LEMMA FailingOnward ==
  ASSUME TypeInv, NEW b \in Bindings, NEW w, Failing(b, w)
  PROVE  Onward(b, w) /\ queued' \in [Bindings -> BOOLEAN]
BY DEF Failing, Onward, Requeue, Enqueue, Becomes, TypeInv, TypeOK

\* So are all ends of the second half of sync.
LEMMA ConcludeOnward ==
  ASSUME TypeInv, NEW b \in Bindings, NEW w, w.failed \in BOOLEAN, Conclude(b, w)
  PROVE  Onward(b, w) /\ queued' \in [Bindings -> BOOLEAN]
<1>1. queued \in [Bindings -> BOOLEAN]
  BY DEF TypeInv, TypeOK
<1>2. CASE w.listener # w.obj.listener
  <2>1. Becomes(b, [w EXCEPT !.at = "save"]) /\ UNCHANGED queued
    BY <1>2 DEF Conclude
  <2> QED
    BY <1>1, <2>1 DEF Onward, Becomes
<1>3. CASE w.listener = w.obj.listener /\ w.failed
  <2>1. Failing(b, w)
    BY <1>3 DEF Conclude
  <2> QED
    BY <2>1, FailingOnward
<1>4. CASE w.listener = w.obj.listener /\ ~w.failed /\ w.ip = 0
  <2>1. Stop(b)
    BY <1>4 DEF Conclude
  <2> QED
    BY <1>1, <2>1 DEF Onward, Stop, Becomes
<1>5. CASE w.listener = w.obj.listener /\ ~w.failed /\ w.ip # 0
  <2>1. /\ Becomes(b, [w EXCEPT !.at = IF w.obj.state = "Bound" THEN "annotate" ELSE "bound"])
        /\ UNCHANGED queued
    BY <1>5 DEF Conclude
  <2> QED
    BY <1>1, <2>1 DEF Onward, Becomes
<1> QED
  BY <1>2, <1>3, <1>4, <1>5

\* And they leave the workers typed.
LEMMA OnwardTyped ==
  ASSUME TypeInv, NEW b \in Bindings, NEW w \in Workers, w.port = 0, Onward(b, w)
  PROVE  WorkersTyped'
<1>1. \A at \in {"bind", "save", "fail", "annotate", "bound"} :
        (at = "bind" => w.ip # 0) =>
           [w EXCEPT !.at = at] \in Workers /\ Ready([w EXCEPT !.at = at])
  BY DEF Workers, Steps, Ready
<1> QED
  BY <1>1, Typing, Goes DEF Onward, Becomes

\* Where sync begins fits the object.
LEMMA SyncStepFits ==
  ASSUME NEW o, o.disabled \in BOOLEAN
  PROVE  /\ SyncStep(o) \in {"unbind", "disable", "pending", "allocate", "backend"}
         /\ SyncStep(o) = "backend" => o.port # 0
         /\ SyncStep(o) = "allocate" => o.port = 0
<1>1. CASE o.disabled
  BY <1>1 DEF SyncStep
<1>2. CASE ~o.disabled /\ o.state = ""
  BY <1>2 DEF SyncStep
<1>3. CASE ~o.disabled /\ o.state # ""
  BY <1>3 DEF SyncStep
<1> QED
  BY <1>1, <1>2, <1>3

\* So does where a reconcile begins; only a new object has no finalizer then.
LEMMA FirstStepFits ==
  ASSUME NEW o \in Objects
  PROVE  /\ FirstStep(o) \in {"idle", "dropFinalizer", "remove", "deleting", "addFinalizer",
                              "unbind", "disable", "pending", "allocate", "backend"}
         /\ FirstStep(o) = "backend" => o.port # 0
         /\ FirstStep(o) = "allocate" => o.port = 0
         /\ FirstStep(o) \notin {"idle", "addFinalizer"} => o.finalizer
<1>1. o.disabled \in BOOLEAN /\ o.finalizer \in BOOLEAN /\ o.deleted \in BOOLEAN /\ o.finalized \in BOOLEAN
  BY DEF Objects
<1>2. CASE ~Exists(o) \/ (o.deleted /\ ~o.finalizer)
  BY <1>2 DEF FirstStep
<1>3. CASE Exists(o) /\ o.deleted /\ o.finalizer /\ o.finalized
  BY <1>3 DEF FirstStep
<1>4. CASE Exists(o) /\ o.deleted /\ o.finalizer /\ ~o.finalized
  BY <1>4 DEF FirstStep
<1>5. CASE Exists(o) /\ ~o.deleted /\ ~o.finalizer
  BY <1>5 DEF FirstStep
<1>6. CASE Exists(o) /\ ~o.deleted /\ o.finalizer
  BY <1>1, <1>6, SyncStepFits DEF FirstStep
<1> QED
  BY <1>1, <1>2, <1>3, <1>4, <1>5, <1>6

\* What a step writes: an object, whose port changes at "record" only, and which has the
\* finalizer if it had it, or is gone.
LEMMA WrittenFits ==
  ASSUME NEW w \in Workers, w.at \in WriteSteps
  PROVE  /\ Written(w) \in Objects
         /\ w.at = "dropFinalizer" => Written(w) = Absent
         /\ w.at # "dropFinalizer" =>
              /\ Written(w).port = IF w.at = "record" THEN w.port ELSE w.obj.port
              /\ Written(w).finalizer = (w.at = "addFinalizer" \/ w.obj.finalizer)
              /\ Written(w).finalized = (w.at = "mark" \/ w.obj.finalized)
<1>1. w.obj \in Objects /\ w.port \in Ports \cup {0}
  BY DEF Workers
<1>2. CASE w.at = "dropFinalizer"
  <2>1. Written(w) = Absent
    BY <1>2 DEF Written
  <2> QED
    BY <1>2, <2>1, Typing
<1>3. CASE w.at \in {"pending", "full", "noBackend", "wait", "fail", "disable", "deleting"}
  <2>1. \E s \in States : Written(w) = [w.obj EXCEPT !.state = s]
    BY <1>3 DEF Written, States
  <2> QED
    BY <1>1, <1>3, <2>1 DEF Objects
<1>4. CASE w.at = "addFinalizer"
  <2>1. Written(w) = [w.obj EXCEPT !.finalizer = TRUE]
    BY <1>4 DEF Written
  <2> QED
    BY <1>1, <1>4, <2>1 DEF Objects
<1>5. CASE w.at = "mark"
  <2>1. Written(w) = [w.obj EXCEPT !.finalized = TRUE]
    BY <1>5 DEF Written
  <2> QED
    BY <1>1, <1>5, <2>1 DEF Objects
<1>6. CASE w.at = "record"
  <2>1. Written(w) = [w.obj EXCEPT !.state = "Allocated", !.port = w.port]
    BY <1>6 DEF Written
  <2>2. "Allocated" \in States
    BY DEF States
  <2> QED
    BY <1>1, <1>6, <2>1, <2>2 DEF Objects
<1> QED
  BY <1>2, <1>3, <1>4, <1>5, <1>6 DEF WriteSteps

\* The step after a write fits what was written.
LEMMA StepAfterFits ==
  ASSUME NEW w \in Workers, w.at \in WriteSteps, Ready(w), StepAfter(w) # "idle",
         NEW v, v = [w EXCEPT !.at = StepAfter(w), !.obj = Written(w), !.port = 0]
  PROVE  /\ v \in Workers /\ Ready(v) /\ v.obj = Written(w) /\ v.port = 0 /\ v.at # "record"
         /\ w.at # "dropFinalizer" /\ w.at # "fail"
<1>1. Written(w) \in Objects
  BY WrittenFits
<1>2. StepAfter(w) \in Steps => v \in Workers
  BY <1>1 DEF Workers
<1>3. v.at = StepAfter(w) /\ v.obj = Written(w) /\ v.port = 0
  BY DEF Workers
<1>4. CASE w.at \in {"addFinalizer", "pending"}
  <2>1. StepAfter(w) = SyncStep(Written(w))
    BY <1>4 DEF StepAfter
  <2>2. Written(w).disabled \in BOOLEAN
    BY <1>1 DEF Objects
  <2> QED
    BY <1>2, <1>3, <1>4, <2>1, <2>2, SyncStepFits DEF Ready, Steps
<1>5. CASE w.at = "record"
  <2>1. StepAfter(w) = "backend" /\ Written(w).port = w.port
    BY <1>5, WrittenFits DEF StepAfter
  <2> QED
    BY <1>2, <1>3, <1>5, <2>1 DEF Ready, Steps
<1>6. CASE w.at = "wait"
  <2>1. StepAfter(w) = "listener" /\ Written(w).port = w.obj.port
    BY <1>6, WrittenFits DEF StepAfter
  <2> QED
    BY <1>2, <1>3, <1>6, <2>1 DEF Ready, Steps
<1>7. CASE w.at = "mark"
  <2>1. StepAfter(w) = "release" /\ Written(w).finalized
    BY <1>7, WrittenFits DEF StepAfter
  <2> QED
    BY <1>2, <1>3, <1>7, <2>1 DEF Ready, Steps
<1>8. CASE w.at \in {"disable", "deleting"}
  <2>1. StepAfter(w) \in {"unbind", "remove"}
    BY <1>8 DEF StepAfter
  <2> QED
    BY <1>2, <1>3, <1>8, <2>1 DEF Ready, Steps
<1>9. CASE w.at \in {"full", "noBackend", "fail", "dropFinalizer"}
  BY <1>9 DEF StepAfter
<1> QED
  BY <1>4, <1>5, <1>6, <1>7, <1>8, <1>9 DEF WriteSteps

\* Types of what a reconcile can change, the workers' apart.
RestTyped ==
  /\ obj \in [Bindings -> Objects] /\ copy \in [Bindings -> Objects]
  /\ queued \in [Bindings -> BOOLEAN] /\ podQueued \in [Bindings -> BOOLEAN]
  /\ allocated \in SUBSET Ports /\ cache \in [Ports -> AnyId] /\ freed \in BOOLEAN
  /\ abandoned \in SUBSET Ports
  /\ listener \in [Ports -> AnyId] /\ targets \in [Ports -> SUBSET IPs]
  /\ pod \in [Bindings -> Pods]
  /\ acts \subseteq ActKinds /\ faults \subseteq FaultKinds

\* The two halves of the invariant.
LEMMA Parts == RestTyped' /\ WorkersTyped' => TypeInv'
BY DEF TypeInv, TypeOK, RestTyped, WorkersTyped

\* A reconcile that begins.
LEMMA StartTyped ==
  ASSUME TypeInv, NEW b \in Bindings, Start(b)
  PROVE  TypeInv'
<1> DEFINE step == FirstStep(copy[b])
           w == IF step = "idle" THEN Idle ELSE [Idle EXCEPT !.at = step, !.obj = copy[b]]
<1>1. copy[b] \in Objects
  BY DEF TypeInv, TypeOK
<1>2. w \in Workers /\ Ready(w)
  <2>1. step \in Steps
    BY <1>1, FirstStepFits DEF Steps
  <2>2. CASE step = "idle"
    BY <2>2, Typing
  <2>3. CASE step # "idle"
    <3>1. w \in Workers /\ w.at = step /\ w.obj = copy[b] /\ w.port = 0
      BY <1>1, <2>1, <2>3, Typing DEF Workers, Idle
    <3> HIDE DEF w
    <3> QED
      BY <1>1, <3>1, FirstStepFits DEF Ready
  <2> QED
    BY <2>2, <2>3
<1>3. Becomes(b, w)
  BY DEF Start
<1> HIDE DEF w
<1>4. WorkersTyped'
  BY <1>2, <1>3, Goes
<1>5. RestTyped'
  BY DEF TypeInv, TypeOK, RestTyped, Start, Reads, Fault, memory, cloud, pods
<1> QED
  BY <1>4, <1>5, Parts

\* A write that succeeds.
LEMMA WriteTyped ==
  ASSUME TypeInv, NEW b \in Bindings, Write(b)
  PROVE  TypeInv'
<1>1. worker[b] \in Workers /\ worker[b].at \in WriteSteps /\ Ready(worker[b])
  BY DEF TypeInv, TypeOK, Write
<1>2. obj' = [obj EXCEPT ![b] = Written(worker[b])]
      /\ UNCHANGED <<copy, podQueued, allocated, cache, freed, abandoned,
                     listener, targets, pod, acts, faults>>
  BY DEF Write, memory, cloud, pods, fate
<1>3. Written(worker[b]) \in Objects
  BY <1>1, WrittenFits
<1>4. obj'[b] = Written(worker[b])
  BY <1>2 DEF TypeInv, TypeOK
<1>5. WorkersTyped' /\ queued' \in [Bindings -> BOOLEAN]
  <2>1. CASE At(b, "fail")
    <3>1. Requeue(b)
      BY <2>1 DEF Write
    <3> QED
      BY <3>1, Typing, Goes DEF Requeue, Enqueue, TypeInv, TypeOK
  <2>2. CASE ~At(b, "fail") /\ StepAfter(worker[b]) = "idle"
    <3>1. Stop(b)
      BY <2>2 DEF Write
    <3> QED
      BY <3>1, Typing, Goes DEF Stop, TypeInv, TypeOK
  <2>3. CASE ~At(b, "fail") /\ StepAfter(worker[b]) # "idle"
    <3> DEFINE v == [worker[b] EXCEPT !.at = StepAfter(worker[b]), !.obj = Written(worker[b]), !.port = 0]
    <3>1. Becomes(b, v) /\ UNCHANGED queued
      BY <1>4, <2>3 DEF Write
    <3>2. v \in Workers /\ Ready(v)
      BY <1>1, <2>3, StepAfterFits
    <3> HIDE DEF v
    <3> QED
      BY <3>1, <3>2, Goes DEF TypeInv, TypeOK
  <2> QED
    BY <2>1, <2>2, <2>3
<1>6. RestTyped'
  BY <1>2, <1>3, <1>5 DEF TypeInv, TypeOK, RestTyped
<1> QED
  BY <1>5, <1>6, Parts

\* A reconcile that ends.
LEMMA EndTyped ==
  ASSUME TypeInv, NEW b \in Bindings, Stop(b) \/ Requeue(b)
  PROVE  WorkersTyped' /\ queued' \in [Bindings -> BOOLEAN]
<1>1. Becomes(b, Idle)
  BY DEF Stop, Requeue
<1>2. queued' \in [Bindings -> BOOLEAN]
  BY DEF Stop, Requeue, Enqueue, TypeInv, TypeOK
<1> QED
  BY <1>1, <1>2, Typing, Goes

\* A write that fails.
LEMMA WriteFailsTyped ==
  ASSUME TypeInv, NEW b \in Bindings, WriteFails(b)
  PROVE  TypeInv'
<1>1. WorkersTyped' /\ queued' \in [Bindings -> BOOLEAN]
  BY EndTyped DEF WriteFails
<1>2. RestTyped'
  BY <1>1 DEF WriteFails, GiveBack, Fault, cloud, pods, TypeInv, TypeOK, RestTyped
<1> QED
  BY <1>1, <1>2, Parts

\* A port is allocated, or there is none.
LEMMA AllocateTyped ==
  ASSUME TypeInv, NEW b \in Bindings, Allocate(b)
  PROVE  TypeInv'
<1>1. worker[b] \in Workers /\ Ready(worker[b]) /\ worker[b].at = "allocate"
  BY DEF TypeInv, TypeOK, Allocate, At
<1>2. CASE Ports \subseteq allocated
  <2>1. UNCHANGED <<obj, copy, podQueued, allocated, cache, freed, abandoned,
                    listener, targets, pod, acts, faults>>
    BY <1>2 DEF Allocate, memory, cloud, pods, fate
  <2>2. WorkersTyped' /\ queued' \in [Bindings -> BOOLEAN]
    <3>1. CASE Stop(b)
      BY <3>1, EndTyped
    <3>2. CASE Goto(b, "full") /\ UNCHANGED queued
      <4> DEFINE w == [worker[b] EXCEPT !.at = "full"]
      <4>1. w \in Workers /\ Ready(w)
        BY <1>1 DEF Workers, Steps, Ready
      <4>2. Becomes(b, w)
        BY <3>2 DEF Goto
      <4> HIDE DEF w
      <4> QED
        BY <3>2, <4>1, <4>2, Goes DEF TypeInv, TypeOK
    <3> QED
      BY <1>2, <3>1, <3>2 DEF Allocate
  <2> QED
    BY <2>1, <2>2, Parts DEF TypeInv, TypeOK, RestTyped
<1>3. CASE Ports \ allocated # {}
  <2> DEFINE w == [worker[b] EXCEPT !.at = "record", !.port = FirstFree]
  <2>1. FirstFree \in Ports \ allocated /\ FirstFree # 0
    BY <1>3, FirstFreeIsFree, Typing
  <2>2. /\ Becomes(b, w) /\ allocated' = allocated \cup {FirstFree}
        /\ UNCHANGED <<obj, copy, queued, podQueued, cache, freed, abandoned,
                       listener, targets, pod, acts, faults>>
    BY <1>3 DEF Allocate, memory, cloud, pods, fate
  <2>3. w \in Workers /\ Ready(w)
    BY <1>1, <2>1 DEF Workers, Steps, Ready
  <2> HIDE DEF w
  <2>4. WorkersTyped'
    BY <2>2, <2>3, Goes
  <2> QED
    BY <2>1, <2>2, <2>4, Parts DEF TypeInv, TypeOK, RestTyped
<1> QED
  BY <1>2, <1>3

\* The backend is looked up.
LEMMA BackendTyped ==
  ASSUME TypeInv, NEW b \in Bindings, Backend(b)
  PROVE  TypeInv'
<1>1. worker[b] \in Workers /\ Ready(worker[b]) /\ worker[b].at = "backend" /\ pod[b].ip \in IPs \cup {0}
  BY DEF TypeInv, TypeOK, Backend, At, Pods
<1>2. UNCHANGED <<obj, copy, podQueued, allocated, cache, freed, abandoned,
                  listener, targets, pod, acts, faults>>
  BY DEF Backend, memory, cloud, pods, fate
<1>3. WorkersTyped' /\ queued' \in [Bindings -> BOOLEAN]
  <2>1. CASE Stop(b)
    BY <2>1, EndTyped
  <2>2. CASE Goto(b, "noBackend") /\ UNCHANGED queued
    <3> DEFINE w == [worker[b] EXCEPT !.at = "noBackend"]
    <3>1. w \in Workers /\ Ready(w) /\ Becomes(b, w)
      BY <1>1, <2>2 DEF Workers, Steps, Ready, Goto
    <3> HIDE DEF w
    <3> QED
      BY <2>2, <3>1, Goes DEF TypeInv, TypeOK
  <2>3. ASSUME NEW step \in {"wait", "listener"},
               Becomes(b, [worker[b] EXCEPT !.ip = pod[b].ip, !.at = step]), UNCHANGED queued
        PROVE  WorkersTyped' /\ queued' \in [Bindings -> BOOLEAN]
    <3> DEFINE w == [worker[b] EXCEPT !.ip = pod[b].ip, !.at = step]
    <3>1. w \in Workers /\ Ready(w)
      BY <1>1 DEF Workers, Steps, Ready
    <3>2. Becomes(b, w)
      BY <2>3
    <3> HIDE DEF w
    <3> QED
      BY <2>3, <3>1, <3>2, Goes DEF TypeInv, TypeOK
  <2> QED
    BY <2>1, <2>2, <2>3 DEF Backend
<1> QED
  BY <1>2, <1>3, Parts DEF TypeInv, TypeOK, RestTyped

\* A worker that has found or made listener i, or none.
LEMMA HasListenerOnward ==
  ASSUME TypeInv, NEW b \in Bindings, NEW i \in AnyId, worker[b].at = "listener", HasListener(b, i)
  PROVE  /\ Onward(b, [worker[b] EXCEPT !.listener = i])
         /\ WorkersTyped' /\ queued' \in [Bindings -> BOOLEAN]
<1> DEFINE w == [worker[b] EXCEPT !.listener = i]
<1>1. worker[b] \in Workers /\ worker[b].port = 0
  BY DEF TypeInv, TypeOK, Ready
<1>2. w \in Workers /\ w.port = 0 /\ w.failed \in BOOLEAN
  BY <1>1 DEF Workers
<1>3. \/ w.ip # 0 /\ Becomes(b, [w EXCEPT !.at = "bind"]) /\ UNCHANGED queued
      \/ Conclude(b, w)
  BY DEF HasListener
<1> HIDE DEF w
<1>4. Onward(b, w) /\ queued' \in [Bindings -> BOOLEAN]
  <2>1. CASE w.ip # 0 /\ Becomes(b, [w EXCEPT !.at = "bind"]) /\ UNCHANGED queued
    BY <2>1 DEF Onward, Becomes, TypeInv, TypeOK
  <2>2. CASE Conclude(b, w)
    BY <1>2, <2>2, ConcludeOnward
  <2> QED
    BY <1>3, <2>1, <2>2
<1>5. WorkersTyped'
  BY <1>2, <1>4, OnwardTyped
<1> QED
  BY <1>4, <1>5 DEF w

\* A worker that has no listener reports that.
LEMMA NoListenerOnward ==
  ASSUME TypeInv, NEW b \in Bindings, worker[b].at = "listener", NoListener(b)
  PROVE  /\ Onward(b, [worker[b] EXCEPT !.listener = Known(b), !.failed = TRUE])
         /\ WorkersTyped' /\ queued' \in [Bindings -> BOOLEAN]
<1> DEFINE w == [worker[b] EXCEPT !.listener = Known(b), !.failed = TRUE]
<1>1. worker[b] \in Workers /\ worker[b].port = 0 /\ worker[b].obj \in Objects /\ PortOf(b) # 0
  BY DEF TypeInv, TypeOK, Ready, Workers, PortOf
<1>2. Known(b) \in AnyId
  BY <1>1 DEF Known, PortOf, Objects, TypeInv, TypeOK
<1>3. w \in Workers /\ w.port = 0 /\ w.failed \in BOOLEAN
  BY <1>1, <1>2 DEF Workers
<1>4. Conclude(b, w)
  BY DEF NoListener
<1> HIDE DEF w
<1>5. Onward(b, w) /\ queued' \in [Bindings -> BOOLEAN]
  BY <1>3, <1>4, ConcludeOnward
<1>6. WorkersTyped'
  BY <1>3, <1>5, OnwardTyped
<1> QED
  BY <1>5, <1>6 DEF w

\* A listener is found or made, or the call fails: the worker keeps its object.
LEMMA EnsureListenerTyped ==
  ASSUME TypeInv, NEW b \in Bindings, EnsureListener(b) \/ EnsureListenerFails(b)
  PROVE  /\ TypeInv'
         /\ \E w \in Workers : Onward(b, w) /\ w.obj = worker[b].obj /\ w.port = worker[b].port
<1> DEFINE p == PortOf(b)
<1>1. worker[b] \in Workers /\ worker[b].at = "listener" /\ worker[b].obj \in Objects /\ p \in Ports
  BY DEF TypeInv, TypeOK, Ready, Workers, PortOf, EnsureListener, EnsureListenerFails, At, Objects
<1>2. Known(b) \in AnyId /\ listener[p] \in AnyId /\ (FreshIds # {} => NewId \in AnyId)
  <2>1. FreshIds \subseteq AnyId
    BY Typing DEF FreshIds
  <2> QED
    BY <1>1, <2>1, NewIdIsFresh DEF Known, PortOf, Objects, TypeInv, TypeOK
<1>3. UNCHANGED <<obj, copy, allocated, freed, abandoned, pod, podQueued>> /\ faults' \subseteq FaultKinds
      /\ acts' \subseteq ActKinds
  BY DEF EnsureListener, EnsureListenerFails, Fault, memory, pods, fate, TypeInv, TypeOK
<1>4. cache' \in [Ports -> AnyId] /\ listener' \in [Ports -> AnyId] /\ UNCHANGED targets
  BY <1>1, <1>2, Typing DEF EnsureListener, EnsureListenerFails, memory, cloud, TypeInv, TypeOK
<1>5. (\E i \in AnyId : HasListener(b, i)) \/ NoListener(b)
  BY <1>2 DEF EnsureListener, EnsureListenerFails
<1>6. /\ \E w \in Workers : Onward(b, w) /\ w.obj = worker[b].obj /\ w.port = worker[b].port
      /\ WorkersTyped' /\ queued' \in [Bindings -> BOOLEAN]
  <2>1. ASSUME NEW i \in AnyId
        PROVE  LET w == [worker[b] EXCEPT !.listener = i] IN
               w \in Workers /\ w.obj = worker[b].obj /\ w.port = worker[b].port
    BY <1>1 DEF Workers
  <2>2. LET w == [worker[b] EXCEPT !.listener = Known(b), !.failed = TRUE] IN
        w \in Workers /\ w.obj = worker[b].obj /\ w.port = worker[b].port
    BY <1>1, <1>2 DEF Workers
  <2> QED
    BY <1>1, <1>5, <2>1, <2>2, HasListenerOnward, NoListenerOnward
<1> QED
  BY <1>3, <1>4, <1>6, Parts DEF TypeInv, TypeOK, RestTyped

\* So it does when the backend is registered.
LEMMA EnsurePortBoundTyped ==
  ASSUME TypeInv, NEW b \in Bindings, EnsurePortBound(b) \/ EnsurePortBoundFails(b)
  PROVE  /\ TypeInv'
         /\ \E w \in Workers : Onward(b, w) /\ w.obj = worker[b].obj /\ w.port = worker[b].port
<1>1. worker[b] \in Workers /\ worker[b].at = "bind" /\ worker[b].port = 0
  BY DEF TypeInv, TypeOK, Ready, EnsurePortBound, EnsurePortBoundFails, At
<1>2. UNCHANGED <<obj, copy, allocated, cache, freed, abandoned, listener, pod, podQueued>>
      /\ faults' \subseteq FaultKinds /\ acts' \subseteq ActKinds
  BY DEF EnsurePortBound, EnsurePortBoundFails, Fault, memory, pods, fate, TypeInv, TypeOK
<1>3. targets' \in [Ports -> SUBSET IPs]
  <2>1. worker[b].ip \in IPs
    BY <1>1 DEF TypeInv, Ready, Workers
  <2>2. PortOf(b) \in Ports => Others(b) \subseteq IPs /\ targets[PortOf(b)] \subseteq IPs
    BY DEF Others, TypeInv, TypeOK
  <2>3. targets' = targets \/
          \E T \in {{worker[b].ip}, targets[PortOf(b)], targets[PortOf(b)] \ Others(b)} :
             targets' = [targets EXCEPT ![PortOf(b)] = T]
    BY DEF EnsurePortBound, EnsurePortBoundFails
  <2> QED
    BY <2>1, <2>2, <2>3 DEF TypeInv, TypeOK
<1>4. PICK f \in BOOLEAN : Conclude(b, worker[b]) \/ Conclude(b, [worker[b] EXCEPT !.failed = f])
  BY DEF EnsurePortBound, EnsurePortBoundFails
<1>5. ASSUME NEW w \in Workers, w.obj = worker[b].obj, w.port = worker[b].port, Conclude(b, w)
      PROVE  /\ Onward(b, w) /\ WorkersTyped' /\ queued' \in [Bindings -> BOOLEAN]
  <2>1. w.failed \in BOOLEAN
    BY DEF Workers
  <2> QED
    BY <1>1, <1>5, <2>1, ConcludeOnward, OnwardTyped
<1>6. /\ \E w \in Workers : Onward(b, w) /\ w.obj = worker[b].obj /\ w.port = worker[b].port
      /\ WorkersTyped' /\ queued' \in [Bindings -> BOOLEAN]
  <2> DEFINE w == [worker[b] EXCEPT !.failed = f]
  <2>1. w \in Workers /\ w.obj = worker[b].obj /\ w.port = worker[b].port
    BY <1>1 DEF Workers
  <2>2. Conclude(b, worker[b]) \/ Conclude(b, w)
    BY <1>4
  <2> HIDE DEF w
  <2> QED
    BY <1>1, <1>5, <2>1, <2>2
<1> QED
  BY <1>2, <1>3, <1>6, Parts DEF TypeInv, TypeOK, RestTyped

\* The worker goes on without its port.
LEMMA UnexpectedStaysTyped ==
  ASSUME TypeInv, NEW b \in Bindings, UnexpectedStays(b)
  PROVE  TypeInv'
<1> DEFINE w == [worker[b] EXCEPT !.at = "drop"]
<1>1. worker[b] \in Workers /\ worker[b].at = "listener" /\ Ready(worker[b])
  BY DEF TypeInv, TypeOK, UnexpectedStays, At
<1>2. w \in Workers /\ Ready(w) /\ Becomes(b, w)
  BY <1>1 DEF Workers, Steps, Ready, UnexpectedStays, Goto
<1> HIDE DEF w
<1>3. WorkersTyped'
  BY <1>2, Goes
<1>4. listener' \in [Ports -> AnyId] /\ faults' \subseteq FaultKinds
  BY Typing DEF UnexpectedStays, Fault, TypeInv, TypeOK
<1>5. RestTyped'
  BY <1>4 DEF UnexpectedStays, memory, pods, TypeInv, TypeOK, RestTyped
<1> QED
  BY <1>3, <1>5, Parts

\* What leaves a status is a port.
LEMMA ReplacesTyped ==
  ASSUME TypeInv, NEW b \in Bindings, NEW p, Replaces(b, p)
  PROVE  abandoned' \in SUBSET Ports
<1>1. obj[b].port \in Ports \cup {0}
  BY DEF TypeInv, TypeOK, Objects
<1> QED
  BY <1>1 DEF Replaces, TypeInv, TypeOK

\* The object a worker writes without its port.
Dropped(b) == [copy[b] EXCEPT !.port = 0, !.listener = 0]

\* That is an object, and the reconcile ends.
LEMMA DropTyped ==
  ASSUME TypeInv, NEW b \in Bindings, Drop(b)
  PROVE  /\ TypeInv' /\ obj' = [obj EXCEPT ![b] = Dropped(b)]
         /\ worker' = [worker EXCEPT ![b] = Idle]
<1>1. Dropped(b) \in Objects
  BY Typing DEF Dropped, Objects, TypeInv, TypeOK
<1>2. obj' = [obj EXCEPT ![b] = Dropped(b)] /\ Requeue(b)
  BY DEF Drop, Dropped
<1>3. WorkersTyped' /\ queued' \in [Bindings -> BOOLEAN]
  BY <1>2, EndTyped
<1>4. abandoned' \in SUBSET Ports
  BY ReplacesTyped DEF Drop
<1>5. RestTyped'
  BY <1>1, <1>2, <1>3, <1>4 DEF Drop, memory, cloud, pods, fate, TypeInv, TypeOK, RestTyped
<1> QED
  BY <1>2, <1>3, <1>5, Parts DEF Requeue, Becomes

\* The object a worker writes when it has read it again.
Saved(b) == [copy[b] EXCEPT !.port = PortOf(b), !.listener = worker[b].listener]

\* A write of the object that was read again, and what is written.
LEMMA SaveTyped ==
  ASSUME TypeInv, NEW b \in Bindings, Save(b)
  PROVE  /\ TypeInv' /\ obj' = [obj EXCEPT ![b] = Saved(b)]
         /\ Onward(b, [worker[b] EXCEPT !.obj = [Saved(b) EXCEPT !.state = worker[b].obj.state],
                                        !.fetched = TRUE])
<1> DEFINE o == [Saved(b) EXCEPT !.state = worker[b].obj.state]
           w == [worker[b] EXCEPT !.obj = o, !.fetched = TRUE]
<1>1. /\ worker[b] \in Workers /\ worker[b].at = "save" /\ worker[b].port = 0 /\ copy[b] \in Objects
      /\ worker[b].obj \in Objects
  BY DEF TypeInv, TypeOK, Ready, Save, At, Workers
<1>2. Saved(b) \in Objects /\ o \in Objects
  <2>1. PortOf(b) \in Ports \cup {0} /\ worker[b].listener \in AnyId /\ worker[b].obj.state \in States
    BY <1>1 DEF PortOf, Workers, Objects
  <2> QED
    BY <1>1, <2>1 DEF Saved, Objects
<1>3. obj' = [obj EXCEPT ![b] = Saved(b)]
      /\ UNCHANGED <<copy, podQueued, allocated, cache, freed, listener, targets, pod, acts, faults>>
  BY DEF Save, Saved, memory, cloud, pods, fate
<1>4. Conclude(b, w)
  BY DEF Save, Saved
<1> HIDE DEF o
<1>5. w \in Workers /\ w.port = 0 /\ w.failed \in BOOLEAN
  BY <1>1, <1>2 DEF Workers
<1> HIDE DEF w
<1>6. Onward(b, w) /\ queued' \in [Bindings -> BOOLEAN]
  BY <1>4, <1>5, ConcludeOnward
<1>7. WorkersTyped'
  BY <1>5, <1>6, OnwardTyped
<1>8. abandoned' \in SUBSET Ports
  BY ReplacesTyped DEF Save
<1>9. RestTyped'
  BY <1>2, <1>3, <1>6, <1>8 DEF TypeInv, TypeOK, RestTyped
<1> QED
  BY <1>3, <1>6, <1>7, <1>9, Parts DEF w, o

\* The same for the state Bound.
LEMMA BecomeBoundTyped ==
  ASSUME TypeInv, NEW b \in Bindings, BecomeBound(b)
  PROVE  TypeInv'
<1> DEFINE o == [copy[b] EXCEPT !.state = "Bound"]
           w == [worker[b] EXCEPT !.obj = o, !.fetched = TRUE, !.at = "annotate"]
<1>1. worker[b] \in Workers /\ worker[b].at = "bound" /\ worker[b].port = 0 /\ copy[b] \in Objects
  BY DEF TypeInv, TypeOK, Ready, BecomeBound, At
<1>2. o \in Objects
  BY <1>1 DEF Objects, States
<1>3. /\ obj' = [obj EXCEPT ![b] = o] /\ Becomes(b, w)
      /\ UNCHANGED <<copy, queued, podQueued, allocated, cache, freed, abandoned,
                     listener, targets, pod, acts, faults>>
  BY DEF BecomeBound, memory, cloud, pods, fate
<1> HIDE DEF o
<1>4. w \in Workers /\ Ready(w)
  BY <1>1, <1>2 DEF Workers, Steps, Ready
<1> HIDE DEF w
<1>5. WorkersTyped'
  BY <1>3, <1>4, Goes
<1> QED
  BY <1>2, <1>3, <1>5, Parts DEF TypeInv, TypeOK, RestTyped

\* The write is given up.
LEMMA RetriesExhaustedTyped ==
  ASSUME TypeInv, NEW b \in Bindings, RetriesExhausted(b)
  PROVE  TypeInv'
<1>1. WorkersTyped' /\ queued' \in [Bindings -> BOOLEAN]
  BY EndTyped DEF RetriesExhausted
<1>2. RestTyped'
  BY <1>1 DEF RetriesExhausted, Fault, memory, cloud, pods, TypeInv, TypeOK, RestTyped
<1> QED
  BY <1>1, <1>2, Parts

\* The mapping is written to the pod.
LEMMA AnnotateTyped ==
  ASSUME TypeInv, NEW b \in Bindings, Annotate(b)
  PROVE  /\ TypeInv' /\ Onward(b, worker[b])
<1>1. /\ worker[b] \in Workers /\ worker[b].at = "annotate" /\ worker[b].port = 0 /\ pod[b] \in Pods
      /\ PortOf(b) \in Ports \cup {0}
  BY DEF TypeInv, TypeOK, Ready, Annotate, At, Workers, Objects, PortOf
<1>2. UNCHANGED <<obj, copy, allocated, cache, freed, abandoned, listener, targets, acts, faults>>
  BY DEF Annotate, memory, cloud, fate
<1>3. /\ Onward(b, worker[b]) /\ queued' \in [Bindings -> BOOLEAN]
      /\ podQueued' \in [Bindings -> BOOLEAN] /\ pod' \in [Bindings -> Pods]
  <2>1. CASE pod[b].uid = 0
    BY <2>1, FailingOnward DEF Annotate, pods, TypeInv, TypeOK
  <2>2. CASE pod[b].uid # 0
    <3>1. [pod[b] EXCEPT !.mapping = PortOf(b)] \in Pods
      BY <1>1 DEF Pods
    <3>2. pod' = [pod EXCEPT ![b].mapping = PortOf(b)] /\ Becomes(b, Idle)
      BY <2>2 DEF Annotate
    <3>3. UNCHANGED <<queued, podQueued>> \/ (Enqueue(b) /\ EnqueuePod(b))
      BY <2>2 DEF Annotate
    <3> QED
      BY <3>1, <3>2, <3>3 DEF Onward, Becomes, Enqueue, EnqueuePod, TypeInv, TypeOK
  <2> QED
    BY <2>1, <2>2
<1>4. WorkersTyped'
  BY <1>1, <1>3, OnwardTyped
<1> QED
  BY <1>2, <1>3, <1>4, Parts DEF TypeInv, TypeOK, RestTyped

\* The backends of a disabled binding are removed.
LEMMA UnbindTyped ==
  ASSUME TypeInv, NEW b \in Bindings, Unbind(b)
  PROVE  TypeInv'
<1>1. WorkersTyped' /\ queued' \in [Bindings -> BOOLEAN]
  BY EndTyped DEF Unbind
<1>2. targets' = targets \/ targets' = [targets EXCEPT ![PortOf(b)] = {}]
  BY DEF Unbind
<1>3. targets' \in [Ports -> SUBSET IPs]
  BY <1>2 DEF TypeInv, TypeOK
<1>4. RestTyped'
  BY <1>1, <1>3 DEF Unbind, Fault, memory, pods, TypeInv, TypeOK, RestTyped
<1> QED
  BY <1>1, <1>4, Parts

\* The listener of a deleted binding is removed.
LEMMA RemoveListenerTyped ==
  ASSUME TypeInv, NEW b \in Bindings, RemoveListener(b)
  PROVE  TypeInv'
<1>1. worker[b] \in Workers /\ worker[b].at = "remove" /\ Ready(worker[b])
  BY DEF TypeInv, TypeOK, RemoveListener, At
<1>2. WorkersTyped' /\ queued' \in [Bindings -> BOOLEAN]
  <2>1. CASE Goto(b, "mark") /\ UNCHANGED queued
    <3> DEFINE w == [worker[b] EXCEPT !.at = "mark"]
    <3>1. w \in Workers /\ Ready(w) /\ Becomes(b, w)
      BY <1>1, <2>1 DEF Workers, Steps, Ready, Goto
    <3> HIDE DEF w
    <3> QED
      BY <2>1, <3>1, Goes DEF TypeInv, TypeOK
  <2>2. CASE Requeue(b)
    BY <2>2, EndTyped
  <2> QED
    BY <2>1, <2>2 DEF RemoveListener
<1>3. listener' \in [Ports -> AnyId] /\ targets' \in [Ports -> SUBSET IPs]
  BY Typing DEF RemoveListener, DeleteAt, cloud, TypeInv, TypeOK
<1>4. cache' \in [Ports -> AnyId]
  BY Typing DEF RemoveListener, TypeInv, TypeOK
<1>5. UNCHANGED <<obj, copy, allocated, freed, abandoned, pod, podQueued, acts>> /\ faults' \subseteq FaultKinds
  BY DEF RemoveListener, Fault, pods, TypeInv, TypeOK
<1> QED
  BY <1>2, <1>3, <1>4, <1>5, Parts DEF TypeInv, TypeOK, RestTyped

\* The port of a deleted binding is released.
LEMMA ReleaseTyped ==
  ASSUME TypeInv, NEW b \in Bindings, Release(b)
  PROVE  TypeInv'
<1> DEFINE w == [worker[b] EXCEPT !.at = "dropFinalizer"]
<1>1. worker[b] \in Workers /\ worker[b].at = "release" /\ Ready(worker[b])
  BY DEF TypeInv, TypeOK, Release, At
<1>2. w \in Workers /\ Ready(w) /\ Becomes(b, w)
  BY <1>1 DEF Workers, Steps, Ready, Release, Goto
<1> HIDE DEF w
<1>3. WorkersTyped'
  BY <1>2, Goes
<1>4. RestTyped'
  <2>1. Running(b) \in BOOLEAN
    BY DEF Running, TypeInv, TypeOK, Pods
  <2>2. podQueued' \in [Bindings -> BOOLEAN]
    BY <2>1, Zenon DEF Release, TypeInv, TypeOK
  <2> QED
    BY <2>2 DEF Release, cloud, fate, TypeInv, TypeOK, RestTyped
<1> QED
  BY <1>3, <1>4, Parts

-----------------------------------------------------------------------------
(* Around the workers.                                                     *)

\* The pod controller creates a binding or switches it.
LEMMA PodSyncTyped ==
  ASSUME TypeInv, NEW b \in Bindings, PodSync(b)
  PROVE  TypeInv'
<1>1. pod[b] \in Pods /\ copy[b] \in Objects /\ obj[b] \in Objects
  BY DEF TypeInv, TypeOK
<1>2. NewObject(b) \in Objects /\ [obj[b] EXCEPT !.disabled = pod[b].disabled] \in Objects
  <2>1. pod[b].uid \in Uids /\ pod[b].disabled \in BOOLEAN /\ 0 \in Uids /\ "" \in States
    BY <1>1 DEF Pods, Uids, States
  <2> QED
    BY <1>1, <2>1, Typing DEF NewObject, Objects
<1>3. obj' = obj \/ (\E o \in Objects : obj' = [obj EXCEPT ![b] = o])
  BY <1>1, <1>2 DEF PodSync
<1>4. podQueued' \in [Bindings -> BOOLEAN]
  BY DEF PodSync, TypeInv, TypeOK
<1>5. UNCHANGED <<copy, queued, worker, allocated, cache, freed, abandoned,
                  listener, targets, pod, acts>>
      /\ faults' \subseteq FaultKinds
  BY DEF PodSync, Reads, Fault, memory, cloud, TypeInv, TypeOK
<1>6. obj' \in [Bindings -> Objects]
  BY <1>3 DEF TypeInv, TypeOK
<1> QED
  BY <1>4, <1>5, <1>6 DEF TypeInv, TypeOK

\* A deleted object is an object.
LEMMA DeletedTyped ==
  ASSUME NEW o \in Objects
  PROVE  Deleted(o) \in Objects
<1>1. o.finalizer => [o EXCEPT !.deleted = TRUE] \in Objects
  BY DEF Objects
<1> QED
  BY <1>1, Typing DEF Deleted

\* A pod changes.
LEMMA PodChangesTyped ==
  ASSUME TypeInv, NEW b \in Bindings, NEW new \in Pods, PodChanges(b, new), acts' \subseteq ActKinds
  PROVE  TypeInv'
BY DEF PodChanges, Enqueue, EnqueuePod, memory, cloud, TypeInv, TypeOK

\* What informers, the garbage collector, the kubelet and users do.
LEMMA ClusterTyped ==
  ASSUME TypeInv, NEW b \in Bindings, Cluster(b) \/ User(b)
  PROVE  TypeInv'
<1>1. pod[b] \in Pods /\ obj[b] \in Objects /\ acts \subseteq ActKinds
  BY DEF TypeInv, TypeOK
<1>2. CASE Inform(b)
  BY <1>1, <1>2 DEF Inform, Enqueue, memory, cloud, pods, fate, TypeInv, TypeOK
<1>3. CASE Collect(b) \/ BindingDeleted(b)
  <2>1. Deleted(obj[b]) \in Objects
    BY <1>1, DeletedTyped
  <2>2. obj' = [obj EXCEPT ![b] = Deleted(obj[b])]
        /\ UNCHANGED <<copy, queued, worker, memory, abandoned, cloud, pods, faults>> /\ acts' \subseteq ActKinds
    BY <1>1, <1>3 DEF Collect, BindingDeleted, Act, fate
  <2> QED
    BY <2>1, <2>2 DEF memory, cloud, pods, TypeInv, TypeOK
<1>4. CASE PodGone(b)
  BY <1>1, <1>4, PodChangesTyped, Typing DEF PodGone
<1>5. CASE PodGetsIP(b)
  <2>1. PICK ip \in IPs : PodChanges(b, [pod[b] EXCEPT !.ip = ip])
    BY <1>5 DEF PodGetsIP
  <2>2. [pod[b] EXCEPT !.ip = ip] \in Pods
    BY <1>1 DEF Pods
  <2> QED
    BY <1>1, <1>5, <2>1, <2>2, PodChangesTyped DEF PodGetsIP
<1>6. CASE PodDeleted(b)
  <2>1. [pod[b] EXCEPT !.leaving = TRUE] \in Pods
    BY <1>1 DEF Pods
  <2> QED
    BY <1>1, <1>6, <2>1, PodChangesTyped DEF PodDeleted, Act
<1>7. CASE Switched(b)
  <2>1. [pod[b] EXCEPT !.disabled = ~@] \in Pods
    BY <1>1 DEF Pods
  <2> QED
    BY <1>1, <1>7, <2>1, PodChangesTyped DEF Switched, Act
<1>8. CASE PodCreated(b)
  <2>1. [NoPod EXCEPT !.uid = 2] \in Pods
    <3>1. NoPod \in Pods /\ 2 \in Uids
      BY Typing DEF Uids
    <3> QED
      BY <3>1 DEF Pods
  <2> QED
    BY <1>1, <1>8, <2>1, PodChangesTyped DEF PodCreated
<1> QED
  BY <1>2, <1>3, <1>4, <1>5, <1>6, <1>7, <1>8 DEF Cluster, User

\* The bindings that wait are woken.
LEMMA PoolReportsTyped == TypeInv /\ PoolReports => TypeInv'
<1> SUFFICES ASSUME TypeInv, PoolReports PROVE TypeInv'
  OBVIOUS
<1>1. queued' \in [Bindings -> BOOLEAN]
  BY DEF PoolReports, Waiting, TypeInv, TypeOK
<1> QED
  BY <1>1 DEF PoolReports, cloud, pods, fate, TypeInv, TypeOK

\* The memory is lost and rebuilt.
LEMMA RestartTyped == TypeInv /\ Restart => TypeInv'
<1> SUFFICES ASSUME TypeInv, Restart PROVE TypeInv'
  OBVIOUS
<1>1. allocated' \subseteq Ports /\ abandoned' \subseteq Ports
  <2>1. \A b \in Bindings : obj[b].port \in Ports \cup {0}
    BY DEF TypeInv, TypeOK, Objects
  <2> QED
    BY <2>1 DEF Restart
<1>2. worker' \in [Bindings -> Workers] /\ \A b \in Bindings : Ready(worker'[b])
  BY Typing DEF Restart
<1>3. /\ UNCHANGED <<obj, listener, targets, pod, acts>> /\ faults' \subseteq FaultKinds /\ copy' = obj
      /\ queued' \in [Bindings -> BOOLEAN] /\ podQueued' \in [Bindings -> BOOLEAN]
      /\ cache' \in [Ports -> AnyId] /\ freed' \in BOOLEAN
  BY Typing DEF Restart, Fault, cloud, TypeInv, TypeOK
<1> QED
  BY <1>1, <1>2, <1>3 DEF TypeInv, TypeOK

\* What each step does to the types.
LEMMA StepTyped == TypeInv /\ [Next]_vars => TypeInv'
<1> SUFFICES ASSUME TypeInv, [Next]_vars PROVE TypeInv'
  OBVIOUS
<1>1. ASSUME NEW b \in Bindings, Work(b)
      PROVE  TypeInv'
  BY <1>1, StartTyped, WriteTyped, WriteFailsTyped, AllocateTyped, BackendTyped,
     EnsureListenerTyped, UnexpectedStaysTyped, EnsurePortBoundTyped, SaveTyped, DropTyped,
     BecomeBoundTyped,
     RetriesExhaustedTyped, AnnotateTyped, UnbindTyped, RemoveListenerTyped, ReleaseTyped
     DEF Work, Sync, Cleanup
<1>2. ASSUME NEW b \in Bindings, PodSync(b) \/ Cluster(b) \/ User(b)
      PROVE  TypeInv'
  BY <1>2, PodSyncTyped, ClusterTyped
<1>3. CASE PoolReports \/ Restart
  BY <1>3, PoolReportsTyped, RestartTyped
<1>4. CASE UNCHANGED vars
  BY <1>4 DEF vars, memory, cloud, pods, fate, TypeInv, TypeOK
<1> QED
  BY <1>1, <1>2, <1>3, <1>4 DEF Next, System

\* Every variable keeps its type, whatever goes wrong; in particular a worker that looks for a
\* listener has a port.
THEOREM TypeCorrect == Spec => []TypeOK
<1>1. TypeInv => TypeOK
  BY DEF TypeInv
<1> QED
  BY <1>1, InitTyped, StepTyped, PTL DEF Spec

-----------------------------------------------------------------------------
(* Ports.  What follows holds where no reconcile begins with an old copy.  *)

\* An old copy is not among what goes wrong in a behaviour; nothing is added to faults later.
NoStale == "stale" \notin faults

\* The ports a binding has: the one in its status, the one its worker is about to record, and the
\* one it is about to release.
Held(b) ==
  {IF obj[b].finalized THEN 0 ELSE obj[b].port, worker[b].port,
   IF worker[b].at = "release" THEN worker[b].obj.port ELSE 0} \ {0}

\* A worker goes by an object that has not changed in what matters here.
Current(b) ==
  /\ obj[b].finalizer => Exists(obj[b])
  /\ worker[b].at # "idle" => Exists(worker[b].obj)
  /\ worker[b].at \notin {"idle", "addFinalizer"} =>
       /\ obj[b].finalizer
       /\ worker[b].obj.port = obj[b].port
       /\ worker[b].obj.finalized = obj[b].finalized
  /\ worker[b].at \in {"deleting", "remove", "mark"} => ~worker[b].obj.finalized

\* No port is held that is not recorded in the allocator, and none is held twice.
HoldInv ==
  /\ "stale" \notin faults
  /\ \A b \in Bindings : Current(b) /\ Held(b) \subseteq allocated
  /\ \A b, d \in Bindings : b # d => Held(b) \cap Held(d) = {}

\* Nothing is held that was not held before, and the allocator keeps what it has.
LEMMA Keep ==
  ASSUME HoldInv, allocated \subseteq allocated', "stale" \notin faults',
         \A b \in Bindings : Current(b)' /\ Held(b)' \subseteq Held(b)
  PROVE  HoldInv'
<1>1. \A b \in Bindings : Held(b)' \subseteq allocated'
  BY DEF HoldInv
<1>2. \A b, d \in Bindings : b # d => Held(b)' \cap Held(d)' = {}
  BY DEF HoldInv
<1> QED
  BY <1>1, <1>2 DEF HoldInv

\* A port its holder gives up is released: nobody else has it.
LEMMA GiveUp ==
  ASSUME HoldInv, "stale" \notin faults', NEW b \in Bindings, NEW p \in Held(b),
         allocated' = allocated \ {p}, Held(b)' \subseteq Held(b) \ {p},
         \A d \in Bindings : Current(d)' /\ Held(d)' \subseteq Held(d)
  PROVE  HoldInv'
<1>1. \A d \in Bindings : Held(d)' \subseteq Held(d) \ {p}
  <2>1. \A d \in Bindings : d # b => p \notin Held(d)
    BY DEF HoldInv
  <2> QED
    BY <2>1
<1>2. \A d \in Bindings : Held(d)' \subseteq allocated'
  BY <1>1 DEF HoldInv
<1>3. \A d, e \in Bindings : d # e => Held(d)' \cap Held(e)' = {}
  BY DEF HoldInv
<1> QED
  BY <1>2, <1>3 DEF HoldInv

\* A step of one binding, in the terms of that binding.
LEMMA Local ==
  ASSUME HoldInv, NEW b \in Bindings,
         \A d \in Bindings \ {b} : obj'[d] = obj[d] /\ worker'[d] = worker[d]
  PROVE  \A d \in Bindings \ {b} : Current(d)' /\ Held(d)' = Held(d)
BY DEF HoldInv, Current, Held

\* The reconcile ends, or goes on with the object it has and holds nothing more.
LEMMA Calm ==
  ASSUME TypeInv, HoldInv, NEW b \in Bindings, UNCHANGED <<obj, allocated>>, "stale" \notin faults',
         NEW v, worker' = [worker EXCEPT ![b] = v],
         \/ v = Idle
         \/ /\ v.obj = worker[b].obj /\ v.port = 0 /\ worker[b].at \notin {"idle", "addFinalizer"}
            /\ v.at \notin {"release", "deleting", "remove"}
            /\ v.at = "mark" => worker[b].at = "remove"
  PROVE  HoldInv'
<1>1. worker'[b] = v /\ \A d \in Bindings \ {b} : worker'[d] = worker[d]
  BY DEF TypeInv, TypeOK
<1>2. \A d \in Bindings \ {b} : Current(d)' /\ Held(d)' = Held(d)
  BY <1>1, Local
<1>3. Current(b)' /\ Held(b)' \subseteq Held(b)
  <2>1. Current(b)
    BY DEF HoldInv
  <2>2. CASE v = Idle
    BY <1>1, <2>1, <2>2 DEF Current, Held, Idle
  <2>3. CASE /\ v.obj = worker[b].obj /\ v.port = 0 /\ worker[b].at \notin {"idle", "addFinalizer"}
             /\ v.at \notin {"release", "deleting", "remove"}
             /\ v.at = "mark" => worker[b].at = "remove"
    BY <1>1, <2>1, <2>3 DEF Current, Held
  <2> QED
    BY <2>2, <2>3
<1> QED
  BY <1>2, <1>3, Keep

\* All ways onward keep the object and hold nothing more.
LEMMA OnwardHold ==
  ASSUME TypeInv, HoldInv, NEW b \in Bindings, UNCHANGED <<obj, allocated>>, "stale" \notin faults',
         worker[b].at \notin {"idle", "addFinalizer", "record"},
         NEW w \in Workers, Onward(b, w), w.obj = worker[b].obj, w.port = worker[b].port
  PROVE  HoldInv'
<1>1. worker[b].port = 0
  BY DEF TypeInv, TypeOK, Ready, Workers
<1>2. CASE worker' = [worker EXCEPT ![b] = Idle]
  BY <1>2, Calm
<1>3. ASSUME NEW at \in {"bind", "save", "fail", "annotate", "bound"},
             worker' = [worker EXCEPT ![b] = [w EXCEPT !.at = at]]
      PROVE  HoldInv'
  <2> DEFINE v == [w EXCEPT !.at = at]
  <2>1. v.obj = worker[b].obj /\ v.port = 0 /\ v.at = at
    BY <1>1 DEF Workers
  <2>2. worker' = [worker EXCEPT ![b] = v]
    BY <1>3
  <2> HIDE DEF v
  <2> QED
    BY <2>1, <2>2, Calm
<1> QED
  BY <1>2, <1>3 DEF Onward

\* In the beginning nothing is held.
LEMMA InitHold == NoStale /\ Init => HoldInv
<1> SUFFICES ASSUME NoStale, Init PROVE HoldInv
  OBVIOUS
<1>1. \A b \in Bindings : obj[b] = Absent /\ worker[b] = Idle
  BY DEF Init
<1>2. "stale" \notin faults
  BY DEF NoStale
<1>3. \A b \in Bindings : Current(b) /\ Held(b) = {}
  BY <1>1 DEF Current, Held, Absent, Idle
<1> QED
  BY <1>2, <1>3 DEF HoldInv

\* A reconcile begins with the object as it is.
LEMMA StartHold ==
  ASSUME TypeInv, HoldInv, NEW b \in Bindings, Start(b)
  PROVE  HoldInv'
<1> DEFINE step == FirstStep(obj[b])
<1>1. copy[b] = obj[b] /\ UNCHANGED <<obj, allocated, faults>> /\ worker[b].at = "idle"
  BY DEF HoldInv, Start, Reads, Fault, memory, At
<1>2. obj[b] \in Objects
  BY DEF TypeInv, TypeOK
<1>3. CASE step = "idle"
  <2>1. worker' = [worker EXCEPT ![b] = Idle]
    BY <1>1, <1>3 DEF Start, Becomes
  <2> QED
    BY <1>1, <2>1, Calm DEF HoldInv
<1>4. CASE step # "idle"
  <2> DEFINE v == [Idle EXCEPT !.at = step, !.obj = obj[b]]
  <2>1. worker' = [worker EXCEPT ![b] = v]
    BY <1>1, <1>4 DEF Start, Becomes
  <2>2. v.at = step /\ v.obj = obj[b] /\ v.port = 0
    BY DEF Idle
  <2> HIDE DEF v
  <2>3. worker'[b] = v /\ \A d \in Bindings \ {b} : worker'[d] = worker[d]
    BY <2>1 DEF TypeInv, TypeOK
  <2>4. \A d \in Bindings \ {b} : Current(d)' /\ Held(d)' = Held(d)
    BY <1>1, <2>3, Local
  <2>5. /\ Exists(obj[b])
        /\ step \in {"deleting", "remove", "mark"} => ~obj[b].finalized
        /\ step # "addFinalizer" => obj[b].finalizer
        /\ step # "release"
    <3>1. /\ step \in {"idle", "dropFinalizer", "remove", "deleting", "addFinalizer",
                       "unbind", "disable", "pending", "allocate", "backend"}
          /\ step \notin {"idle", "addFinalizer"} => obj[b].finalizer
      BY <1>2, FirstStepFits
    <3>2. obj[b].finalizer \in BOOLEAN /\ obj[b].deleted \in BOOLEAN /\ obj[b].finalized \in BOOLEAN
          /\ obj[b].disabled \in BOOLEAN
      BY <1>2 DEF Objects
    <3>3. Exists(obj[b])
      <4>1. obj[b].finalizer => Exists(obj[b])
        BY DEF HoldInv, Current
      <4> QED
        BY <1>4, <4>1 DEF FirstStep
    <3>4. CASE obj[b].deleted /\ obj[b].finalizer /\ obj[b].finalized
      BY <3>1, <3>3, <3>4 DEF FirstStep
    <3>5. CASE obj[b].deleted /\ obj[b].finalizer /\ ~obj[b].finalized
      BY <3>1, <3>3, <3>5
    <3>6. CASE ~obj[b].deleted /\ ~obj[b].finalizer
      BY <3>1, <3>3, <3>6 DEF FirstStep
    <3>7. CASE ~obj[b].deleted /\ obj[b].finalizer
      <4>1. step = SyncStep(obj[b])
        BY <3>3, <3>7 DEF FirstStep
      <4> QED
        BY <3>1, <3>2, <3>3, <3>7, <4>1, SyncStepFits
    <3>8. CASE obj[b].deleted /\ ~obj[b].finalizer
      BY <1>4, <3>8 DEF FirstStep
    <3> QED
      BY <3>2, <3>4, <3>5, <3>6, <3>7, <3>8
  <2>6. Current(b)' /\ Held(b)' \subseteq Held(b)
    BY <1>1, <1>2, <1>4, <2>2, <2>3, <2>5 DEF Current, Held, HoldInv
  <2> QED
    BY <1>1, <2>4, <2>6, Keep DEF HoldInv
<1> QED
  BY <1>3, <1>4

\* A write changes the object and what the worker goes by together.
LEMMA WriteHold ==
  ASSUME TypeInv, HoldInv, NEW b \in Bindings, Write(b)
  PROVE  HoldInv'
<1> DEFINE o == Written(worker[b])
<1>1. worker[b] \in Workers /\ worker[b].at \in WriteSteps /\ Ready(worker[b]) /\ obj[b] = worker[b].obj
      /\ obj[b] \in Objects
  BY DEF TypeInv, TypeOK, Write
<1>2. obj' = [obj EXCEPT ![b] = o] /\ UNCHANGED <<allocated, faults>>
  BY DEF Write, memory, fate
<1>3. obj'[b] = o /\ \A d \in Bindings \ {b} : obj'[d] = obj[d]
  BY <1>2 DEF TypeInv, TypeOK
<1>4. PICK v : /\ worker' = [worker EXCEPT ![b] = v]
               /\ \/ v = Idle
                  \/ /\ v.obj = o /\ v.port = 0 /\ v.at = StepAfter(worker[b])
                     /\ v.at \notin {"idle", "record"} /\ worker[b].at \notin {"dropFinalizer", "fail"}
                     /\ Ready(v)
  <2>1. CASE At(b, "fail")
    BY <2>1 DEF Write, Requeue, Becomes
  <2>2. CASE ~At(b, "fail") /\ StepAfter(worker[b]) = "idle"
    BY <2>2 DEF Write, Stop, Becomes
  <2>3. CASE ~At(b, "fail") /\ StepAfter(worker[b]) # "idle"
    <3> DEFINE v == [worker[b] EXCEPT !.at = StepAfter(worker[b]), !.obj = o, !.port = 0]
    <3>1. Becomes(b, v)
      BY <1>3, <2>3 DEF Write
    <3>2. /\ v \in Workers /\ Ready(v) /\ v.obj = o /\ v.port = 0 /\ v.at # "record"
          /\ worker[b].at # "dropFinalizer" /\ worker[b].at # "fail"
      BY <1>1, <2>3, StepAfterFits
    <3>3. v.at = StepAfter(worker[b])
      BY <1>1 DEF Workers
    <3> HIDE DEF v
    <3> QED
      BY <2>3, <3>1, <3>2, <3>3 DEF Becomes
  <2> QED
    BY <2>1, <2>2, <2>3
<1>5. worker'[b] = v /\ \A d \in Bindings \ {b} : worker'[d] = worker[d]
  BY <1>4 DEF TypeInv, TypeOK
<1>6. \A d \in Bindings \ {b} : Current(d)' /\ Held(d)' = Held(d)
  BY <1>3, <1>5, Local
<1>7. /\ worker[b].at # "dropFinalizer" => Exists(o) /\ o.finalizer
      /\ worker[b].at = "dropFinalizer" => o = Absent
  <2>1. Current(b)
    BY DEF HoldInv
  <2>2. worker[b].at # "idle" /\ Exists(worker[b].obj)
    BY <1>1, <2>1 DEF Current, WriteSteps
  <2>3. worker[b].at # "addFinalizer" => worker[b].obj.finalizer
    BY <1>1, <2>1, <2>2 DEF Current
  <2>4. worker[b].at # "dropFinalizer" => o.finalizer
    BY <1>1, <2>3, WrittenFits
  <2>5. worker[b].at # "dropFinalizer" => Exists(o)
    <3>1. CASE worker[b].at \in {"pending", "full", "noBackend", "wait", "fail", "disable", "deleting"}
      <4>1. \E s \in States \ {"absent"} : o = [worker[b].obj EXCEPT !.state = s]
        BY <3>1 DEF Written, States
      <4> QED
        BY <1>1, <4>1 DEF Objects, Exists
    <3>2. CASE worker[b].at = "record"
      <4>1. o = [worker[b].obj EXCEPT !.state = "Allocated", !.port = worker[b].port]
        BY <3>2 DEF Written
      <4> QED
        BY <1>1, <4>1 DEF Objects, Exists
    <3>3. CASE worker[b].at \in {"addFinalizer", "mark"}
      <4>1. \/ o = [worker[b].obj EXCEPT !.finalizer = TRUE]
            \/ o = [worker[b].obj EXCEPT !.finalized = TRUE]
        BY <3>3 DEF Written
      <4> QED
        BY <1>1, <2>2, <4>1 DEF Objects, Exists
    <3> QED
      BY <1>1, <3>1, <3>2, <3>3 DEF WriteSteps
  <2> QED
    BY <1>1, <2>4, <2>5, WrittenFits
<1>8. /\ worker[b].at # "dropFinalizer" =>
           /\ o.port = IF worker[b].at = "record" THEN worker[b].port ELSE obj[b].port
           /\ o.finalized = (worker[b].at = "mark" \/ obj[b].finalized)
  BY <1>1, WrittenFits
<1>9. Held(b)' \subseteq Held(b)
  <2>1. CASE worker[b].at = "dropFinalizer"
    <3>1. v = Idle /\ o = Absent
      BY <1>4, <1>7, <2>1
    <3> QED
      BY <1>3, <1>5, <3>1 DEF Held, Absent, Idle
  <2>2. CASE worker[b].at = "mark"
    <3>1. ~obj[b].finalized /\ o.port = obj[b].port /\ o.finalized
      BY <1>1, <1>8, <2>2 DEF HoldInv, Current
    <3>2. v = Idle \/ (v.obj = o /\ v.port = 0)
      BY <1>4
    <3> QED
      BY <1>3, <1>5, <3>1, <3>2 DEF Held, Idle
  <2>3. CASE worker[b].at \notin {"dropFinalizer", "mark"}
    <3>1. v.port = 0 /\ v.at # "release"
      <4>1. StepAfter(worker[b]) # "release"
        BY <1>1, <1>4, <2>3, SyncStepFits, WrittenFits DEF StepAfter, WriteSteps, Objects
      <4> QED
        BY <1>4, <4>1 DEF Idle
    <3>2. o.port \in {worker[b].port, obj[b].port} /\ (o.finalized <=> obj[b].finalized)
      BY <1>1, <1>8, <2>3 DEF Objects
    <3>3. worker[b].at = "record" => obj[b].port = 0
      BY <1>1 DEF Ready
    <3> QED
      BY <1>3, <1>5, <1>8, <2>3, <3>1, <3>2, <3>3 DEF Held
  <2> QED
    BY <2>1, <2>2, <2>3
<1>10. Current(b)'
  <2>1. CASE v = Idle
    BY <1>3, <1>5, <1>7, <2>1 DEF Current, Idle, Absent
  <2>2. CASE /\ v.obj = o /\ v.at = StepAfter(worker[b]) /\ v.at # "idle"
             /\ worker[b].at \notin {"dropFinalizer", "fail"}
    <3>1. v.at \in {"deleting", "remove", "mark"} => worker[b].at = "deleting"
      BY <1>1, <2>2, SyncStepFits, WrittenFits DEF StepAfter, WriteSteps, Objects
    <3>2. worker[b].at = "deleting" => ~o.finalized
      BY <1>1, <1>8 DEF HoldInv, Current
    <3> QED
      BY <1>3, <1>5, <1>7, <2>2, <3>1, <3>2 DEF Current
  <2> QED
    BY <1>4, <2>1, <2>2
<1> QED
  BY <1>2, <1>6, <1>9, <1>10, Keep DEF HoldInv

\* A conflict: the port that was to be recorded is given back, and no other.
LEMMA WriteFailsHold ==
  ASSUME TypeInv, HoldInv, NEW b \in Bindings, WriteFails(b)
  PROVE  HoldInv'
<1> DEFINE p == worker[b].port
<1>1. /\ UNCHANGED obj /\ allocated' = allocated \ {p} /\ worker' = [worker EXCEPT ![b] = Idle]
      /\ "stale" \notin faults'
  BY DEF WriteFails, GiveBack, Stop, Requeue, Becomes, Fault, HoldInv
<1>2. worker[b] \in Workers /\ Ready(worker[b]) /\ allocated \subseteq Ports
  BY DEF TypeInv, TypeOK
<1>3. CASE p = 0
  <2>1. allocated' = allocated
    BY <1>1, <1>2, <1>3, Typing
  <2> QED
    BY <1>1, <2>1, Calm
<1>4. CASE p # 0
  <2>1. worker[b].at = "record" /\ obj[b].port = 0 /\ p \in Held(b)
    BY <1>2, <1>4 DEF Ready, HoldInv, Current, Held
  <2>2. worker'[b] = Idle /\ \A d \in Bindings \ {b} : worker'[d] = worker[d]
    BY <1>1 DEF TypeInv, TypeOK
  <2>3. \A d \in Bindings \ {b} : Current(d)' /\ Held(d)' = Held(d)
    BY <1>1, <2>2, Local
  <2>4. Current(b)' /\ Held(b)' = {}
    BY <1>1, <2>1, <2>2 DEF HoldInv, Current, Held, Idle
  <2> QED
    BY <1>1, <2>1, <2>3, <2>4, GiveUp
<1> QED
  BY <1>3, <1>4

\* The port that is found was free, so nobody holds it.
LEMMA AllocateHold ==
  ASSUME TypeInv, HoldInv, NEW b \in Bindings, Allocate(b)
  PROVE  HoldInv'
<1>1. worker[b] \in Workers /\ worker[b].at = "allocate" /\ worker[b].port = 0
  BY DEF TypeInv, TypeOK, Ready, Allocate, At
<1>2. UNCHANGED <<obj, faults>> /\ "stale" \notin faults'
  BY DEF Allocate, fate, HoldInv
<1>3. CASE Ports \subseteq allocated
  <2> DEFINE w == [worker[b] EXCEPT !.at = "full"]
  <2>1. w.obj = worker[b].obj /\ w.port = 0 /\ w.at = "full"
    BY <1>1 DEF Workers
  <2>2. UNCHANGED allocated /\ (worker' = [worker EXCEPT ![b] = Idle] \/ worker' = [worker EXCEPT ![b] = w])
    BY <1>3 DEF Allocate, Stop, Goto, Becomes
  <2> HIDE DEF w
  <2> QED
    BY <1>1, <1>2, <2>1, <2>2, Calm
<1>4. CASE Ports \ allocated # {}
  <2> DEFINE w == [worker[b] EXCEPT !.at = "record", !.port = FirstFree]
  <2>1. w.obj = worker[b].obj /\ w.port = FirstFree /\ w.at = "record"
    BY <1>1 DEF Workers
  <2>2. allocated' = allocated \cup {FirstFree} /\ worker' = [worker EXCEPT ![b] = w]
    BY <1>4 DEF Allocate, Becomes
  <2>3. FirstFree \notin allocated
    BY <1>4, FirstFreeIsFree
  <2> HIDE DEF w
  <2>4. worker'[b] = w /\ \A d \in Bindings \ {b} : worker'[d] = worker[d]
    BY <2>2 DEF TypeInv, TypeOK
  <2>5. \A d \in Bindings \ {b} : Current(d)' /\ Held(d)' = Held(d)
    BY <1>2, <2>4, Local
  <2>6. Current(b)' /\ Held(b)' \subseteq Held(b) \cup {FirstFree}
    BY <1>1, <1>2, <2>1, <2>4 DEF HoldInv, Current, Held
  <2>7. \A d \in Bindings : FirstFree \notin Held(d) /\ Held(d) \subseteq allocated
    BY <2>3 DEF HoldInv
  <2>8. \A d \in Bindings : Held(d)' \subseteq allocated'
    BY <2>2, <2>5, <2>6, <2>7
  <2>9. \A d, e \in Bindings : d # e => Held(d)' \cap Held(e)' = {}
    BY <2>5, <2>6, <2>7 DEF HoldInv
  <2> QED
    BY <1>2, <2>5, <2>6, <2>8, <2>9 DEF HoldInv
<1> QED
  BY <1>3, <1>4

\* The backend is looked up: ports do not matter.
LEMMA BackendHold ==
  ASSUME TypeInv, HoldInv, NEW b \in Bindings, Backend(b)
  PROVE  HoldInv'
<1>1. worker[b] \in Workers /\ worker[b].at = "backend" /\ worker[b].port = 0
  BY DEF TypeInv, TypeOK, Ready, Backend, At
<1>2. UNCHANGED <<obj, allocated, faults>> /\ "stale" \notin faults'
  BY DEF Backend, memory, fate, HoldInv
<1>3. PICK v : /\ worker' = [worker EXCEPT ![b] = v]
               /\ \/ v = Idle
                  \/ v.obj = worker[b].obj /\ v.port = 0 /\ v.at \in {"noBackend", "wait", "listener"}
  <2>1. CASE Stop(b)
    BY <2>1 DEF Stop, Becomes
  <2>2. CASE Goto(b, "noBackend")
    <3> DEFINE v == [worker[b] EXCEPT !.at = "noBackend"]
    <3>1. v.obj = worker[b].obj /\ v.port = 0 /\ v.at = "noBackend"
      BY <1>1 DEF Workers
    <3>2. worker' = [worker EXCEPT ![b] = v]
      BY <2>2 DEF Goto, Becomes
    <3> QED
      BY <3>1, <3>2
  <2>3. ASSUME NEW step \in {"wait", "listener"},
               Becomes(b, [worker[b] EXCEPT !.ip = pod[b].ip, !.at = step])
        PROVE  \E v : /\ worker' = [worker EXCEPT ![b] = v]
                      /\ v.obj = worker[b].obj /\ v.port = 0 /\ v.at = step
    <3> DEFINE v == [worker[b] EXCEPT !.ip = pod[b].ip, !.at = step]
    <3>1. v.obj = worker[b].obj /\ v.port = 0 /\ v.at = step
      BY <1>1 DEF Workers
    <3>2. worker' = [worker EXCEPT ![b] = v]
      BY <2>3 DEF Becomes
    <3> QED
      BY <3>1, <3>2
  <2> QED
    BY <2>1, <2>2, <2>3 DEF Backend
<1> QED
  BY <1>1, <1>2, <1>3, Calm

\* Nor do they for the listener, its backends and the pod's mapping.
LEMMA EnsureHold ==
  ASSUME TypeInv, HoldInv, NEW b \in Bindings,
         \/ EnsureListener(b) \/ EnsureListenerFails(b)
         \/ EnsurePortBound(b) \/ EnsurePortBoundFails(b) \/ Annotate(b)
  PROVE  HoldInv'
<1>1. PICK w \in Workers : Onward(b, w) /\ w.obj = worker[b].obj /\ w.port = worker[b].port
  <2>1. worker[b] \in Workers
    BY DEF TypeInv, TypeOK
  <2> QED
    BY <2>1, EnsureListenerTyped, EnsurePortBoundTyped, AnnotateTyped
<1>2. worker[b].at \in {"listener", "bind", "annotate"}
  BY DEF EnsureListener, EnsureListenerFails, EnsurePortBound, EnsurePortBoundFails, Annotate, At
<1>3. UNCHANGED <<obj, allocated>> /\ faults' \subseteq faults
  BY DEF EnsureListener, EnsureListenerFails, EnsurePortBound, EnsurePortBoundFails, Annotate,
         Fault, memory, fate
<1> QED
  BY <1>1, <1>2, <1>3, OnwardHold DEF HoldInv

\* Nor for a listener that stays in the way.
LEMMA UnexpectedStaysHold ==
  ASSUME TypeInv, HoldInv, NEW b \in Bindings, UnexpectedStays(b)
  PROVE  HoldInv'
<1> DEFINE w == [worker[b] EXCEPT !.at = "drop"]
<1>1. worker[b] \in Workers /\ worker[b].at = "listener" /\ worker[b].port = 0
  BY DEF TypeInv, TypeOK, Ready, UnexpectedStays, At
<1>2. UNCHANGED <<obj, allocated>> /\ faults' \subseteq faults
  BY DEF UnexpectedStays, Fault, memory
<1>3. worker' = [worker EXCEPT ![b] = w]
  BY DEF UnexpectedStays, Goto, Becomes
<1>4. w.obj = worker[b].obj /\ w.port = 0 /\ w.at = "drop"
  BY <1>1 DEF Workers
<1> HIDE DEF w
<1> QED
  BY <1>1, <1>2, <1>3, <1>4, Calm DEF HoldInv

\* A port that is dropped from a status is not held any more, and stays in the allocator.
LEMMA DropHold ==
  ASSUME TypeInv, HoldInv, NEW b \in Bindings, Drop(b)
  PROVE  HoldInv'
<1>1. obj[b] = copy[b] /\ obj[b] \in Objects /\ Exists(obj[b])
  BY DEF TypeInv, TypeOK, Drop, Refetched
<1>2. /\ Dropped(b).port = 0 /\ Dropped(b).finalized = obj[b].finalized
      /\ Dropped(b).state = obj[b].state
  BY <1>1 DEF Dropped, Objects
<1>3. /\ obj'[b] = Dropped(b) /\ worker'[b] = Idle
      /\ \A d \in Bindings \ {b} : obj'[d] = obj[d] /\ worker'[d] = worker[d]
  BY DropTyped DEF TypeInv, TypeOK
<1>4. \A d \in Bindings \ {b} : Current(d)' /\ Held(d)' = Held(d)
  BY <1>3, Local
<1>5. Current(b)' /\ Held(b)' = {}
  BY <1>1, <1>2, <1>3 DEF Current, Held, Idle, Exists
<1>6. UNCHANGED <<allocated, faults>>
  BY DEF Drop, memory, fate
<1> QED
  BY <1>4, <1>5, <1>6, Keep DEF HoldInv

\* A write of the object that was read again: its port is the one it had.
LEMMA RefetchedHold ==
  ASSUME TypeInv, HoldInv, NEW b \in Bindings, Save(b) \/ BecomeBound(b)
  PROVE  HoldInv'
<1>1. /\ worker[b] \in Workers /\ worker[b].at \in {"save", "bound"} /\ worker[b].port = 0
      /\ copy[b] = obj[b] /\ obj[b] \in Objects /\ Exists(obj[b])
  BY DEF TypeInv, TypeOK, Ready, Save, BecomeBound, At, Refetched
<1>2. UNCHANGED <<allocated, faults>>
  BY DEF Save, BecomeBound, memory, fate
<1>3. /\ obj[b].finalizer /\ worker[b].obj.port = obj[b].port
      /\ worker[b].obj.finalized = obj[b].finalized /\ Exists(worker[b].obj)
  BY <1>1 DEF HoldInv, Current
<1>4. PICK o, v :
        /\ obj' = [obj EXCEPT ![b] = o] /\ worker' = [worker EXCEPT ![b] = v]
        /\ o.port = obj[b].port /\ o.finalized = obj[b].finalized /\ o.finalizer /\ Exists(o)
        /\ \/ v = Idle
           \/ /\ v.at \in {"bind", "save", "fail", "annotate", "bound"} /\ v.port = 0
              /\ v.obj.port = o.port /\ v.obj.finalized = o.finalized /\ Exists(v.obj)
  <2>1. CASE Save(b)
    <3> DEFINE o == Saved(b)
               x == [o EXCEPT !.state = worker[b].obj.state]
               w == [worker[b] EXCEPT !.obj = x, !.fetched = TRUE]
    <3>1. obj' = [obj EXCEPT ![b] = o] /\ Onward(b, w)
      BY <2>1, SaveTyped
    <3>2. /\ o.port = obj[b].port /\ o.finalized = obj[b].finalized /\ o.finalizer /\ Exists(o)
          /\ x.port = o.port /\ x.finalized = o.finalized /\ Exists(x)
      BY <1>1, <1>3 DEF Saved, PortOf, Exists, Objects
    <3> HIDE DEF x
    <3>3. ASSUME NEW at \in {"bind", "save", "fail", "annotate", "bound"}
          PROVE  LET v == [w EXCEPT !.at = at] IN v.at = at /\ v.port = 0 /\ v.obj = x
      BY <1>1 DEF Workers
    <3> HIDE DEF o, w
    <3>4. PICK v : /\ worker' = [worker EXCEPT ![b] = v]
                   /\ \/ v = Idle
                      \/ /\ v.at \in {"bind", "save", "fail", "annotate", "bound"}
                         /\ v.port = 0 /\ v.obj = x
      <4>1. CASE worker' = [worker EXCEPT ![b] = Idle]
        BY <4>1
      <4>2. ASSUME NEW at \in {"bind", "save", "fail", "annotate", "bound"},
                   worker' = [worker EXCEPT ![b] = [w EXCEPT !.at = at]]
            PROVE  \E v : /\ worker' = [worker EXCEPT ![b] = v]
                          /\ v.at \in {"bind", "save", "fail", "annotate", "bound"}
                          /\ v.port = 0 /\ v.obj = x
        <5> DEFINE v == [w EXCEPT !.at = at]
        <5>1. worker' = [worker EXCEPT ![b] = v] /\ v.at = at /\ v.port = 0 /\ v.obj = x
          BY <3>3, <4>2
        <5> QED
          BY <5>1
      <4> QED
        BY <3>1, <4>1, <4>2 DEF Onward
    <3> QED
      BY <3>1, <3>2, <3>4
  <2>2. CASE BecomeBound(b)
    <3> DEFINE o == [copy[b] EXCEPT !.state = "Bound"]
               v == [worker[b] EXCEPT !.obj = o, !.fetched = TRUE, !.at = "annotate"]
    <3>1. obj' = [obj EXCEPT ![b] = o] /\ worker' = [worker EXCEPT ![b] = v]
      BY <2>2 DEF BecomeBound, Becomes
    <3>2. o.port = obj[b].port /\ o.finalized = obj[b].finalized /\ o.finalizer /\ Exists(o)
      BY <1>1, <1>3 DEF Exists, Objects
    <3> HIDE DEF o
    <3>3. v.at = "annotate" /\ v.port = 0 /\ v.obj = o
      BY <1>1 DEF Workers
    <3> HIDE DEF v
    <3> QED
      BY <3>1, <3>2, <3>3
  <2> QED
    BY <2>1, <2>2
<1>5. /\ obj'[b] = o /\ worker'[b] = v
      /\ \A d \in Bindings \ {b} : obj'[d] = obj[d] /\ worker'[d] = worker[d]
  BY <1>4 DEF TypeInv, TypeOK
<1>6. \A d \in Bindings \ {b} : Current(d)' /\ Held(d)' = Held(d)
  BY <1>5, Local
<1>7. Current(b)'
  BY <1>4, <1>5 DEF Current, Idle
<1>8. Held(b)' \subseteq Held(b)
  BY <1>4, <1>5 DEF Held, Idle
<1> QED
  BY <1>2, <1>6, <1>7, <1>8, Keep DEF HoldInv

\* The reconcile ends without having changed the object.
LEMMA IdleHold ==
  ASSUME TypeInv, HoldInv, NEW b \in Bindings, RetriesExhausted(b) \/ Unbind(b)
  PROVE  HoldInv'
<1>1. UNCHANGED <<obj, allocated>> /\ faults' \subseteq faults
  BY DEF RetriesExhausted, Unbind, Fault, memory
<1>2. worker' = [worker EXCEPT ![b] = Idle]
  BY DEF RetriesExhausted, Unbind, Requeue, Stop, Becomes
<1> QED
  BY <1>1, <1>2, Calm DEF HoldInv

\* Removing the listener releases no port.
LEMMA RemoveListenerHold ==
  ASSUME TypeInv, HoldInv, NEW b \in Bindings, RemoveListener(b)
  PROVE  HoldInv'
<1> DEFINE w == [worker[b] EXCEPT !.at = "mark"]
<1>1. worker[b] \in Workers /\ worker[b].at = "remove" /\ worker[b].port = 0
  BY DEF TypeInv, TypeOK, Ready, RemoveListener, At
<1>2. UNCHANGED <<obj, allocated>> /\ faults' \subseteq faults
  BY DEF RemoveListener, Fault
<1>3. worker' = [worker EXCEPT ![b] = Idle] \/ worker' = [worker EXCEPT ![b] = w]
  BY DEF RemoveListener, Goto, Requeue, Becomes
<1>4. w.obj = worker[b].obj /\ w.port = 0 /\ w.at = "mark"
  BY <1>1 DEF Workers
<1> HIDE DEF w
<1> QED
  BY <1>1, <1>2, <1>3, <1>4, Calm DEF HoldInv

\* The port is released by the binding that has given it up, and is nobody else's.
LEMMA ReleaseHold ==
  ASSUME TypeInv, HoldInv, NEW b \in Bindings, Release(b)
  PROVE  HoldInv'
<1> DEFINE w == [worker[b] EXCEPT !.at = "dropFinalizer"]
           p == PortOf(b)
<1>1. /\ worker[b] \in Workers /\ worker[b].at = "release" /\ worker[b].port = 0 /\ worker[b].obj.finalized
      /\ allocated \subseteq Ports
  BY DEF TypeInv, TypeOK, Ready, Release, At
<1>2. UNCHANGED <<obj, faults>> /\ allocated' = allocated \ {p} /\ worker' = [worker EXCEPT ![b] = w]
  BY DEF Release, Goto, Becomes, fate
<1>3. w.obj = worker[b].obj /\ w.port = 0 /\ w.at = "dropFinalizer"
  BY <1>1 DEF Workers
<1> HIDE DEF w
<1>4. worker'[b] = w /\ \A d \in Bindings \ {b} : worker'[d] = worker[d]
  BY <1>2 DEF TypeInv, TypeOK
<1>5. \A d \in Bindings \ {b} : Current(d)' /\ Held(d)' = Held(d)
  BY <1>2, <1>4, Local
<1>6. obj[b].finalized /\ Current(b)' /\ Held(b)' = {}
  BY <1>1, <1>2, <1>3, <1>4 DEF HoldInv, Current, Held
<1>7. CASE p = 0
  <2>1. allocated' = allocated
    BY <1>1, <1>2, <1>7, Typing
  <2> QED
    BY <1>2, <1>5, <1>6, <2>1, Keep DEF HoldInv
<1>8. CASE p # 0
  <2>1. p \in Held(b)
    BY <1>1, <1>8 DEF Held, PortOf
  <2> QED
    BY <1>2, <1>5, <1>6, <2>1, GiveUp DEF HoldInv
<1> QED
  BY <1>7, <1>8

\* Whoever else changes an object leaves its port alone, and the finalizer where there is one.
LEMMA OutsideHold ==
  ASSUME TypeInv, HoldInv, NEW b \in Bindings, PodSync(b) \/ Collect(b) \/ BindingDeleted(b)
  PROVE  HoldInv'
<1>1. obj[b] \in Objects /\ pod[b] \in Pods /\ Current(b)
  BY DEF TypeInv, TypeOK, HoldInv
<1>2. UNCHANGED <<worker, allocated>> /\ faults' \subseteq faults
  BY DEF PodSync, Reads, Fault, Collect, BindingDeleted, memory, fate
<1>3. PICK o :
        /\ obj' = [obj EXCEPT ![b] = o]
        /\ \/ /\ o.port = obj[b].port /\ o.finalized = obj[b].finalized
              /\ o.finalizer = obj[b].finalizer /\ (Exists(obj[b]) => Exists(o))
           \/ /\ ~obj[b].finalizer /\ o.port = 0 /\ ~o.finalizer
  <2>1. ASSUME UNCHANGED obj
        PROVE  /\ obj' = [obj EXCEPT ![b] = obj[b]]
    BY <2>1 DEF TypeInv, TypeOK
  <2>2. CASE ~Exists(obj[b]) /\ obj' = [obj EXCEPT ![b] = NewObject(b)]
    <3>1. ~obj[b].finalizer
      BY <1>1, <2>2 DEF Current
    <3>2. NewObject(b).port = 0 /\ ~NewObject(b).finalizer
      BY DEF NewObject, Absent
    <3> QED
      BY <2>2, <3>1, <3>2
  <2>3. CASE obj' = [obj EXCEPT ![b] = [obj[b] EXCEPT !.disabled = pod[b].disabled]]
    <3> DEFINE o == [obj[b] EXCEPT !.disabled = pod[b].disabled]
    <3>1. /\ o.port = obj[b].port /\ o.finalized = obj[b].finalized
          /\ o.finalizer = obj[b].finalizer /\ o.state = obj[b].state
      BY <1>1 DEF Objects
    <3> QED
      BY <2>3, <3>1 DEF Exists
  <2>4. CASE obj' = [obj EXCEPT ![b] = Deleted(obj[b])]
    <3>1. CASE obj[b].finalizer
      <4> DEFINE o == [obj[b] EXCEPT !.deleted = TRUE]
      <4>1. /\ o.port = obj[b].port /\ o.finalized = obj[b].finalized
            /\ o.finalizer = obj[b].finalizer /\ o.state = obj[b].state
        BY <1>1 DEF Objects
      <4>2. Deleted(obj[b]) = o
        BY <3>1 DEF Deleted
      <4> QED
        BY <2>4, <4>1, <4>2 DEF Exists
    <3>2. CASE ~obj[b].finalizer
      <4>1. Deleted(obj[b]) = Absent /\ Absent.port = 0 /\ ~Absent.finalizer
        BY <3>2 DEF Deleted, Absent
      <4> QED
        BY <2>4, <3>2, <4>1
    <3> QED
      BY <3>1, <3>2
  <2>5. \/ UNCHANGED obj
        \/ ~Exists(obj[b]) /\ obj' = [obj EXCEPT ![b] = NewObject(b)]
        \/ obj' = [obj EXCEPT ![b] = [obj[b] EXCEPT !.disabled = pod[b].disabled]]
        \/ obj' = [obj EXCEPT ![b] = Deleted(obj[b])]
    BY <1>1, <2>1 DEF PodSync, Collect, BindingDeleted, TypeInv, TypeOK
  <2> QED
    BY <2>1, <2>2, <2>3, <2>4, <2>5
<1>4. obj'[b] = o /\ \A d \in Bindings \ {b} : obj'[d] = obj[d] /\ worker'[d] = worker[d]
  BY <1>2, <1>3 DEF TypeInv, TypeOK
<1>5. \A d \in Bindings \ {b} : Current(d)' /\ Held(d)' = Held(d)
  BY <1>4, Local
<1>6. Current(b)'
  BY <1>1, <1>2, <1>3, <1>4 DEF Current
<1>7. Held(b)' \subseteq Held(b)
  BY <1>2, <1>3, <1>4 DEF Held
<1> QED
  BY <1>2, <1>5, <1>6, <1>7, Keep DEF HoldInv

\* Nothing that is held changes.
LEMMA UntouchedHold ==
  ASSUME HoldInv, UNCHANGED <<obj, worker, allocated>>, faults' \subseteq faults
  PROVE  HoldInv'
<1>1. \A b \in Bindings : Current(b)' /\ Held(b)' = Held(b)
  BY DEF HoldInv, Current, Held
<1> QED
  BY <1>1, Keep DEF HoldInv

\* After a restart the ports of the objects are recorded, and no worker has any.
LEMMA RestartHold == TypeInv /\ HoldInv /\ Restart => HoldInv'
<1> SUFFICES ASSUME TypeInv, HoldInv, Restart PROVE HoldInv'
  OBVIOUS
<1>1. /\ \A b \in Bindings : worker'[b] = Idle /\ obj'[b] = obj[b]
      /\ allocated' = {obj[b].port : b \in Bindings} \ {0} /\ "stale" \notin faults'
  BY DEF Restart, Fault, HoldInv
<1>2. \A b \in Bindings : Held(b)' = {IF obj[b].finalized THEN 0 ELSE obj[b].port} \ {0}
  BY <1>1 DEF Held, Idle
<1>3. \A b \in Bindings : Held(b)' \subseteq Held(b) /\ Held(b)' \subseteq allocated'
  BY <1>1, <1>2 DEF Held
<1>4. \A b \in Bindings : Current(b)'
  BY <1>1 DEF HoldInv, Current, Idle
<1>5. \A b, d \in Bindings : b # d => Held(b)' \cap Held(d)' = {}
  BY <1>3 DEF HoldInv
<1> QED
  BY <1>1, <1>3, <1>4, <1>5 DEF HoldInv

\* Every step keeps the ports as they must be.
LEMMA StepHold == TypeInv /\ HoldInv /\ [Next]_vars => HoldInv'
<1> SUFFICES ASSUME TypeInv, HoldInv, [Next]_vars PROVE HoldInv'
  OBVIOUS
<1>1. ASSUME NEW b \in Bindings, Work(b)
      PROVE  HoldInv'
  BY <1>1, StartHold, WriteHold, WriteFailsHold, AllocateHold, BackendHold, EnsureHold,
     UnexpectedStaysHold, DropHold, RefetchedHold, IdleHold, RemoveListenerHold, ReleaseHold
     DEF Work, Sync, Cleanup
<1>2. ASSUME NEW b \in Bindings, PodSync(b) \/ Collect(b) \/ BindingDeleted(b)
      PROVE  HoldInv'
  BY <1>2, OutsideHold
<1>3. ASSUME NEW b \in Bindings,
             Inform(b) \/ PodGone(b) \/ PodGetsIP(b) \/ PodDeleted(b) \/ PodCreated(b) \/ Switched(b)
      PROVE  HoldInv'
  <2>1. UNCHANGED <<obj, worker, allocated, faults>>
    BY <1>3 DEF Inform, PodGone, PodGetsIP, PodDeleted, PodCreated, Switched, PodChanges, memory, fate
  <2> QED
    BY <2>1, UntouchedHold
<1>4. CASE PoolReports \/ UNCHANGED vars
  <2>1. UNCHANGED <<obj, worker, allocated, faults>>
    BY <1>4 DEF PoolReports, vars, memory, fate
  <2> QED
    BY <2>1, UntouchedHold
<1>5. CASE Restart
  BY <1>5, RestartHold
<1> QED
  BY <1>1, <1>2, <1>3, <1>4, <1>5 DEF Next, System, Cluster, User

\* Where reconciles begin with current copies, the invariant holds in every reachable state.
LEMMA Invariance == NoStale /\ Spec => [](TypeInv /\ HoldInv)
<1>1. NoStale /\ Init => TypeInv /\ HoldInv
  BY InitTyped, InitHold
<1>2. (TypeInv /\ HoldInv) /\ [Next]_vars => (TypeInv /\ HoldInv)'
  BY StepTyped, StepHold
<1> QED
  BY <1>1, <1>2, PTL DEF Spec

\* A port that a binding has is recorded in the allocator from before it is written into the
\* status until after the binding gave it up, through conflicts, failures and restarts.
THEOREM HeldIsAllocatedCorrect == NoStale /\ Spec => []HeldIsAllocated
<1>1. TypeInv /\ HoldInv => HeldIsAllocated
  <2> SUFFICES ASSUME TypeInv, HoldInv, NEW b \in Bindings, obj[b].port # 0, ~obj[b].finalized
               PROVE  obj[b].port \in allocated
    BY DEF HeldIsAllocated
  <2>1. obj[b].port \in Held(b)
    BY DEF Held
  <2> QED
    BY <2>1 DEF HoldInv
<1> QED
  BY <1>1, Invariance, PTL

\* However many bindings and ports there are, no port is in the status of two bindings in use.
THEOREM OneHolderCorrect == NoStale /\ Spec => []OneHolder
<1>1. TypeInv /\ HoldInv => OneHolder
  <2> SUFFICES ASSUME HoldInv, NEW b \in Bindings, NEW d \in Bindings,
                      obj[b].port = obj[d].port, obj[b].port # 0, ~obj[b].finalized, ~obj[d].finalized
               PROVE  b = d
    BY DEF OneHolder
  <2>1. obj[b].port \in Held(b) /\ obj[b].port \in Held(d)
    BY DEF Held
  <2> QED
    BY <2>1 DEF HoldInv
<1> QED
  BY <1>1, Invariance, PTL
=============================================================================
