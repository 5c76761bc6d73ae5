----------------------- MODULE BindingListenerProofs -----------------------
(***************************************************************************)
(* The listeners of the bindings, for every number of bindings and ports:  *)
(* none stays behind, a binding that is Bound has the one its status       *)
(* names, and nobody else deletes it; and no port is lost.  As for the     *)
(* ports in use, this holds where no reconcile begins with an old copy.    *)
(***************************************************************************)
EXTENDS BindingLifeProofs

\* The steps of a worker that has begun to clean up.
Cleaning == {"remove", "mark", "release", "dropFinalizer"}

\* What the parts of an object say of each other.
Settled(o) ==
  /\ ~o.finalizer => o.port = 0 /\ o.listener = 0 /\ o.state \in {"absent", ""} /\ ~o.deleted
  /\ o.finalized => o.state = "Deleting"
  /\ o.state = "Deleting" => o.deleted
  /\ o.listener # 0 => o.port # 0 /\ o.listener # Alien
  /\ o.state = "Bound" => o.listener # 0

\* Among the listeners l, the listener of an object exists, or it was deleted in the cleanup.
Stands(o, l) ==
  o.listener # 0 /\ ~o.finalized =>
    l[o.port] = o.listener \/ (o.state = "Deleting" /\ l[o.port] = 0)

\* A worker w goes by the object o as it is, but for what others may change.
GoesBy(o, w) ==
  /\ w.obj.state = o.state /\ w.obj.listener = o.listener /\ w.obj.finalizer
  /\ w.obj.deleted => o.deleted
  /\ w.obj.state = "Deleting" <=> w.at \in Cleaning
  /\ w.obj.finalized <=> w.at \in {"release", "dropFinalizer"}

\* The listener that a worker found or created is the one at its port.
Found(w, l) == w.obj.port # 0 /\ w.listener \notin {0, Alien} /\ w.listener = l[w.obj.port]

\* A worker that goes on without its port knows of no listener there, and there is none of the
\* controller's.
Dropping(w, l) == w.obj.port # 0 /\ w.obj.listener = 0 /\ l[w.obj.port] \in {0, Alien}

\* What a worker knows fits its object and the listeners l.
Fits(o, w, l) ==
  /\ w.at = "addFinalizer" => ~w.obj.finalizer
  /\ w.at \notin {"idle", "addFinalizer"} => GoesBy(o, w)
  /\ w.at = "deleting" => w.obj.deleted
  /\ w.at \in {"bind", "save", "bound"} => Found(w, l)
  /\ w.at = "bound" => w.listener = w.obj.listener
  /\ w.at = "drop" => Dropping(w, l)
  /\ w.at = "mark" /\ w.obj.port # 0 => l[w.obj.port] = 0

\* A listener of the controller is at the port of a binding that is not finalized, and the cache
\* knows of no other.
Accounted(p) ==
  /\ cache[p] \in {0, listener[p]} \ {Alien}
  /\ listener[p] \notin {0, Alien} => \E b \in Bindings : obj[b].port = p /\ ~obj[b].finalized

ListenerInv ==
  /\ \A b \in Bindings :
       Settled(obj[b]) /\ Stands(obj[b], listener) /\ Fits(obj[b], worker[b], listener)
  /\ \A p \in Ports : Accounted(p)

-----------------------------------------------------------------------------
\* The numbers that stand for no listener and for one in the way are no ids of the controller's.
LEMMA IdsApart == 0 \notin Ids /\ Alien \notin Ids /\ Alien # 0
BY BindingLifeAssumption DEF Ids, Alien

\* What a binding that is not finalized has at its port is not disturbed by a change at another's.
LEMMA Elsewhere ==
  ASSUME TypeInv, HoldInv, ListenerInv, NEW b \in Bindings, NEW p \in Ports \cup {0},
         p # 0 => obj[b].port = p /\ ~obj[b].finalized,
         \A d \in Bindings \ {b} : obj'[d] = obj[d] /\ worker'[d] = worker[d],
         \A q \in Ports \ {p} : listener'[q] = listener[q]
  PROVE  \A d \in Bindings \ {b} :
           Settled(obj'[d]) /\ Stands(obj'[d], listener') /\ Fits(obj'[d], worker'[d], listener')
<1> SUFFICES ASSUME NEW d \in Bindings \ {b}
             PROVE  Settled(obj[d]) /\ Stands(obj[d], listener') /\ Fits(obj[d], worker[d], listener')
  OBVIOUS
<1>1. Settled(obj[d]) /\ Stands(obj[d], listener) /\ Fits(obj[d], worker[d], listener) /\ Current(d)
  BY DEF ListenerInv, HoldInv
<1>2. obj[d] \in Objects /\ worker[d].obj \in Objects
  BY DEF TypeInv, TypeOK, Workers
<1>3. ASSUME obj[d].port # 0, ~obj[d].finalized
      PROVE  listener'[obj[d].port] = listener[obj[d].port]
  <2>1. obj[d].port \in Held(d)
    BY <1>3 DEF Held
  <2>2. obj[d].port # p
    <3>1. ASSUME p # 0
          PROVE  p \in Held(b)
      BY <3>1 DEF Held
    <3> QED
      BY <1>3, <2>1, <3>1 DEF HoldInv
  <2> QED
    BY <1>2, <1>3, <2>2 DEF Objects
<1>4. Stands(obj[d], listener')
  <2>1. obj[d].listener # 0 => obj[d].port # 0
    BY <1>1 DEF Settled
  <2> QED
    BY <1>1, <1>3, <2>1 DEF Stands
<1>5. Fits(obj[d], worker[d], listener')
  <2>1. worker[d].at \in {"bind", "save", "drop", "bound", "mark"} =>
          worker[d].obj.port = obj[d].port /\ ~obj[d].finalized
    BY <1>1 DEF Current, Fits, GoesBy
  <2>2. worker[d].at \in {"bind", "save", "bound"} => Found(worker[d], listener')
    BY <1>1, <1>3, <2>1 DEF Fits, Found
  <2>3. worker[d].at = "mark" /\ worker[d].obj.port # 0 => listener'[worker[d].obj.port] = 0
    BY <1>1, <1>3, <2>1 DEF Fits
  <2>4. worker[d].at = "drop" => Dropping(worker[d], listener')
    BY <1>1, <1>3, <2>1 DEF Fits, Dropping
  <2> QED
    BY <1>1, <2>2, <2>3, <2>4 DEF Fits
<1> QED
  BY <1>1, <1>4, <1>5

\* A step of one binding keeps the invariant if it keeps what the invariant says of that binding.
LEMMA OneStep ==
  ASSUME TypeInv, HoldInv, ListenerInv, NEW b \in Bindings, NEW p \in Ports \cup {0},
         p # 0 => obj[b].port = p /\ ~obj[b].finalized,
         \A d \in Bindings \ {b} : obj'[d] = obj[d] /\ worker'[d] = worker[d],
         \A q \in Ports \ {p} : listener'[q] = listener[q] /\ cache'[q] \in {0, cache[q]},
         p # 0 => cache'[p] \in {0, listener'[p]} \ {Alien},
         Settled(obj'[b]), Stands(obj'[b], listener'), Fits(obj'[b], worker'[b], listener'),
         ~obj[b].finalized /\ obj[b].port # 0 /\ listener'[obj[b].port] \notin {0, Alien} =>
           obj'[b].port = obj[b].port /\ ~obj'[b].finalized
  PROVE  ListenerInv'
<1>1. \A d \in Bindings :
        Settled(obj'[d]) /\ Stands(obj'[d], listener') /\ Fits(obj'[d], worker'[d], listener')
  BY Elsewhere
<1>2. ASSUME NEW q \in Ports
      PROVE  Accounted(q)'
  <2>1. q # 0
    BY Typing
  <2>2. Accounted(q)
    BY DEF ListenerInv
  <2>3. cache'[q] \in {0, listener'[q]} \ {Alien}
    <3>1. CASE q = p
      BY <2>1, <3>1
    <3>2. CASE q # p
      BY <2>2, <3>2, IdsApart DEF Accounted
    <3> QED
      BY <3>1, <3>2
  <2>4. ASSUME listener'[q] \notin {0, Alien}
        PROVE  \E d \in Bindings : obj'[d].port = q /\ ~obj'[d].finalized
    <3>1. PICK d \in Bindings : obj[d].port = q /\ ~obj[d].finalized
      <4>1. CASE q = p
        BY <2>1, <4>1
      <4>2. CASE q # p
        BY <2>2, <2>4, <4>2 DEF Accounted
      <4> QED
        BY <4>1, <4>2
    <3>2. CASE d = b
      BY <2>1, <2>4, <3>1, <3>2
    <3>3. CASE d # b
      BY <3>1, <3>3
    <3> QED
      BY <3>2, <3>3
  <2> QED
    BY <2>3, <2>4 DEF Accounted
<1> QED
  BY <1>1, <1>2 DEF ListenerInv

\* A step of a worker that touches neither objects nor listeners.
LEMMA OnlyWorker ==
  ASSUME TypeInv, HoldInv, ListenerInv, NEW b \in Bindings, UNCHANGED <<obj, listener, cache>>,
         NEW v, worker' = [worker EXCEPT ![b] = v], Fits(obj[b], v, listener)
  PROVE  ListenerInv'
<1>1. worker'[b] = v /\ \A d \in Bindings \ {b} : worker'[d] = worker[d]
  BY DEF TypeInv, TypeOK
<1>2. Settled(obj[b]) /\ Stands(obj[b], listener)
  BY DEF ListenerInv
<1> QED
  BY <1>1, <1>2, OneStep, Typing

\* A reconcile that ends fits.
LEMMA IdleFits ==
  ASSUME NEW o, NEW l
  PROVE  Fits(o, Idle, l)
BY DEF Fits, Idle

\* In the beginning there are no listeners but those that are in the way.
LEMMA InitListener == Init => ListenerInv
<1> SUFFICES ASSUME Init PROVE ListenerInv
  OBVIOUS
<1>1. \A b \in Bindings : obj[b] = Absent /\ worker[b] = Idle
  BY DEF Init
<1>2. \A p \in Ports : cache[p] = 0 /\ listener[p] \in {0, Alien}
  BY DEF Init
<1>3. Settled(Absent) /\ Stands(Absent, listener) /\ Fits(Absent, Idle, listener)
  BY IdleFits DEF Settled, Stands, Absent
<1>4. \A p \in Ports : Accounted(p)
  BY <1>2, IdsApart DEF Accounted
<1> QED
  BY <1>1, <1>3, <1>4 DEF ListenerInv

-----------------------------------------------------------------------------
(* The steps of a worker.                                                  *)

\* What the steps below use of a worker that is at work.
LEMMA AtWork ==
  ASSUME TypeInv, HoldInv, ListenerInv, NEW b \in Bindings
  PROVE  /\ obj[b] \in Objects /\ worker[b] \in Workers /\ worker[b].obj \in Objects
         /\ Settled(obj[b]) /\ Stands(obj[b], listener) /\ Fits(obj[b], worker[b], listener)
         /\ Ready(worker[b]) /\ Current(b)
BY DEF TypeInv, TypeOK, Workers, HoldInv, ListenerInv

\* A reconcile begins where the object says.
LEMMA FirstStepSettled ==
  ASSUME NEW o \in Objects, Settled(o), o.finalizer => Exists(o), FirstStep(o) # "idle"
  PROVE  Fits(o, [Idle EXCEPT !.at = FirstStep(o), !.obj = o], listener)
<1> DEFINE step == FirstStep(o)
           v == [Idle EXCEPT !.at = step, !.obj = o]
<1>1. v.at = step /\ v.obj = o
  BY DEF Idle
<1> HIDE DEF v
<1>2. /\ o.finalizer \in BOOLEAN /\ o.deleted \in BOOLEAN /\ o.finalized \in BOOLEAN
      /\ o.disabled \in BOOLEAN
  BY DEF Objects
<1>3. CASE o.deleted /\ o.finalizer /\ o.finalized
  <2>1. step = "dropFinalizer"
    BY <1>2, <1>3 DEF FirstStep, Settled, Exists
  <2> QED
    BY <1>1, <1>3, <2>1 DEF Fits, GoesBy, Cleaning, Settled
<1>4. CASE o.deleted /\ o.finalizer /\ ~o.finalized
  <2>1. step = IF o.state = "Deleting" THEN "remove" ELSE "deleting"
    BY <1>2, <1>4 DEF FirstStep
  <2> QED
    BY <1>1, <1>4, <2>1 DEF Fits, GoesBy, Cleaning
<1>5. CASE ~o.deleted /\ ~o.finalizer
  <2>1. step = "addFinalizer"
    BY <1>2, <1>5 DEF FirstStep
  <2> QED
    BY <1>1, <1>5, <2>1 DEF Fits
<1>6. CASE ~o.deleted /\ o.finalizer
  <2>1. step = SyncStep(o)
    BY <1>2, <1>6 DEF FirstStep
  <2>2. step \in {"unbind", "disable", "pending", "allocate", "backend"}
    BY <1>2, <2>1, SyncStepFits
  <2> QED
    BY <1>1, <1>6, <2>2 DEF Fits, GoesBy, Cleaning, Settled
<1>7. CASE o.deleted /\ ~o.finalizer
  BY <1>7 DEF Settled
<1> QED
  BY <1>2, <1>3, <1>4, <1>5, <1>6, <1>7 DEF v

\* A reconcile begins.
LEMMA StartListener ==
  ASSUME TypeInv, HoldInv, ListenerInv, NEW b \in Bindings, Start(b)
  PROVE  ListenerInv'
<1>1. copy[b] = obj[b] /\ UNCHANGED <<obj, listener, cache>>
  BY DEF HoldInv, Start, Reads, Fault, memory, cloud
<1>2. CASE FirstStep(obj[b]) = "idle"
  <2>1. worker' = [worker EXCEPT ![b] = Idle]
    BY <1>1, <1>2 DEF Start, Becomes
  <2> QED
    BY <1>1, <2>1, IdleFits, OnlyWorker
<1>3. CASE FirstStep(obj[b]) # "idle"
  <2> DEFINE v == [Idle EXCEPT !.at = FirstStep(obj[b]), !.obj = obj[b]]
  <2>1. worker' = [worker EXCEPT ![b] = v]
    BY <1>1, <1>3 DEF Start, Becomes
  <2>2. Fits(obj[b], v, listener)
    BY <1>3, AtWork, FirstStepSettled DEF Current
  <2> HIDE DEF v
  <2> QED
    BY <1>1, <2>1, <2>2, OnlyWorker
<1> QED
  BY <1>2, <1>3

\* What a write leaves as it was, and what it changes.
LEMMA WrittenSettled ==
  ASSUME NEW w \in Workers, w.at \in WriteSteps \ {"dropFinalizer"}
  PROVE  /\ Written(w).listener = w.obj.listener /\ Written(w).deleted = w.obj.deleted
         /\ Written(w).state = CASE w.at \in {"addFinalizer", "mark"} -> w.obj.state
                                 [] w.at = "pending" -> "Pending"
                                 [] w.at = "record" -> "Allocated"
                                 [] w.at = "full" -> "NoPortAvailable"
                                 [] w.at = "noBackend" -> "NoBackend"
                                 [] w.at = "wait" -> "WaitBackend"
                                 [] w.at = "fail" -> "Failed"
                                 [] w.at = "disable" -> "Disabled"
                                 [] w.at = "deleting" -> "Deleting"
<1>1. w.obj \in Objects
  BY DEF Workers
<1>2. CASE w.at = "addFinalizer"
  BY <1>1, <1>2 DEF Written, Objects
<1>3. CASE w.at \in {"pending", "full", "noBackend"}
  BY <1>1, <1>3 DEF Written, Objects
<1>4. CASE w.at \in {"wait", "fail", "disable", "deleting"}
  BY <1>1, <1>4 DEF Written, Objects
<1>5. CASE w.at \in {"record", "mark"}
  BY <1>1, <1>5 DEF Written, Objects
<1> QED
  BY <1>2, <1>3, <1>4, <1>5 DEF WriteSteps

\* A write changes the object and what the worker goes by together.
LEMMA WriteListener ==
  ASSUME TypeInv, HoldInv, ListenerInv, NEW b \in Bindings, Write(b)
  PROVE  ListenerInv'
<1> DEFINE w == worker[b]
           o == Written(w)
<1>1. /\ obj[b] = w.obj /\ w.at \in WriteSteps /\ w \in Workers /\ w.obj \in Objects
      /\ Settled(w.obj) /\ Stands(w.obj, listener) /\ Fits(w.obj, w, listener) /\ Ready(w)
  BY AtWork DEF Write
<1>2. obj' = [obj EXCEPT ![b] = o] /\ UNCHANGED <<listener, cache>>
  BY DEF Write, memory, cloud
<1>3. PICK v : /\ worker' = [worker EXCEPT ![b] = v]
               /\ \/ v = Idle
                  \/ /\ v.obj = o /\ v.at = StepAfter(w)
                     /\ v.at \notin {"idle", "record"} /\ w.at \notin {"dropFinalizer", "fail"}
  <2>1. CASE At(b, "fail")
    BY <2>1 DEF Write, Requeue, Becomes
  <2>2. CASE ~At(b, "fail") /\ StepAfter(w) = "idle"
    BY <2>2 DEF Write, Stop, Becomes
  <2>3. CASE ~At(b, "fail") /\ StepAfter(w) # "idle"
    <3> DEFINE v == [w EXCEPT !.at = StepAfter(w), !.obj = o, !.port = 0]
    <3>1. obj'[b] = o
      BY <1>2 DEF TypeInv, TypeOK
    <3>2. Becomes(b, v)
      BY <2>3, <3>1 DEF Write
    <3>3. v.obj = o /\ v.at # "record" /\ w.at \notin {"dropFinalizer", "fail"}
      BY <1>1, <2>3, StepAfterFits
    <3>4. v.at = StepAfter(w)
      BY <1>1 DEF Workers
    <3> HIDE DEF v
    <3> QED
      BY <2>3, <3>2, <3>3, <3>4 DEF Becomes
  <2> QED
    BY <2>1, <2>2, <2>3
<1>4. /\ obj'[b] = o /\ worker'[b] = v
      /\ \A d \in Bindings \ {b} : obj'[d] = obj[d] /\ worker'[d] = worker[d]
  BY <1>2, <1>3 DEF TypeInv, TypeOK
<1> HIDE DEF o
<1>5. CASE w.at = "dropFinalizer"
  <2>1. o = Absent /\ v = Idle /\ w.obj.finalized
    BY <1>1, <1>3, <1>5, WrittenFits DEF o, Fits, GoesBy
  <2>2. Settled(o) /\ Stands(o, listener) /\ Fits(o, v, listener)
    BY <2>1, IdleFits DEF Settled, Stands, Absent
  <2> QED
    BY <1>1, <1>2, <1>4, <2>1, <2>2, OneStep, Typing
<1>6. CASE w.at # "dropFinalizer"
  <2>1. /\ o.port = IF w.at = "record" THEN w.port ELSE w.obj.port
        /\ o.finalizer = (w.at = "addFinalizer" \/ w.obj.finalizer)
        /\ o.finalized = (w.at = "mark" \/ w.obj.finalized)
    BY <1>1, <1>6, WrittenFits DEF o
  <2>2. o.listener = w.obj.listener /\ o.deleted = w.obj.deleted
    BY <1>1, <1>6, WrittenSettled DEF o
  <2>3. /\ w.at \in {"addFinalizer", "mark"} => o.state = w.obj.state
        /\ w.at = "deleting" => o.state = "Deleting"
        /\ w.at \notin {"addFinalizer", "mark", "deleting"} =>
             o.state \in {"Pending", "Allocated", "NoPortAvailable", "NoBackend", "WaitBackend",
                          "Failed", "Disabled"}
    BY <1>1, <1>6, WrittenSettled DEF o, WriteSteps
  <2>4. /\ w.at # "addFinalizer" => w.obj.finalizer
        /\ w.at = "record" => w.obj.port = 0
        /\ w.at = "mark" => w.obj.state = "Deleting"
        /\ w.at \notin {"addFinalizer", "mark"} => ~w.obj.finalized /\ w.obj.state # "Deleting"
        /\ w.at = "deleting" => w.obj.deleted
        /\ w.at = "addFinalizer" => ~w.obj.finalizer
    BY <1>1, <1>6 DEF Fits, GoesBy, Ready, Cleaning, WriteSteps
  <2>5. Settled(o)
    BY <1>1, <2>1, <2>2, <2>3, <2>4 DEF Settled
  <2>6. Stands(o, listener)
    BY <1>1, <2>1, <2>2, <2>3, <2>4 DEF Settled, Stands
  <2>7. Fits(o, v, listener)
    <3>1. CASE v = Idle
      BY <3>1, IdleFits
    <3>2. CASE v.obj = o /\ v.at = StepAfter(w) /\ v.at \notin {"idle", "record"}
               /\ w.at # "fail"
      <4>1. CASE w.at \in {"addFinalizer", "pending"}
        <5>1. v.at = SyncStep(o)
          BY <3>2, <4>1 DEF StepAfter, o
        <5>2. o \in Objects
          BY <1>1, WrittenFits DEF o
        <5>3. v.at \in {"unbind", "disable", "pending", "allocate", "backend"}
          BY <5>1, <5>2, SyncStepFits DEF Objects
        <5>4. o.state # "Deleting" /\ ~o.finalized /\ o.finalizer
          BY <1>1, <2>1, <2>3, <2>4, <4>1 DEF Settled
        <5> QED
          BY <3>2, <5>3, <5>4 DEF Fits, GoesBy, Cleaning
      <4>2. CASE w.at \in {"record", "wait", "disable"}
        <5>1. v.at \in {"backend", "listener", "unbind"}
          BY <3>2, <4>2 DEF StepAfter
        <5> QED
          BY <2>1, <2>3, <2>4, <3>2, <4>2, <5>1 DEF Fits, GoesBy, Cleaning
      <4>3. CASE w.at = "deleting"
        <5>1. v.at = "remove"
          BY <3>2, <4>3 DEF StepAfter
        <5> QED
          BY <2>1, <2>3, <2>4, <3>2, <4>3, <5>1 DEF Fits, GoesBy, Cleaning
      <4>4. CASE w.at = "mark"
        <5>1. v.at = "release"
          BY <3>2, <4>4 DEF StepAfter
        <5> QED
          BY <2>1, <2>3, <2>4, <3>2, <4>4, <5>1 DEF Fits, GoesBy, Cleaning
      <4>5. CASE w.at \in {"full", "noBackend"}
        BY <3>2, <4>5 DEF StepAfter
      <4> QED
        BY <1>1, <1>6, <3>2, <4>1, <4>2, <4>3, <4>4, <4>5 DEF WriteSteps
    <3> QED
      BY <1>3, <3>1, <3>2
  <2>8. ~w.obj.finalized /\ w.obj.port # 0 /\ listener[w.obj.port] \notin {0, Alien} =>
          o.port = w.obj.port /\ ~o.finalized
    BY <1>1, <2>1, <2>4 DEF Fits
  <2> QED
    BY <1>1, <1>2, <1>4, <2>5, <2>6, <2>7, <2>8, OneStep, Typing
<1> QED
  BY <1>5, <1>6

\* A write that fails ends the reconcile.
LEMMA WriteFailsListener ==
  ASSUME TypeInv, HoldInv, ListenerInv, NEW b \in Bindings, WriteFails(b)
  PROVE  ListenerInv'
<1>1. UNCHANGED <<obj, listener, cache>> /\ worker' = [worker EXCEPT ![b] = Idle]
  BY DEF WriteFails, GiveBack, Stop, Requeue, Becomes, cloud
<1> QED
  BY <1>1, IdleFits, OnlyWorker

\* Within sync a worker goes on with the object it has, and knows of no listener.
LEMMA Inside ==
  ASSUME NEW o, NEW w, NEW l, NEW v, Fits(o, w, l), v.obj = w.obj,
         w.at \notin Cleaning \cup {"idle", "addFinalizer", "deleting"},
         v.at \in {"full", "record", "noBackend", "wait", "listener", "fail", "annotate"}
  PROVE  Fits(o, v, l)
BY DEF Fits, GoesBy, Cleaning

\* Neither the allocation nor the look for a backend changes what is known of listeners.
LEMMA AllocateListener ==
  ASSUME TypeInv, HoldInv, ListenerInv, NEW b \in Bindings, Allocate(b) \/ Backend(b)
  PROVE  ListenerInv'
<1>1. worker[b].at \in {"allocate", "backend"} /\ worker[b] \in Workers /\ Fits(obj[b], worker[b], listener)
  BY AtWork DEF Allocate, Backend, At
<1>2. UNCHANGED <<obj, listener, cache>>
  BY DEF Allocate, Backend, memory, cloud
<1>3. PICK v : /\ worker' = [worker EXCEPT ![b] = v]
               /\ \/ v = Idle
                  \/ /\ v.obj = worker[b].obj
                     /\ v.at \in {"full", "record", "noBackend", "wait", "listener"}
  <2>1. CASE Stop(b)
    BY <2>1 DEF Stop, Becomes
  <2>2. ASSUME NEW step \in {"full", "noBackend"}, Goto(b, step)
        PROVE  \E v : /\ worker' = [worker EXCEPT ![b] = v] /\ v.obj = worker[b].obj /\ v.at = step
    <3> DEFINE v == [worker[b] EXCEPT !.at = step]
    <3>1. v.obj = worker[b].obj /\ v.at = step
      BY <1>1 DEF Workers
    <3>2. worker' = [worker EXCEPT ![b] = v]
      BY <2>2 DEF Goto, Becomes
    <3> QED
      BY <3>1, <3>2
  <2>3. ASSUME Becomes(b, [worker[b] EXCEPT !.at = "record", !.port = FirstFree])
        PROVE  \E v : /\ worker' = [worker EXCEPT ![b] = v] /\ v.obj = worker[b].obj /\ v.at = "record"
    <3> DEFINE v == [worker[b] EXCEPT !.at = "record", !.port = FirstFree]
    <3>1. v.obj = worker[b].obj /\ v.at = "record"
      BY <1>1 DEF Workers
    <3>2. worker' = [worker EXCEPT ![b] = v]
      BY <2>3 DEF Becomes
    <3> QED
      BY <3>1, <3>2
  <2>4. ASSUME NEW step \in {"wait", "listener"},
               Becomes(b, [worker[b] EXCEPT !.ip = pod[b].ip, !.at = step])
        PROVE  \E v : /\ worker' = [worker EXCEPT ![b] = v] /\ v.obj = worker[b].obj /\ v.at = step
    <3> DEFINE v == [worker[b] EXCEPT !.ip = pod[b].ip, !.at = step]
    <3>1. v.obj = worker[b].obj /\ v.at = step
      BY <1>1 DEF Workers
    <3>2. worker' = [worker EXCEPT ![b] = v]
      BY <2>4 DEF Becomes
    <3> QED
      BY <3>1, <3>2
  <2> QED
    BY <2>1, <2>2, <2>3, <2>4 DEF Allocate, Backend
<1>4. Fits(obj[b], v, listener)
  BY <1>1, <1>3, IdleFits, Inside DEF Cleaning
<1> QED
  BY <1>2, <1>3, <1>4, OnlyWorker

\* A worker that reports an error, or becomes Bound, still goes by the object it has.
LEMMA ConcludeFits ==
  ASSUME NEW b \in Bindings, NEW w \in Workers, NEW o, NEW l, Conclude(b, w), GoesBy(o, w),
         w.at \in {"listener", "bind", "save"},
         w.listener # w.obj.listener \/ ~w.failed => Found(w, l)
  PROVE  \E v : worker' = [worker EXCEPT ![b] = v] /\ Fits(o, v, l)
<1>1. w.failed \in BOOLEAN
  BY DEF Workers
<1>2. ASSUME worker' = [worker EXCEPT ![b] = Idle]
      PROVE  \E v : worker' = [worker EXCEPT ![b] = v] /\ Fits(o, v, l)
  BY <1>2, IdleFits
<1>3. ASSUME NEW at \in {"save", "fail", "annotate", "bound"}, Becomes(b, [w EXCEPT !.at = at]),
             at \in {"save", "bound"} => Found(w, l), at = "bound" => w.listener = w.obj.listener
      PROVE  \E v : worker' = [worker EXCEPT ![b] = v] /\ Fits(o, v, l)
  <2> DEFINE v == [w EXCEPT !.at = at]
  <2>1. v.obj = w.obj /\ v.listener = w.listener /\ v.at = at
    BY DEF Workers
  <2>2. worker' = [worker EXCEPT ![b] = v]
    BY <1>3 DEF Becomes
  <2> HIDE DEF v
  <2>3. Fits(o, v, l)
    BY <1>3, <2>1 DEF Fits, GoesBy, Found, Cleaning
  <2> QED
    BY <2>2, <2>3
<1>4. CASE w.listener # w.obj.listener
  BY <1>3, <1>4 DEF Conclude
<1>5. CASE w.listener = w.obj.listener /\ w.failed
  <2>1. Failing(b, w)
    BY <1>5 DEF Conclude
  <2> QED
    BY <1>2, <1>3, <2>1 DEF Failing, Requeue, Becomes
<1>6. CASE w.listener = w.obj.listener /\ ~w.failed /\ w.ip = 0
  BY <1>2, <1>6 DEF Conclude, Stop, Becomes
<1>7. CASE w.listener = w.obj.listener /\ ~w.failed /\ w.ip # 0
  <2>1. Becomes(b, [w EXCEPT !.at = IF w.obj.state = "Bound" THEN "annotate" ELSE "bound"])
    BY <1>7 DEF Conclude
  <2> QED
    BY <1>3, <1>7, <2>1
<1> QED
  BY <1>1, <1>4, <1>5, <1>6, <1>7

\* A worker that has a listener of its port goes on to bind it.
LEMMA HasListenerFits ==
  ASSUME TypeInv, NEW b \in Bindings, NEW i \in AnyId, NEW o, NEW l, HasListener(b, i),
         worker[b].at = "listener", GoesBy(o, worker[b]),
         PortOf(b) # 0 /\ i \notin {0, Alien} /\ i = l[PortOf(b)]
  PROVE  \E v : worker' = [worker EXCEPT ![b] = v] /\ Fits(o, v, l)
<1> DEFINE w == [worker[b] EXCEPT !.listener = i]
<1>1. worker[b] \in Workers
  BY DEF TypeInv, TypeOK
<1>2. w \in Workers /\ w.obj = worker[b].obj /\ w.listener = i /\ w.at = "listener"
  BY <1>1 DEF Workers
<1>3. (w.ip # 0 /\ Becomes(b, [w EXCEPT !.at = "bind"])) \/ Conclude(b, w)
  BY DEF HasListener
<1> HIDE DEF w
<1>4. Found(w, l) /\ GoesBy(o, w)
  BY <1>2 DEF Found, PortOf, GoesBy
<1>5. CASE Becomes(b, [w EXCEPT !.at = "bind"])
  <2> DEFINE v == [w EXCEPT !.at = "bind"]
  <2>1. v.obj = w.obj /\ v.listener = w.listener /\ v.at = "bind"
    BY <1>2 DEF Workers
  <2>2. worker' = [worker EXCEPT ![b] = v]
    BY <1>5 DEF Becomes
  <2> HIDE DEF v
  <2>3. Fits(o, v, l)
    BY <1>2, <1>4, <2>1 DEF Fits, GoesBy, Found, Cleaning
  <2> QED
    BY <2>2, <2>3
<1>6. CASE Conclude(b, w)
  BY <1>2, <1>4, <1>6, ConcludeFits
<1> QED
  BY <1>3, <1>5, <1>6

\* A worker that has none reports that, and what it knew before is its listener if it has one.
LEMMA NoListenerFits ==
  ASSUME TypeInv, NEW b \in Bindings, NEW o, NEW l, NoListener(b),
         worker[b].at = "listener", GoesBy(o, worker[b]), PortOf(b) # 0, Known(b) # Alien,
         Known(b) = worker[b].obj.listener \/ (Known(b) = l[PortOf(b)] /\ Known(b) # 0)
  PROVE  \E v : worker' = [worker EXCEPT ![b] = v] /\ Fits(o, v, l)
<1> DEFINE w == [worker[b] EXCEPT !.listener = Known(b), !.failed = TRUE]
<1>1. worker[b] \in Workers /\ worker[b].obj \in Objects
  BY DEF TypeInv, TypeOK, Workers
<1>2. Known(b) \in AnyId
  BY <1>1 DEF Known, PortOf, Objects, TypeInv, TypeOK
<1>3. w \in Workers /\ w.obj = worker[b].obj /\ w.listener = Known(b) /\ w.at = "listener" /\ w.failed
  BY <1>1, <1>2 DEF Workers
<1>4. Conclude(b, w)
  BY DEF NoListener
<1> HIDE DEF w
<1>5. GoesBy(o, w) /\ (w.listener # w.obj.listener => Found(w, l))
  BY <1>3 DEF Found, PortOf, GoesBy
<1> QED
  BY <1>3, <1>4, <1>5, ConcludeFits

\* A listener is looked for, found, created or deleted at the port of the binding, and never the
\* one its status names.
LEMMA EnsureListenerParts ==
  ASSUME TypeInv, HoldInv, ListenerInv, NEW b \in Bindings,
         EnsureListener(b) \/ EnsureListenerFails(b) \/ UnexpectedStays(b)
  PROVE  /\ PortOf(b) \in Ports /\ obj[b].port = PortOf(b) /\ ~obj[b].finalized /\ UNCHANGED obj
         /\ \A q \in Ports \ {PortOf(b)} : listener'[q] = listener[q] /\ cache'[q] = cache[q]
         /\ cache'[PortOf(b)] \in {0, listener'[PortOf(b)]} \ {Alien}
         /\ obj[b].listener # 0 => listener'[PortOf(b)] = obj[b].listener
         /\ \E v : worker' = [worker EXCEPT ![b] = v] /\ Fits(obj[b], v, listener')
<1> DEFINE p == PortOf(b)
<1>1. /\ worker[b].at = "listener" /\ worker[b] \in Workers /\ worker[b].obj \in Objects
      /\ Settled(obj[b]) /\ Stands(obj[b], listener) /\ Fits(obj[b], worker[b], listener)
      /\ Ready(worker[b]) /\ Current(b) /\ obj[b] \in Objects
  BY AtWork DEF EnsureListener, EnsureListenerFails, UnexpectedStays, At
<1>2. p \in Ports /\ p # 0 /\ obj[b].port = p /\ ~obj[b].finalized /\ GoesBy(obj[b], worker[b])
  BY <1>1 DEF Ready, Current, PortOf, Objects, Fits, GoesBy
<1>3. /\ obj[b].listener # 0 => listener[p] = obj[b].listener
      /\ obj[b].listener # Alien /\ worker[b].obj.listener = obj[b].listener
  BY <1>1, <1>2, IdsApart DEF Settled, Stands, GoesBy, Cleaning
<1>4. /\ Known(b) \in {worker[b].obj.listener, cache[p]} /\ Known(b) # Alien
      /\ cache[p] \in {0, listener[p]} \ {Alien}
      /\ worker[b].obj.listener # 0 => Known(b) = worker[b].obj.listener
  BY <1>2, <1>3 DEF Known, ListenerInv, Accounted
<1>5. /\ listener \in [Ports -> AnyId] /\ cache \in [Ports -> AnyId] /\ listener[p] \in AnyId
      /\ Known(b) \in AnyId
  BY <1>1, <1>2, <1>4 DEF TypeInv, TypeOK, Objects
<1>6. FreshIds # {} => NewId \in AnyId \ {0, Alien}
  BY NewIdIsFresh, IdsApart, Typing DEF FreshIds
<1>7. UNCHANGED obj
  BY DEF EnsureListener, EnsureListenerFails, UnexpectedStays
<1>8. CASE EnsureListener(b)
  <2>1. CASE Known(b) # 0 /\ listener[p] = Known(b) /\ HasListener(b, Known(b))
             /\ UNCHANGED <<cache, cloud>>
    <3>1. \E v : worker' = [worker EXCEPT ![b] = v] /\ Fits(obj[b], v, listener)
      BY <1>1, <1>2, <1>4, <1>5, <2>1, HasListenerFits
    <3> QED
      BY <1>2, <1>3, <1>4, <1>7, <2>1, <3>1 DEF cloud
  <2>2. CASE /\ listener[p] \notin {0, Alien, Known(b)} /\ HasListener(b, listener[p])
             /\ cache' = [cache EXCEPT ![p] = listener[p]] /\ UNCHANGED cloud
    <3>1. \E v : worker' = [worker EXCEPT ![b] = v] /\ Fits(obj[b], v, listener)
      BY <1>1, <1>2, <1>5, <2>2, HasListenerFits
    <3>2. cache'[p] = listener[p] /\ \A q \in Ports \ {p} : cache'[q] = cache[q]
      BY <1>2, <1>5, <2>2
    <3> QED
      BY <1>2, <1>3, <1>7, <2>2, <3>1, <3>2 DEF cloud
  <2>3. CASE /\ listener[p] = Alien /\ listener' = [listener EXCEPT ![p] = 0]
             /\ cache' = [cache EXCEPT ![p] = 0] /\ NoListener(b)
    <3>1. obj[b].listener = 0 /\ Known(b) = 0
      BY <1>3, <1>4, <2>3
    <3>2. \E v : worker' = [worker EXCEPT ![b] = v] /\ Fits(obj[b], v, listener')
      <4>1. Known(b) = worker[b].obj.listener
        BY <1>3, <3>1
      <4> QED
        BY <1>1, <1>2, <1>4, <2>3, <4>1, NoListenerFits
    <3>3. /\ cache'[p] = 0 /\ \A q \in Ports \ {p} : cache'[q] = cache[q]
          /\ listener'[p] = 0 /\ \A q \in Ports \ {p} : listener'[q] = listener[q]
      BY <1>2, <1>5, <2>3
    <3> QED
      BY <1>2, <1>7, <3>1, <3>2, <3>3, IdsApart
  <2>4. CASE /\ listener[p] = 0 /\ FreshIds # {} /\ listener' = [listener EXCEPT ![p] = NewId]
             /\ cache' = [cache EXCEPT ![p] = NewId] /\ HasListener(b, NewId)
    <3>1. obj[b].listener = 0
      BY <1>3, <2>4
    <3>2. /\ cache'[p] = NewId /\ \A q \in Ports \ {p} : cache'[q] = cache[q]
          /\ listener'[p] = NewId /\ \A q \in Ports \ {p} : listener'[q] = listener[q]
      BY <1>2, <1>5, <2>4
    <3>3. \E v : worker' = [worker EXCEPT ![b] = v] /\ Fits(obj[b], v, listener')
      BY <1>1, <1>2, <1>6, <2>4, <3>2, HasListenerFits
    <3> QED
      BY <1>2, <1>6, <1>7, <2>4, <3>1, <3>2, <3>3
  <2> QED
    BY <1>8, <2>1, <2>2, <2>3, <2>4 DEF EnsureListener
<1>9. CASE EnsureListenerFails(b)
  <2>1. UNCHANGED cache /\ NoListener(b)
    BY <1>9 DEF EnsureListenerFails, memory
  <2>2. CASE UNCHANGED listener
    <3>1. \E v : worker' = [worker EXCEPT ![b] = v] /\ Fits(obj[b], v, listener)
      <4>1. Known(b) = worker[b].obj.listener \/ (Known(b) = listener[p] /\ Known(b) # 0)
        BY <1>4
      <4> HIDE DEF p
      <4> QED
        BY <1>1, <1>2, <1>4, <2>1, <4>1, NoListenerFits DEF p
    <3> QED
      BY <1>2, <1>3, <1>4, <1>7, <2>1, <2>2, <3>1
  <2>3. CASE listener[p] = 0 /\ FreshIds # {} /\ listener' = [listener EXCEPT ![p] = NewId]
    <3>1. obj[b].listener = 0 /\ Known(b) = 0 /\ cache[p] = 0
      BY <1>3, <1>4, <2>3
    <3>2. \E v : worker' = [worker EXCEPT ![b] = v] /\ Fits(obj[b], v, listener')
      <4>1. Known(b) = worker[b].obj.listener
        BY <1>3, <3>1
      <4> QED
        BY <1>1, <1>2, <1>4, <2>1, <4>1, NoListenerFits
    <3>3. \A q \in Ports \ {p} : listener'[q] = listener[q]
      BY <1>2, <1>5, <2>3
    <3> QED
      BY <1>2, <1>7, <2>1, <3>1, <3>2, <3>3, IdsApart
  <2> QED
    BY <1>9, <2>2, <2>3 DEF EnsureListenerFails
<1>10. CASE UnexpectedStays(b)
  <2> DEFINE v == [worker[b] EXCEPT !.at = "drop"]
  <2>1. listener[p] = Alien /\ UNCHANGED cache /\ worker' = [worker EXCEPT ![b] = v]
    BY <1>10 DEF UnexpectedStays, memory, Goto, Becomes
  <2>2. v.obj = worker[b].obj /\ v.at = "drop"
    BY <1>1 DEF Workers
  <2> HIDE DEF v
  <2>3. obj[b].listener = 0 /\ worker[b].obj.listener = 0 /\ cache[p] = 0
    BY <1>3, <1>4, <2>1
  <2>4. listener'[p] \in {0, Alien} /\ \A q \in Ports \ {p} : listener'[q] = listener[q]
    BY <1>2, <1>5, <1>10, <2>1 DEF UnexpectedStays
  <2>5. Fits(obj[b], v, listener')
    BY <1>1, <1>2, <2>2, <2>3, <2>4 DEF Fits, GoesBy, Dropping, PortOf, Cleaning
  <2> QED
    BY <1>2, <1>7, <2>1, <2>3, <2>4, <2>5, IdsApart
<1> QED
  BY <1>8, <1>9, <1>10

\* Looking for a listener keeps the invariant.
LEMMA EnsureListenerListener ==
  ASSUME TypeInv, HoldInv, ListenerInv, NEW b \in Bindings,
         EnsureListener(b) \/ EnsureListenerFails(b) \/ UnexpectedStays(b)
  PROVE  ListenerInv'
<1> DEFINE p == PortOf(b)
<1>1. /\ p \in Ports /\ obj[b].port = p /\ ~obj[b].finalized /\ UNCHANGED obj
      /\ \A q \in Ports \ {p} : listener'[q] = listener[q] /\ cache'[q] = cache[q]
      /\ cache'[p] \in {0, listener'[p]} \ {Alien}
      /\ obj[b].listener # 0 => listener'[p] = obj[b].listener
  BY EnsureListenerParts
<1>2. PICK v : worker' = [worker EXCEPT ![b] = v] /\ Fits(obj[b], v, listener')
  BY EnsureListenerParts
<1>3. worker'[b] = v /\ \A d \in Bindings \ {b} : worker'[d] = worker[d]
  BY <1>2 DEF TypeInv, TypeOK
<1>4. Settled(obj[b]) /\ Stands(obj[b], listener')
  BY <1>1, AtWork DEF Stands
<1> HIDE DEF p
<1> QED
  BY <1>1, <1>2, <1>3, <1>4, OneStep

\* The backends of a listener are not the listener.
LEMMA EnsurePortBoundListener ==
  ASSUME TypeInv, HoldInv, ListenerInv, NEW b \in Bindings,
         EnsurePortBound(b) \/ EnsurePortBoundFails(b)
  PROVE  ListenerInv'
<1>1. /\ worker[b].at = "bind" /\ worker[b] \in Workers
      /\ Fits(obj[b], worker[b], listener)
  BY AtWork DEF EnsurePortBound, EnsurePortBoundFails, At
<1>2. UNCHANGED <<obj, listener, cache>>
  BY DEF EnsurePortBound, EnsurePortBoundFails, memory
<1>3. PICK f \in BOOLEAN : Conclude(b, worker[b]) \/ Conclude(b, [worker[b] EXCEPT !.failed = f])
  BY DEF EnsurePortBound, EnsurePortBoundFails
<1>4. ASSUME NEW w \in Workers, Conclude(b, w), w.obj = worker[b].obj, w.at = "bind",
             w.listener = worker[b].listener
      PROVE  ListenerInv'
  <2>1. GoesBy(obj[b], w) /\ Found(w, listener)
    BY <1>1, <1>4 DEF Fits, GoesBy, Found
  <2>2. PICK v : worker' = [worker EXCEPT ![b] = v] /\ Fits(obj[b], v, listener)
    BY <1>4, <2>1, ConcludeFits
  <2> QED
    BY <1>2, <2>2, OnlyWorker
<1>5. CASE Conclude(b, worker[b])
  BY <1>1, <1>4, <1>5
<1>6. CASE Conclude(b, [worker[b] EXCEPT !.failed = f])
  <2> DEFINE w == [worker[b] EXCEPT !.failed = f]
  <2>1. w \in Workers /\ w.obj = worker[b].obj /\ w.at = "bind" /\ w.listener = worker[b].listener
    BY <1>1 DEF Workers
  <2> QED
    BY <1>4, <1>6, <2>1
<1> QED
  BY <1>3, <1>5, <1>6

\* The listener that was found is written into the status.
LEMMA SaveListener ==
  ASSUME TypeInv, HoldInv, ListenerInv, NEW b \in Bindings, Save(b)
  PROVE  ListenerInv'
<1> DEFINE o == Saved(b)
           x == [o EXCEPT !.state = worker[b].obj.state]
           w == [worker[b] EXCEPT !.obj = x, !.fetched = TRUE]
<1>1. /\ worker[b].at = "save" /\ worker[b] \in Workers /\ worker[b].obj \in Objects
      /\ Settled(obj[b]) /\ Fits(obj[b], worker[b], listener) /\ obj[b] \in Objects /\ Current(b)
      /\ copy[b] = obj[b]
  BY AtWork DEF Save, At, Refetched
<1>2. obj' = [obj EXCEPT ![b] = o] /\ UNCHANGED <<listener, cache>> /\ Conclude(b, w)
  BY DEF Save, Saved, memory, cloud
<1>3. /\ GoesBy(obj[b], worker[b]) /\ Found(worker[b], listener) /\ worker[b].obj.port = obj[b].port
      /\ ~obj[b].finalized /\ obj[b].finalizer /\ obj[b].state # "Deleting"
      /\ worker[b].obj.finalized = obj[b].finalized
  BY <1>1 DEF Fits, GoesBy, Current, Cleaning
<1>4. /\ o.port = obj[b].port /\ o.listener = worker[b].listener /\ o.state = obj[b].state
      /\ o.finalizer = obj[b].finalizer /\ o.finalized = obj[b].finalized
      /\ o.deleted = obj[b].deleted /\ o \in Objects
  BY <1>1, <1>3 DEF Saved, PortOf, Objects, Workers
<1> HIDE DEF o
<1>5. /\ x.port = o.port /\ x.listener = o.listener /\ x.state = o.state /\ x.finalizer = o.finalizer
      /\ x.finalized = o.finalized /\ x.deleted = o.deleted /\ x \in Objects
  BY <1>1, <1>3, <1>4 DEF GoesBy, Objects
<1> HIDE DEF x
<1>6. w \in Workers /\ w.obj = x /\ w.listener = worker[b].listener /\ w.at = "save"
  BY <1>1, <1>5 DEF Workers
<1> HIDE DEF w
<1>7. GoesBy(o, w) /\ Found(w, listener)
  BY <1>3, <1>4, <1>5, <1>6 DEF GoesBy, Found, Cleaning
<1>8. PICK v : worker' = [worker EXCEPT ![b] = v] /\ Fits(o, v, listener)
  BY <1>2, <1>6, <1>7, ConcludeFits
<1>9. Settled(o) /\ Stands(o, listener)
  BY <1>1, <1>3, <1>4 DEF Settled, Stands, Found
<1>10. /\ obj'[b] = o /\ worker'[b] = v
       /\ \A d \in Bindings \ {b} : obj'[d] = obj[d] /\ worker'[d] = worker[d]
  BY <1>2, <1>8 DEF TypeInv, TypeOK
<1> QED
  BY <1>2, <1>3, <1>4, <1>8, <1>9, <1>10, OneStep, Typing

\* A port is dropped from a status that names no listener, and has none of the controller's.
LEMMA DropListener ==
  ASSUME TypeInv, HoldInv, ListenerInv, NEW b \in Bindings, Drop(b)
  PROVE  ListenerInv'
<1> DEFINE o == Dropped(b)
<1>1. /\ worker[b].at = "drop" /\ Settled(obj[b]) /\ Fits(obj[b], worker[b], listener)
      /\ obj[b] \in Objects /\ Current(b) /\ copy[b] = obj[b]
  BY AtWork DEF Drop, At, Refetched
<1>2. UNCHANGED <<listener, cache>>
  BY DEF Drop, memory, cloud
<1>3. /\ obj[b].listener = 0 /\ listener[obj[b].port] \in {0, Alien} /\ obj[b].finalizer
      /\ ~obj[b].finalized
  BY <1>1 DEF Fits, Dropping, GoesBy, Current, Cleaning
<1>4. /\ o.port = 0 /\ o.listener = 0 /\ o.state = obj[b].state /\ o.deleted = obj[b].deleted
      /\ o.finalizer = obj[b].finalizer /\ o.finalized = obj[b].finalized
  BY <1>1 DEF Dropped, Objects
<1> HIDE DEF o
<1>5. Settled(o) /\ Stands(o, listener)
  BY <1>1, <1>3, <1>4 DEF Settled, Stands
<1>6. /\ obj'[b] = o /\ worker'[b] = Idle
      /\ \A d \in Bindings \ {b} : obj'[d] = obj[d] /\ worker'[d] = worker[d]
  BY DropTyped DEF TypeInv, TypeOK, o
<1> QED
  BY <1>2, <1>3, <1>5, <1>6, IdleFits, OneStep, Typing

\* A binding becomes Bound when its status names the listener at its port.
LEMMA BecomeBoundListener ==
  ASSUME TypeInv, HoldInv, ListenerInv, NEW b \in Bindings, BecomeBound(b)
  PROVE  ListenerInv'
<1> DEFINE o == [copy[b] EXCEPT !.state = "Bound"]
           v == [worker[b] EXCEPT !.obj = o, !.fetched = TRUE, !.at = "annotate"]
<1>1. /\ worker[b].at = "bound" /\ worker[b] \in Workers
      /\ Settled(obj[b]) /\ Fits(obj[b], worker[b], listener) /\ obj[b] \in Objects /\ Current(b)
      /\ copy[b] = obj[b]
  BY AtWork DEF BecomeBound, At, Refetched
<1>2. obj' = [obj EXCEPT ![b] = o] /\ worker' = [worker EXCEPT ![b] = v] /\ UNCHANGED <<listener, cache>>
  BY DEF BecomeBound, Becomes, memory, cloud
<1>3. /\ obj[b].listener = worker[b].listener /\ Found(worker[b], listener)
      /\ worker[b].obj.port = obj[b].port /\ ~obj[b].finalized /\ obj[b].finalizer
  BY <1>1 DEF Fits, GoesBy, Current, Cleaning
<1>4. /\ o.port = obj[b].port /\ o.listener = obj[b].listener /\ o.state = "Bound"
      /\ o.finalizer = obj[b].finalizer /\ o.finalized = obj[b].finalized /\ o.deleted = obj[b].deleted
  BY <1>1 DEF Objects
<1> HIDE DEF o
<1>5. v.at = "annotate" /\ v.obj = o
  BY <1>1 DEF Workers
<1> HIDE DEF v
<1>6. Settled(o) /\ Stands(o, listener)
  BY <1>1, <1>3, <1>4 DEF Settled, Stands, Found
<1>7. Fits(o, v, listener)
  BY <1>3, <1>4, <1>5 DEF Fits, GoesBy, Cleaning
<1>8. /\ obj'[b] = o /\ worker'[b] = v
      /\ \A d \in Bindings \ {b} : obj'[d] = obj[d] /\ worker'[d] = worker[d]
  BY <1>2 DEF TypeInv, TypeOK
<1> QED
  BY <1>2, <1>3, <1>4, <1>6, <1>7, <1>8, OneStep, Typing

\* The steps that end sync without a write.
LEMMA EndListener ==
  ASSUME TypeInv, HoldInv, ListenerInv, NEW b \in Bindings,
         RetriesExhausted(b) \/ Annotate(b) \/ Unbind(b)
  PROVE  ListenerInv'
<1>1. UNCHANGED <<obj, listener, cache>>
  BY DEF RetriesExhausted, Annotate, Unbind, memory, cloud
<1>2. CASE worker' = [worker EXCEPT ![b] = Idle]
  BY <1>1, <1>2, IdleFits, OnlyWorker
<1>3. CASE Annotate(b) /\ Becomes(b, [worker[b] EXCEPT !.at = "fail"])
  <2> DEFINE v == [worker[b] EXCEPT !.at = "fail"]
  <2>1. worker[b].at = "annotate" /\ worker[b] \in Workers /\ Fits(obj[b], worker[b], listener)
    BY <1>3, AtWork DEF Annotate, At
  <2>2. v.at = "fail" /\ v.obj = worker[b].obj
    BY <2>1 DEF Workers
  <2>3. worker' = [worker EXCEPT ![b] = v]
    BY <1>3 DEF Becomes
  <2> HIDE DEF v
  <2>4. Fits(obj[b], v, listener)
    BY <2>1, <2>2, Inside DEF Cleaning
  <2> QED
    BY <1>1, <2>3, <2>4, OnlyWorker
<1> QED
  BY <1>2, <1>3 DEF RetriesExhausted, Annotate, Unbind, Failing, Requeue, Stop, Becomes

\* The listener of a binding is deleted before the binding is finalized.
LEMMA RemoveListenerListener ==
  ASSUME TypeInv, HoldInv, ListenerInv, NEW b \in Bindings, RemoveListener(b)
  PROVE  ListenerInv'
<1> DEFINE p == PortOf(b)
           v == [worker[b] EXCEPT !.at = "mark"]
<1>1. /\ worker[b].at = "remove" /\ worker[b] \in Workers /\ worker[b].obj \in Objects
      /\ Settled(obj[b]) /\ Stands(obj[b], listener) /\ Fits(obj[b], worker[b], listener)
      /\ Current(b) /\ UNCHANGED obj
  BY AtWork DEF RemoveListener, At
<1>2. /\ p \in Ports \cup {0} /\ obj[b].port = p /\ ~obj[b].finalized /\ obj[b].state = "Deleting"
      /\ worker[b].obj.listener = obj[b].listener /\ GoesBy(obj[b], worker[b])
  BY <1>1 DEF PortOf, Objects, Current, Fits, GoesBy, Cleaning
<1>3. v.at = "mark" /\ v.obj = worker[b].obj
  BY <1>1 DEF Workers
<1> HIDE DEF v
<1>4. \A q \in Ports : cache'[q] = IF q = p THEN 0 ELSE cache[q]
  BY DEF RemoveListener
<1>5. (p # 0 /\ DeleteAt(p)) \/ (UNCHANGED listener /\ (KeepsListener(b) \/ worker' = [worker EXCEPT ![b] = Idle]))
  BY DEF RemoveListener, Deletable, cloud, Requeue, Becomes
<1>6. /\ \A q \in Ports \ {p} : listener'[q] = listener[q]
      /\ p # 0 => listener'[p] \in {0, listener[p]}
  BY <1>5, <1>2 DEF DeleteAt, TypeInv, TypeOK
<1>7. worker' = [worker EXCEPT ![b] = Idle] \/ worker' = [worker EXCEPT ![b] = v]
  BY DEF RemoveListener, Goto, Requeue, Becomes, v
<1>8. worker'[b] \in {Idle, v} /\ \A d \in Bindings \ {b} : worker'[d] = worker[d]
  BY <1>7 DEF TypeInv, TypeOK
<1>9. Settled(obj[b]) /\ Stands(obj[b], listener')
  BY <1>1, <1>2, <1>6 DEF Settled, Stands
<1>10. Fits(obj[b], worker'[b], listener')
  <2>1. CASE worker'[b] = Idle
    BY <2>1, IdleFits
  <2>2. CASE worker'[b] = v /\ v # Idle
    <3>1. p # 0 => listener'[p] = 0
      <4>1. CASE DeleteAt(p) /\ p # 0
        BY <1>2, <4>1 DEF DeleteAt, TypeInv, TypeOK
      <4>2. CASE UNCHANGED listener /\ KeepsListener(b)
        BY <1>1, <1>2, <4>2 DEF KeepsListener, NoId, Stands
      <4>3. worker' # [worker EXCEPT ![b] = Idle]
        BY <2>2 DEF TypeInv, TypeOK
      <4> QED
        BY <1>5, <4>1, <4>2, <4>3
    <3> QED
      BY <1>1, <1>2, <1>3, <2>2, <3>1 DEF Fits, GoesBy, PortOf, Cleaning
  <2> QED
    BY <1>8, <2>1, <2>2
<1> HIDE DEF p
<1> QED
  BY <1>1, <1>2, <1>4, <1>6, <1>8, <1>9, <1>10, OneStep, IdsApart

\* The port is released after the listener is gone.
LEMMA ReleaseListener ==
  ASSUME TypeInv, HoldInv, ListenerInv, NEW b \in Bindings, Release(b)
  PROVE  ListenerInv'
<1> DEFINE v == [worker[b] EXCEPT !.at = "dropFinalizer"]
<1>1. /\ worker[b].at = "release" /\ worker[b] \in Workers /\ Fits(obj[b], worker[b], listener)
      /\ UNCHANGED <<obj, listener, cache>>
  BY AtWork DEF Release, At, cloud
<1>2. worker' = [worker EXCEPT ![b] = v]
  BY DEF Release, Goto, Becomes
<1>3. v.at = "dropFinalizer" /\ v.obj = worker[b].obj
  BY <1>1 DEF Workers
<1> HIDE DEF v
<1>4. Fits(obj[b], v, listener)
  BY <1>1, <1>3 DEF Fits, GoesBy, Cleaning
<1> QED
  BY <1>1, <1>2, <1>4, OnlyWorker

-----------------------------------------------------------------------------
(* The steps of the others.                                                *)

\* Whoever else changes an object leaves alone what the cleanup and the listener depend on.
LEMMA OutsideListener ==
  ASSUME TypeInv, HoldInv, ListenerInv, NEW b \in Bindings,
         PodSync(b) \/ Collect(b) \/ BindingDeleted(b)
  PROVE  ListenerInv'
<1>1. /\ obj[b] \in Objects /\ pod[b] \in Pods /\ Current(b) /\ Settled(obj[b])
      /\ Stands(obj[b], listener) /\ Fits(obj[b], worker[b], listener)
  BY AtWork DEF TypeInv, TypeOK
<1>2. UNCHANGED <<worker, listener, cache>>
  BY DEF PodSync, Collect, BindingDeleted, memory, cloud
<1>3. PICK o :
        /\ obj' = [obj EXCEPT ![b] = o]
        /\ \/ /\ o.port = obj[b].port /\ o.listener = obj[b].listener /\ o.state = obj[b].state
              /\ o.finalized = obj[b].finalized /\ o.finalizer = obj[b].finalizer
              /\ (obj[b].deleted => o.deleted) /\ (o.deleted => obj[b].deleted \/ o.finalizer)
           \/ /\ ~obj[b].finalizer /\ o.port = 0 /\ o.listener = 0 /\ o.state \in {"absent", ""}
              /\ ~o.finalizer /\ ~o.finalized /\ ~o.deleted
  <2>1. ASSUME UNCHANGED obj
        PROVE  obj' = [obj EXCEPT ![b] = obj[b]]
    BY <2>1 DEF TypeInv, TypeOK
  <2>2. CASE ~Exists(obj[b]) /\ obj' = [obj EXCEPT ![b] = NewObject(b)]
    <3>1. ~obj[b].finalizer
      BY <1>1, <2>2 DEF Current
    <3>2. /\ NewObject(b).port = 0 /\ NewObject(b).listener = 0 /\ NewObject(b).state = ""
          /\ ~NewObject(b).finalizer /\ ~NewObject(b).finalized /\ ~NewObject(b).deleted
      BY DEF NewObject, Absent
    <3> QED
      BY <2>2, <3>1, <3>2
  <2>3. CASE obj' = [obj EXCEPT ![b] = [obj[b] EXCEPT !.disabled = pod[b].disabled]]
    <3> DEFINE o == [obj[b] EXCEPT !.disabled = pod[b].disabled]
    <3>1. /\ o.port = obj[b].port /\ o.listener = obj[b].listener /\ o.state = obj[b].state
          /\ o.finalized = obj[b].finalized /\ o.finalizer = obj[b].finalizer
          /\ o.deleted = obj[b].deleted
      BY <1>1 DEF Objects
    <3> HIDE DEF o
    <3> QED
      BY <2>3, <3>1 DEF o
  <2>4. CASE obj' = [obj EXCEPT ![b] = Deleted(obj[b])]
    <3>1. CASE obj[b].finalizer
      <4> DEFINE o == [obj[b] EXCEPT !.deleted = TRUE]
      <4>1. /\ o.port = obj[b].port /\ o.listener = obj[b].listener /\ o.state = obj[b].state
            /\ o.finalized = obj[b].finalized /\ o.finalizer = obj[b].finalizer /\ o.deleted
        BY <1>1 DEF Objects
      <4>2. Deleted(obj[b]) = o
        BY <3>1 DEF Deleted
      <4> HIDE DEF o
      <4> QED
        BY <2>4, <3>1, <4>1, <4>2
    <3>2. CASE ~obj[b].finalizer
      <4>1. /\ Deleted(obj[b]) = Absent /\ Absent.port = 0 /\ Absent.listener = 0
            /\ Absent.state = "absent" /\ ~Absent.finalizer /\ ~Absent.finalized /\ ~Absent.deleted
        BY <3>2 DEF Deleted, Absent
      <4> QED
        BY <2>4, <3>2, <4>1
    <3> QED
      BY <3>1, <3>2
  <2>5. \/ UNCHANGED obj
        \/ ~Exists(obj[b]) /\ obj' = [obj EXCEPT ![b] = NewObject(b)]
        \/ obj' = [obj EXCEPT ![b] = [obj[b] EXCEPT !.disabled = pod[b].disabled]]
        \/ obj' = [obj EXCEPT ![b] = Deleted(obj[b])]
    BY <1>1, <2>1 DEF PodSync, Collect, BindingDeleted, TypeInv, TypeOK
  <2> QED
    BY <2>1, <2>2, <2>3, <2>4, <2>5
<1>4. /\ obj'[b] = o /\ worker'[b] = worker[b]
      /\ \A d \in Bindings \ {b} : obj'[d] = obj[d] /\ worker'[d] = worker[d]
  BY <1>2, <1>3 DEF TypeInv, TypeOK
<1>5. Settled(o) /\ Stands(o, listener)
  BY <1>1, <1>3 DEF Settled, Stands
<1>6. Fits(o, worker[b], listener)
  <2>1. worker[b].at \in {"idle", "addFinalizer"} \/ obj[b].finalizer
    BY <1>1 DEF Current
  <2> QED
    BY <1>1, <1>3, <2>1 DEF Fits, GoesBy
<1>7. ~obj[b].finalized /\ obj[b].port # 0 => o.port = obj[b].port /\ ~o.finalized
  BY <1>1, <1>3 DEF Settled
<1> QED
  BY <1>2, <1>4, <1>5, <1>6, <1>7, OneStep, Typing

\* Nothing that the invariant speaks of changes.
LEMMA UntouchedListener ==
  ASSUME ListenerInv, UNCHANGED <<obj, worker, listener, cache>>
  PROVE  ListenerInv'
BY DEF ListenerInv, Accounted

\* A restart loses what the workers know and the cache, and no listener.
LEMMA RestartListener == ListenerInv /\ Restart => ListenerInv'
<1> SUFFICES ASSUME ListenerInv, Restart PROVE ListenerInv'
  OBVIOUS
<1>1. /\ UNCHANGED <<obj, listener>> /\ \A b \in Bindings : worker'[b] = Idle
      /\ \A p \in Ports : cache'[p] = 0
  BY DEF Restart, cloud
<1>2. \A b \in Bindings : Settled(obj'[b]) /\ Stands(obj'[b], listener') /\ Fits(obj'[b], worker'[b], listener')
  BY <1>1, IdleFits DEF ListenerInv
<1>3. \A p \in Ports : Accounted(p)'
  BY <1>1, IdsApart DEF ListenerInv, Accounted
<1> QED
  BY <1>2, <1>3 DEF ListenerInv

\* Every step keeps the listeners as they must be.
LEMMA StepListener == TypeInv /\ HoldInv /\ ListenerInv /\ [Next]_vars => ListenerInv'
<1> SUFFICES ASSUME TypeInv, HoldInv, ListenerInv, [Next]_vars PROVE ListenerInv'
  OBVIOUS
<1>1. ASSUME NEW b \in Bindings, Work(b)
      PROVE  ListenerInv'
  BY <1>1, StartListener, WriteListener, WriteFailsListener, AllocateListener,
     EnsureListenerListener, EnsurePortBoundListener, SaveListener, DropListener,
     BecomeBoundListener, EndListener, RemoveListenerListener, ReleaseListener DEF Work, Sync, Cleanup
<1>2. ASSUME NEW b \in Bindings, PodSync(b) \/ Collect(b) \/ BindingDeleted(b)
      PROVE  ListenerInv'
  BY <1>2, OutsideListener
<1>3. ASSUME NEW b \in Bindings,
             Inform(b) \/ PodGone(b) \/ PodGetsIP(b) \/ PodDeleted(b) \/ PodCreated(b) \/ Switched(b)
      PROVE  ListenerInv'
  <2>1. UNCHANGED <<obj, worker, listener, cache>>
    BY <1>3 DEF Inform, PodGone, PodGetsIP, PodDeleted, PodCreated, Switched, PodChanges, memory, cloud
  <2> QED
    BY <2>1, UntouchedListener
<1>4. CASE PoolReports \/ UNCHANGED vars
  <2>1. UNCHANGED <<obj, worker, listener, cache>>
    BY <1>4 DEF PoolReports, vars, memory, cloud
  <2> QED
    BY <2>1, UntouchedListener
<1>5. CASE Restart
  BY <1>5, RestartListener
<1> QED
  BY <1>1, <1>2, <1>3, <1>4, <1>5 DEF Next, System, Cluster, User

\* Where reconciles begin with current copies, the invariant holds in every reachable state.
LEMMA ListenerInvariance == NoStale /\ Spec => [](TypeInv /\ HoldInv /\ ListenerInv)
<1>1. Init => ListenerInv
  BY InitListener
<1>2. TypeInv /\ HoldInv /\ ListenerInv /\ [Next]_vars => ListenerInv'
  BY StepListener
<1>3. NoStale /\ Spec => [](TypeInv /\ HoldInv)
  BY Invariance
<1> QED
  BY <1>1, <1>2, <1>3, PTL DEF Spec

\* When a port is given back its listener is gone: whatever fails between the creation of a
\* listener and the removal of the finalizer, nothing of it stays behind.
THEOREM NothingLeftBehindCorrect == NoStale /\ Spec => []NothingLeftBehind
<1>1. TypeInv /\ HoldInv /\ ListenerInv => NothingLeftBehind
  <2> SUFFICES ASSUME HoldInv, ListenerInv, NEW p \in Ports \ allocated, listener[p] \notin {0, Alien}
               PROVE  FALSE
    BY DEF NothingLeftBehind
  <2>1. PICK b \in Bindings : obj[b].port = p /\ ~obj[b].finalized
    BY DEF ListenerInv, Accounted
  <2>2. p \in Held(b)
    BY <2>1, Typing DEF Held
  <2> QED
    BY <2>1, <2>2 DEF HoldInv
<1> QED
  BY <1>1, ListenerInvariance, PTL

\* As long as a binding is Bound, the listener that its status names is at its port.
THEOREM BoundIsServedCorrect == NoStale /\ Spec => []BoundIsServed
<1>1. TypeInv /\ HoldInv /\ ListenerInv => BoundIsServed
  <2> SUFFICES ASSUME ListenerInv, NEW b \in Bindings, obj[b].state = "Bound"
               PROVE  listener[obj[b].port] = obj[b].listener
    BY DEF BoundIsServed
  <2>1. Settled(obj[b]) /\ Stands(obj[b], listener)
    BY DEF ListenerInv
  <2> QED
    BY <2>1 DEF Settled, Stands
<1> QED
  BY <1>1, ListenerInvariance, PTL

\* The listeners that a step changes are those of the binding whose worker takes it.
LEMMA ListenerChanges ==
  ASSUME TypeInv, HoldInv, ListenerInv, NEW b \in Bindings,
         EnsureListener(b) \/ EnsureListenerFails(b) \/ UnexpectedStays(b) \/ RemoveListener(b),
         NEW d \in Bindings, obj[d].listener # 0, ~obj[d].deleted
  PROVE  listener'[obj[d].port] = listener[obj[d].port] \/ listener'[obj[d].port] = obj[d].listener
<1> DEFINE p == PortOf(b)
<1>1. obj[d] \in Objects /\ Settled(obj[d])
  BY AtWork
<1>2. obj[d].port \in Ports /\ ~obj[d].finalized
  BY <1>1 DEF Settled, Objects
<1>3. obj[b].port = p /\ ~obj[b].finalized
  <2>1. /\ worker[b].at \in {"listener", "remove"} /\ Current(b)
        /\ Fits(obj[b], worker[b], listener)
    BY AtWork DEF EnsureListener, EnsureListenerFails, UnexpectedStays, RemoveListener, At
  <2> QED
    BY <2>1 DEF PortOf, Current, Fits, GoesBy
<1>4. CASE d # b
  <2>1. obj[d].port # p
    <3>1. obj[d].port \in Held(d) /\ (p # 0 => p \in Held(b))
      BY <1>2, <1>3, Typing DEF Held
    <3>2. obj[d].port # 0 /\ Held(b) \cap Held(d) = {}
      BY <1>2, <1>4, Typing DEF HoldInv
    <3> QED
      BY <3>1, <3>2
  <2>2. CASE EnsureListener(b) \/ EnsureListenerFails(b) \/ UnexpectedStays(b)
    BY <1>2, <2>1, <2>2, EnsureListenerParts
  <2>3. CASE RemoveListener(b)
    <3>1. UNCHANGED listener \/ listener' = [listener EXCEPT ![p] = 0]
      BY <2>3 DEF RemoveListener, DeleteAt, cloud
    <3> QED
      BY <1>2, <2>1, <3>1 DEF TypeInv, TypeOK
  <2> QED
    BY <2>2, <2>3
<1>5. CASE d = b
  <2>1. ~RemoveListener(b)
    <3>1. ASSUME RemoveListener(b)
          PROVE  FALSE
      <4>1. worker[b].at = "remove" /\ Fits(obj[b], worker[b], listener)
        BY <3>1, AtWork DEF RemoveListener, At
      <4>2. obj[b].state = "Deleting"
        BY <4>1 DEF Fits, GoesBy, Cleaning
      <4> QED
        BY <1>1, <1>5, <4>2 DEF Settled
    <3> QED
      BY <3>1
  <2> QED
    BY <1>3, <1>5, <2>1, EnsureListenerParts
<1> QED
  BY <1>4, <1>5

\* While a binding is not being deleted nobody deletes the listener its status names: neither the
\* cleanup of another binding, nor a worker that finds a listener in its way, nor a restart.
THEOREM DeletedByOwnerCorrect == NoStale /\ Spec => DeletedByOwner
<1> DEFINE Kept == \A b \in Bindings :
             obj[b].listener # 0 /\ listener[obj[b].port] = obj[b].listener /\ ~obj[b].deleted
               => listener'[obj[b].port] = obj[b].listener
<1>1. TypeInv /\ HoldInv /\ ListenerInv /\ [Next]_vars => [Kept]_vars
  <2> SUFFICES ASSUME TypeInv, HoldInv, ListenerInv, Next PROVE Kept
    OBVIOUS
  <2>1. ASSUME UNCHANGED listener
        PROVE  Kept
    BY <2>1
  <2>2. ASSUME NEW b \in Bindings,
               EnsureListener(b) \/ EnsureListenerFails(b) \/ UnexpectedStays(b) \/ RemoveListener(b)
        PROVE  Kept
    BY <2>2, ListenerChanges
  <2>3. ASSUME NEW b \in Bindings, Work(b)
        PROVE  Kept
    <3>1. \/ UNCHANGED listener
          \/ EnsureListener(b) \/ EnsureListenerFails(b) \/ UnexpectedStays(b) \/ RemoveListener(b)
      BY <2>3 DEF Work, Sync, Cleanup, Start, Write, WriteFails, Allocate, Backend, EnsurePortBound,
         EnsurePortBoundFails, Save, Drop, BecomeBound, RetriesExhausted, Annotate, Unbind, Release,
         cloud
    <3> HIDE DEF Kept
    <3> QED
      BY <2>1, <2>2, <3>1
  <2>4. ASSUME NEW b \in Bindings, PodSync(b) \/ Cluster(b) \/ User(b)
        PROVE  UNCHANGED listener
    BY <2>4 DEF PodSync, Cluster, User, Inform, Collect, PodGone, PodGetsIP, BindingDeleted,
       PodDeleted, PodCreated, Switched, PodChanges, cloud
  <2>5. ASSUME PoolReports \/ Restart
        PROVE  UNCHANGED listener
    BY <2>5 DEF PoolReports, Restart, cloud
  <2> HIDE DEF Kept
  <2> QED
    BY <2>1, <2>3, <2>4, <2>5 DEF Next, System
<1>2. NoStale /\ Spec => [](TypeInv /\ HoldInv /\ ListenerInv)
  BY ListenerInvariance
<1>3. Spec => [][Next]_vars
  BY DEF Spec
<1>4. NoStale /\ Spec => [][Kept]_vars
  BY <1>1, <1>2, <1>3, PTL
<1> QED
  BY <1>4 DEF DeletedByOwner
-----------------------------------------------------------------------------
(* Ports, again: none is lost.                                             *)

\* What the allocator has and was not abandoned, somebody has yet to release.
LeakInv == \A p \in allocated \ abandoned : \E b \in Bindings : p \in Held(b)

\* A worker changes its own binding only.
LEMMA OneAtATime ==
  ASSUME TypeInv, NEW b \in Bindings, Work(b)
  PROVE  \A d \in Bindings \ {b} : obj'[d] = obj[d] /\ worker'[d] = worker[d]
<1>1. \E v : worker' = [worker EXCEPT ![b] = v]
  <2>1. ASSUME NEW w, Onward(b, w)
        PROVE  \E v : worker' = [worker EXCEPT ![b] = v]
    BY <2>1 DEF Onward
  <2>2. CASE \/ EnsureListener(b) \/ EnsureListenerFails(b) \/ EnsurePortBound(b)
             \/ EnsurePortBoundFails(b) \/ Save(b) \/ Annotate(b)
    BY <2>1, <2>2, EnsureListenerTyped, EnsurePortBoundTyped, SaveTyped, AnnotateTyped
  <2>3. CASE Start(b)
    BY <2>3 DEF Start, Becomes
  <2>4. CASE Write(b)
    BY <2>4 DEF Write, Requeue, Stop, Becomes
  <2>5. CASE WriteFails(b) \/ Allocate(b) \/ Backend(b) \/ UnexpectedStays(b) \/ Drop(b)
    BY <2>5 DEF WriteFails, Allocate, Backend, UnexpectedStays, Drop, Requeue, Stop, Goto, Becomes
  <2>6. CASE BecomeBound(b) \/ RetriesExhausted(b) \/ Unbind(b) \/ RemoveListener(b) \/ Release(b)
    BY <2>6 DEF BecomeBound, RetriesExhausted, Unbind, RemoveListener, Release, Requeue, Stop, Goto,
       Becomes
  <2> QED
    BY <2>2, <2>3, <2>4, <2>5, <2>6 DEF Work, Sync, Cleanup
<1>2. UNCHANGED obj \/ \E o : obj' = [obj EXCEPT ![b] = o]
  BY DEF Work, Sync, Cleanup, Start, Write, WriteFails, Allocate, Backend, EnsureListener,
     EnsureListenerFails, UnexpectedStays, EnsurePortBound, EnsurePortBoundFails, Save, Drop,
     BecomeBound, RetriesExhausted, Annotate, Unbind, RemoveListener, Release
<1> QED
  BY <1>1, <1>2 DEF TypeInv, TypeOK

\* No port is lost in a step of one binding if that binding loses none.
LEMMA OneLoses ==
  ASSUME LeakInv, NEW b \in Bindings,
         \A d \in Bindings \ {b} : obj'[d] = obj[d] /\ worker'[d] = worker[d],
         \A p \in allocated' : p \in allocated \/ p \in Held(b)',
         \A p \in abandoned : p \in abandoned' \/ p \in Held(b)' \/ p = 0,
         \A p \in Held(b) : p \in Held(b)' \/ p \notin allocated' \/ p \in abandoned',
         0 \notin allocated'
  PROVE  LeakInv'
<1> SUFFICES ASSUME NEW p \in allocated' \ abandoned', p \notin Held(b)'
             PROVE  \E d \in Bindings : p \in Held(d)'
  BY DEF LeakInv
<1>1. PICK d \in Bindings : p \in Held(d)
  BY DEF LeakInv
<1>2. d # b
  BY <1>1
<1> QED
  BY <1>1, <1>2 DEF Held

\* A binding keeps what it has when its object keeps the port, and no port is on its way.
LEMMA HeldKept ==
  ASSUME TypeInv, NEW b \in Bindings, worker[b].at \notin {"record", "release"},
         obj'[b].port = obj[b].port, obj'[b].finalized = obj[b].finalized
  PROVE  Held(b) \subseteq Held(b)'
<1>1. worker[b].port = 0
  BY DEF TypeInv, TypeOK, Ready, Workers
<1> QED
  BY <1>1 DEF Held

\* A write moves a port from the worker to the status, or leaves it where it is.
LEMMA WriteLeak ==
  ASSUME TypeInv, HoldInv, ListenerInv, LeakInv, NEW b \in Bindings, Write(b)
  PROVE  LeakInv'
<1> DEFINE w == worker[b]
           o == Written(w)
<1>1. /\ obj[b] = w.obj /\ w.at \in WriteSteps /\ w \in Workers /\ w.obj \in Objects
      /\ Fits(w.obj, w, listener) /\ Ready(w)
  BY AtWork DEF Write
<1>2. obj'[b] = o /\ UNCHANGED <<allocated, abandoned>>
  BY DEF Write, memory, TypeInv, TypeOK
<1>3. \A d \in Bindings \ {b} : obj'[d] = obj[d] /\ worker'[d] = worker[d]
  BY OneAtATime DEF Work
<1>4. w.at # "dropFinalizer" =>
        /\ o.port = IF w.at = "record" THEN w.port ELSE w.obj.port
        /\ o.finalized = (w.at = "mark" \/ w.obj.finalized)
  BY <1>1, WrittenFits
<1> HIDE DEF o
<1>5. Held(b) \subseteq Held(b)'
  <2>1. CASE w.at = "dropFinalizer"
    <3>1. w.obj.finalized /\ w.port = 0
      BY <1>1, <2>1 DEF Fits, GoesBy, Ready, Workers
    <3> QED
      BY <1>1, <2>1, <3>1 DEF Held
  <2>2. CASE w.at = "record"
    <3>1. o.port = w.port /\ ~o.finalized /\ w.obj.port = 0
      BY <1>1, <1>4, <2>2 DEF Fits, GoesBy, Ready, Objects
    <3> QED
      BY <1>1, <1>2, <2>2, <3>1 DEF Held
  <2>3. CASE w.at = "mark"
    <3>1. worker'[b].at = "release" /\ worker'[b].obj = o
      <4> DEFINE v == [w EXCEPT !.at = StepAfter(w), !.obj = o, !.port = 0]
      <4>1. ~At(b, "fail") /\ StepAfter(w) = "release"
        BY <2>3 DEF At, StepAfter
      <4>2. Becomes(b, v)
        BY <1>2, <4>1 DEF Write
      <4>3. v.at = "release" /\ v.obj = o
        BY <1>1, <4>1 DEF Workers
      <4> HIDE DEF v
      <4> QED
        BY <4>2, <4>3 DEF Becomes, TypeInv, TypeOK
    <3>2. o.port = w.obj.port /\ w.port = 0
      BY <1>1, <1>4, <2>3 DEF Ready, Workers
    <3> QED
      BY <1>1, <2>3, <3>1, <3>2 DEF Held
  <2>4. CASE w.at \notin {"dropFinalizer", "record", "mark"}
    <3>1. o.port = obj[b].port /\ o.finalized = obj[b].finalized
      BY <1>1, <1>4, <2>4 DEF Objects
    <3> QED
      BY <1>1, <1>2, <2>4, <3>1, HeldKept DEF WriteSteps
  <2> QED
    BY <2>1, <2>2, <2>3, <2>4
<1>6. 0 \notin allocated
  BY Typing DEF TypeInv, TypeOK
<1> QED
  BY <1>2, <1>3, <1>5, <1>6, OneLoses

\* What leaves the allocator or a status in the other steps was released, or counts as abandoned.
LEMMA WorkLeak ==
  ASSUME TypeInv, HoldInv, ListenerInv, LeakInv, NEW b \in Bindings, Work(b)
  PROVE  LeakInv'
<1> DEFINE w == worker[b]
<1>1. /\ w \in Workers /\ w.obj \in Objects /\ obj[b] \in Objects /\ Fits(obj[b], w, listener)
      /\ Ready(w) /\ Current(b) /\ allocated \subseteq Ports /\ 0 \notin Ports /\ 0 \notin allocated
  BY AtWork, Typing DEF TypeInv, TypeOK
<1>2. \A d \in Bindings \ {b} : obj'[d] = obj[d] /\ worker'[d] = worker[d]
  BY OneAtATime
<1>3. CASE \/ Start(b) \/ Backend(b) \/ EnsureListener(b) \/ EnsureListenerFails(b)
           \/ UnexpectedStays(b) \/ EnsurePortBound(b) \/ EnsurePortBoundFails(b)
           \/ RetriesExhausted(b) \/ Annotate(b) \/ Unbind(b) \/ RemoveListener(b)
  <2>1. UNCHANGED <<obj, allocated, abandoned>> /\ w.at \notin {"record", "release"}
    BY <1>3 DEF Start, Backend, EnsureListener, EnsureListenerFails, UnexpectedStays,
       EnsurePortBound, EnsurePortBoundFails, RetriesExhausted, Annotate, Unbind, RemoveListener,
       At, memory
  <2> QED
    BY <1>1, <1>2, <2>1, HeldKept, OneLoses
<1>4. CASE WriteFails(b)
  <2>1. /\ UNCHANGED <<obj, abandoned>> /\ allocated' = allocated \ {w.port}
        /\ w.at # "release"
    BY <1>4 DEF WriteFails, GiveBack, WriteSteps
  <2>2. \A p \in Held(b) : p \in Held(b)' \/ p = w.port
    BY <2>1 DEF Held
  <2> QED
    BY <1>1, <1>2, <2>1, <2>2, OneLoses
<1>5. CASE Allocate(b)
  <2>1. UNCHANGED <<obj, abandoned>> /\ w.at = "allocate"
    BY <1>5 DEF Allocate, At
  <2>2. CASE UNCHANGED allocated
    BY <1>1, <1>2, <2>1, <2>2, HeldKept, OneLoses
  <2>3. CASE allocated' = allocated \cup {FirstFree} /\ Ports \ allocated # {}
             /\ Becomes(b, [worker[b] EXCEPT !.at = "record", !.port = FirstFree])
    <3>1. FirstFree \in Ports
      BY <2>3, FirstFreeIsFree
    <3>2. worker'[b].port = FirstFree
      BY <1>1, <2>3 DEF Becomes, Workers, TypeInv, TypeOK
    <3>3. FirstFree \in Held(b)'
      BY <1>1, <3>1, <3>2 DEF Held
    <3> QED
      BY <1>1, <1>2, <2>1, <2>3, <3>1, <3>3, HeldKept, OneLoses
  <2> QED
    BY <1>5, <2>2, <2>3 DEF Allocate
<1>6. CASE Save(b)
  <2>1. w.at = "save" /\ copy[b] = obj[b] /\ obj'[b] = Saved(b) /\ UNCHANGED allocated
    BY <1>6, SaveTyped DEF Save, At, Refetched, memory, TypeInv, TypeOK
  <2>2. w.obj.port = obj[b].port /\ ~obj[b].finalized
    BY <1>1, <2>1 DEF Current, Fits, GoesBy
  <2>3. obj'[b].port = obj[b].port /\ obj'[b].finalized = obj[b].finalized
    BY <1>1, <2>1, <2>2 DEF Saved, PortOf, Objects
  <2>4. \A p \in abandoned : p \in abandoned' \/ p \in Held(b)' \/ p = 0
    BY <1>6, <2>2, <2>3 DEF Save, Replaces, PortOf, Held
  <2> QED
    BY <1>1, <1>2, <2>1, <2>3, <2>4, HeldKept, OneLoses
<1>7. CASE Drop(b)
  <2>1. w.at = "drop" /\ UNCHANGED allocated /\ abandoned' = (abandoned \cup {obj[b].port}) \ {0}
    BY <1>7 DEF Drop, At, memory, Replaces
  <2>2. Held(b) \subseteq {obj[b].port} \ {0}
    BY <1>1, <2>1 DEF Held, Ready
  <2> QED
    BY <1>1, <1>2, <2>1, <2>2, OneLoses
<1>8. CASE BecomeBound(b)
  <2>1. /\ w.at = "bound" /\ UNCHANGED <<allocated, abandoned>>
        /\ obj'[b] = [obj[b] EXCEPT !.state = "Bound"]
    BY <1>8 DEF BecomeBound, At, Refetched, memory, TypeInv, TypeOK
  <2>2. obj'[b].port = obj[b].port /\ obj'[b].finalized = obj[b].finalized
    BY <1>1, <2>1 DEF Objects
  <2> QED
    BY <1>1, <1>2, <2>1, <2>2, HeldKept, OneLoses
<1>9. CASE Release(b)
  <2>1. w.at = "release" /\ UNCHANGED <<obj, abandoned>> /\ allocated' = allocated \ {w.obj.port}
    BY <1>9 DEF Release, At, PortOf
  <2>2. Held(b) \subseteq {w.obj.port}
    BY <1>1, <2>1 DEF Held, Ready, Current
  <2> QED
    BY <1>1, <1>2, <2>1, <2>2, OneLoses
<1> QED
  BY <1>3, <1>4, <1>5, <1>6, <1>7, <1>8, <1>9, WriteLeak DEF Work, Sync, Cleanup

\* Whoever else changes an object leaves its port where it is.
LEMMA OutsideLeak ==
  ASSUME TypeInv, HoldInv, ListenerInv, LeakInv, NEW b \in Bindings,
         PodSync(b) \/ Collect(b) \/ BindingDeleted(b)
  PROVE  LeakInv'
<1>1. /\ obj[b] \in Objects /\ pod[b] \in Pods /\ Current(b) /\ Settled(obj[b])
      /\ obj[b].finalizer \in BOOLEAN
  BY AtWork DEF TypeInv, TypeOK, Objects
<1>2. UNCHANGED <<worker, allocated, abandoned>>
  BY DEF PodSync, Collect, BindingDeleted, memory
<1>3. \A d \in Bindings \ {b} : obj'[d] = obj[d] /\ worker'[d] = worker[d]
  BY <1>2 DEF PodSync, Collect, BindingDeleted, TypeInv, TypeOK
<1>4. Held(b) \subseteq Held(b)'
  <2>1. obj'[b] \in {obj[b], NewObject(b), [obj[b] EXCEPT !.disabled = pod[b].disabled],
                     Deleted(obj[b])}
    BY DEF PodSync, Collect, BindingDeleted, TypeInv, TypeOK
  <2>2. \/ obj'[b].port = obj[b].port /\ obj'[b].finalized = obj[b].finalized
        \/ obj[b].port = 0
    <3>1. CASE obj'[b] \in {obj[b], [obj[b] EXCEPT !.disabled = pod[b].disabled]}
      BY <1>1, <3>1 DEF Objects
    <3>2. CASE obj'[b] = Deleted(obj[b])
      <4>1. CASE obj[b].finalizer
        BY <1>1, <3>2, <4>1 DEF Deleted, Objects
      <4>2. CASE ~obj[b].finalizer
        BY <1>1, <4>2 DEF Settled
      <4> QED
        BY <4>1, <4>2
    <3>3. CASE obj'[b] = NewObject(b)
      <4>1. UNCHANGED obj \/ ~Exists(obj[b]) \/ obj'[b] # NewObject(b)
            \/ obj'[b] \in {[obj[b] EXCEPT !.disabled = pod[b].disabled], Deleted(obj[b])}
        BY DEF PodSync, Collect, BindingDeleted, TypeInv, TypeOK
      <4>2. CASE ~Exists(obj[b])
        BY <1>1, <4>2 DEF Current, Settled
      <4> QED
        BY <3>1, <3>2, <3>3, <4>1, <4>2
    <3> QED
      BY <2>1, <3>1, <3>2, <3>3
  <2> QED
    BY <1>2, <2>2 DEF Held
<1>5. 0 \notin allocated
  BY Typing DEF TypeInv, TypeOK
<1> QED
  BY <1>2, <1>3, <1>4, <1>5, OneLoses

\* Every step loses no port.
LEMMA StepLeak == TypeInv /\ HoldInv /\ ListenerInv /\ LeakInv /\ [Next]_vars => LeakInv'
<1> SUFFICES ASSUME TypeInv, HoldInv, ListenerInv, LeakInv, [Next]_vars PROVE LeakInv'
  OBVIOUS
<1>1. ASSUME UNCHANGED <<obj, worker, allocated, abandoned>>
      PROVE  LeakInv'
  BY <1>1 DEF LeakInv, Held
<1>2. ASSUME NEW b \in Bindings,
             Inform(b) \/ PodGone(b) \/ PodGetsIP(b) \/ PodDeleted(b) \/ PodCreated(b) \/ Switched(b)
      PROVE  UNCHANGED <<obj, worker, allocated, abandoned>>
  BY <1>2 DEF Inform, PodGone, PodGetsIP, PodDeleted, PodCreated, Switched, PodChanges, memory
<1>3. CASE PoolReports \/ UNCHANGED vars
  BY <1>1, <1>3 DEF PoolReports, vars, memory
<1>4. CASE Restart
  <2>1. /\ allocated' \ abandoned' \subseteq Unfinished \ {0} /\ UNCHANGED obj
    BY <1>4 DEF Restart
  <2>2. \A p \in Unfinished \ {0} : \E b \in Bindings : p \in Held(b)'
    BY <2>1 DEF Unfinished, Held
  <2> QED
    BY <2>1, <2>2 DEF LeakInv
<1> QED
  BY <1>1, <1>2, <1>3, <1>4, WorkLeak, OutsideLeak DEF Next, System, Cluster, User

\* A port that is recorded in the allocator is in the status of a binding that has yet to release
\* it, or with a worker that is about to record or to release it; only a port whose listener could
\* not be removed, and one recorded again by a restart, are left to nobody.
THEOREM NoLeakCorrect == NoStale /\ Spec => []NoLeak
<1>1. Init => LeakInv
  BY DEF Init, LeakInv
<1>2. TypeInv /\ HoldInv /\ ListenerInv /\ LeakInv => NoLeak
  <2> SUFFICES ASSUME TypeInv, HoldInv, LeakInv, NEW p \in allocated \ abandoned
               PROVE  \E b \in Bindings :
                        \/ obj[b].port = p /\ (obj[b].finalized => At(b, "release"))
                        \/ worker[b].port = p
    BY DEF NoLeak
  <2>1. PICK b \in Bindings : p \in Held(b)
    BY DEF LeakInv
  <2>2. worker[b].at = "release" => worker[b].obj.port = obj[b].port
    BY DEF HoldInv, Current
  <2> QED
    BY <2>1, <2>2 DEF Held, At
<1>3. NoStale /\ Spec => [](TypeInv /\ HoldInv /\ ListenerInv)
  BY ListenerInvariance
<1> QED
  BY <1>1, <1>2, <1>3, StepLeak, PTL DEF Spec
=============================================================================
