-------------------------- MODULE BatchCallsProofs --------------------------
(***************************************************************************)
(* What the batches of package clb guarantee for every number of calls,    *)
(* load balancers and listeners, every channel size and every limit.       *)
(***************************************************************************)
EXTENDS BatchCalls, TLAPS, FiniteSetTheorems

\* A call in a channel or with a processor is sent, belongs to that API, and is not in both.
Queued ==
  \A a \in Apis :
    /\ \A c \in channel[a] \cup tasks[a] : pc[c] = "sent" /\ op[c] = a
    /\ channel[a] \cap tasks[a] = {}

\* A call of a batch is sent, belongs to the batch's API, and is in no queue; between two
\* requests there is none, and a description has no task to wait for.
InBatch ==
  \A b \in batches :
    /\ b.todo \cap b.request = {}
    /\ b.step \in {"lock", "call"} => b.request = {}
    /\ b.step = "wait" => b.op # "targets"
    /\ \A c \in Unanswered(b) :
         pc[c] = "sent" /\ op[c] = b.op /\ \A a \in Apis : c \notin channel[a] \cup tasks[a]

\* No call is in two batches.
Apart == \A b, d \in batches : b # d => Unanswered(b) \cap Unanswered(d) = {}

\* A call that was sent is somewhere.
Somewhere ==
  \A c \in Calls : pc[c] = "sent" =>
    \/ \E a \in Apis : c \in channel[a] \cup tasks[a]
    \/ \E b \in batches : c \in Unanswered(b)

\* A batch that writes and is past the lock has it.
Locked ==
  \A b \in batches : b.calls # {} /\ (b.op \in Writes /\ b.step # "lock" => lock[b.lb] # {})

Shape == Queued /\ InBatch /\ Apart /\ Somewhere /\ Locked /\ OneWriter

\* Backends and listeners are not mixed up in what a call passes on.
Passed ==
  \A c \in Calls :
    /\ op[c] \in {"register", "deregister"} => arg[c] \subseteq Targets
    /\ op[c] = "deleteOne" => arg[c] \subseteq Ids
    /\ op[c] = "targets" => answer[c].value \subseteq Targets

Inv == TypeOK /\ Passed /\ Shape

-----------------------------------------------------------------------------
\* A place of a listener, what is said, and the operations, have their types.
LEMMA Typing ==
  /\ \A code \in Codes : Say(code) \in Answers
  /\ \A code \in Codes : Say(code).value = {}
  /\ \A c \in Calls : FirstOp(c) \in Operations \ {"deleteOne"}
  /\ \A c \in Calls : FirstArg(c) \subseteq Targets
  /\ \A c \in Calls : Kind[c] \in CreateKinds => FirstOp(c) \in {"create", "createOne"}
<1>1. \A c \in Calls : Kind[c] \in Kinds
  BY ConstantsAssumption
<1>2. \A c \in Calls : Target[c] \in Targets
  BY ConstantsAssumption
<1>3. \A code \in Codes : Say(code) \in Answers
  BY DEF Say, Answers
<1>4. \A code \in Codes : Say(code).value = {}
  BY DEF Say
<1>5. \A c \in Calls : FirstArg(c) \subseteq Targets
  BY <1>2 DEF FirstArg
<1>6. ASSUME NEW c \in Calls
      PROVE  /\ FirstOp(c) \in Operations \ {"deleteOne"}
             /\ Kind[c] \in CreateKinds => FirstOp(c) \in {"create", "createOne"}
  <2>1. CASE Kind[c] \in CreateKinds
    BY <2>1 DEF FirstOp, CreateKinds, Operations, Apis, Single
  <2>2. CASE Kind[c] \in CleanupKinds
    BY <2>2 DEF FirstOp, CleanupKinds, CreateKinds, Operations, Apis, Single
  <2>3. CASE Kind[c] = "unbind"
    BY <2>3 DEF FirstOp, CreateKinds, Operations, Apis, Single
  <2>4. CASE Kind[c] \in {"describe", "register", "deregister"}
    BY <2>4 DEF FirstOp, CreateKinds, Operations, Apis, Single
  <2> QED
    BY <1>1, <2>1, <2>2, <2>3, <2>4 DEF Kinds
<1> QED
  BY <1>3, <1>4, <1>5, <1>6

\* In the beginning every call is with its caller.
LEMMA InitInv == Init => Inv
<1> SUFFICES ASSUME Init PROVE Inv
  OBVIOUS
<1> USE DEF Init
<1>1. \A c \in Calls : pc[c] # "sent"
  <2>1. PICK m \in Mixes : pc = [c \in Calls |-> IF c \in m THEN "ready" ELSE "off"]
    OBVIOUS
  <2> QED
    BY <2>1
<1>2. pc \in [Calls -> {"off", "ready", "sent", "done"}]
  OBVIOUS
<1>3. TypeOK
  <2>1. op \in [Calls -> Operations] /\ arg \in [Calls -> SUBSET (Ids \cup Targets)]
    BY Typing
  <2>2. answer \in [Calls -> Answers]
    BY Typing DEF Codes
  <2>3. backends \in SUBSET Backend /\ live \in SUBSET Ids
    BY DEF Backend, Ids
  <2>4. task \in [LBs -> [add : SUBSET Ids, del : SUBSET Ids]]
    BY DEF NoTask
  <2> QED
    BY <1>2, <2>1, <2>2, <2>3, <2>4 DEF TypeOK
<1>4. Passed
  BY Typing DEF Passed, Codes, Say
<1>5. Shape
  BY <1>1 DEF Shape, Queued, InBatch, Apart, Somewhere, Locked, OneWriter
<1> QED
  BY <1>3, <1>4, <1>5 DEF Inv

-----------------------------------------------------------------------------
(* Batches at work.                                                        *)

\* A step of a batch past its lock that neither takes in nor answers a call.
LEMMA AdvanceShape ==
  ASSUME Shape, NEW b \in batches, NEW new,
         new.op = b.op, new.lb = b.lb, new.calls = b.calls,
         b.step # "lock", new.step # "lock", new.step = "call" => new.request = {},
         new.step = "wait" => b.op # "targets",
         new.todo \cap new.request = {}, Unanswered(new) = Unanswered(b),
         Advance(b, new), UNCHANGED <<pc, op, channel, tasks, lock>>
  PROVE  Shape'
<1> USE DEF Unanswered
<1>0. batches' = (batches \ {b}) \cup {new}
  BY DEF Advance
<1>1. Queued'
  BY DEF Shape, Queued
<1>2. InBatch'
  BY <1>0 DEF Shape, InBatch
<1>3. Apart'
  BY <1>0 DEF Shape, Apart
<1>4. Somewhere'
  BY <1>0 DEF Shape, Somewhere
<1>5. Locked'
  BY <1>0 DEF Shape, Locked
<1>6. OneWriter'
  BY <1>0 DEF Shape, OneWriter
<1> QED
  BY <1>1, <1>2, <1>3, <1>4, <1>5, <1>6 DEF Shape

\* The calls of a batch are calls, and the requests are made of those that are left.
LEMMA RequestsOf ==
  ASSUME TypeOK, NEW b \in batches, NEW R \in Requests(b)
  PROVE  R \subseteq b.todo /\ R \subseteq Calls /\ GroupOf(b, R) \in Groups \cup {None}
<1>1. b \in Batches
  BY DEF TypeOK
<1>2. CASE b.op = "create"
  <2>1. R \in SUBSET b.todo /\ R # {}
    BY <1>2 DEF Requests, CreateRequests
  <2>2. (CHOOSE c \in R : TRUE) \in Calls
    BY <1>1, <2>1 DEF Batches
  <2> QED
    BY <1>1, <1>2, <2>1, <2>2 DEF Batches, GroupOf, Groups
<1>3. CASE b.op # "create"
  BY <1>1, <1>3 DEF Requests, GroupOf, Batches
<1> QED
  BY <1>2, <1>3

\* A request is made: its calls leave todo.
LEMMA RequestedShape ==
  ASSUME Inv, NEW b \in batches, NEW R \in Requests(b), NEW step \in {"wait", "answer"},
         b.step = "call", step = "wait" => b.op # "targets",
         Requested(b, R, step), UNCHANGED <<pc, op, channel, tasks, lock>>
  PROVE  Shape' /\ batches' \in SUBSET Batches
<1> DEFINE new == [b EXCEPT !.todo = @ \ R, !.request = R, !.group = GroupOf(b, R),
                            !.step = step, !.retries = 0]
<1>1. b \in Batches /\ TypeOK /\ Shape
  BY DEF Inv, TypeOK
<1>2. R \subseteq b.todo /\ R \subseteq Calls /\ GroupOf(b, R) \in Groups \cup {None}
  BY <1>1, RequestsOf
<1>3. new \in Batches
  <2>1. 0 \in 0..InOperatingRetryMax
    BY LimitsAssumption
  <2> QED
    BY <1>1, <1>2, <2>1 DEF Batches
<1>4. Advance(b, new)
  BY DEF Requested
<1>5. /\ new.op = b.op /\ new.lb = b.lb /\ new.calls = b.calls /\ new.step # "lock"
      /\ new.step # "call" /\ (new.step = "wait" => b.op # "targets")
      /\ new.todo \cap new.request = {} /\ Unanswered(new) = Unanswered(b)
  <2>1. b.request = {}
    BY <1>1 DEF Shape, InBatch
  <2> QED
    BY <1>1, <1>2, <2>1 DEF Batches, Unanswered
<1> HIDE DEF new
<1>6. Shape'
  BY <1>1, <1>4, <1>5, AdvanceShape
<1> QED
  BY <1>1, <1>3, <1>4, <1>6 DEF Advance, TypeOK

\* What a request leaves as it must be.
CloudTyped ==
  /\ live \in SUBSET Ids /\ backends \in SUBSET Backend
  /\ task \in [LBs -> [add : SUBSET Ids, del : SUBSET Ids]]

\* A request is made and its calls are told: enough for the invariant.
LEMMA RequestedInv ==
  ASSUME Inv, NEW b \in batches, NEW R \in Requests(b), NEW step \in {"wait", "answer"},
         NEW r, \A c \in R : r[c] \in Answers,
         b.op = "targets" => \A c \in R : r[c].value \subseteq Targets,
         step = "wait" => b.op # "targets",
         b.step = "call", Requested(b, R, step), Tell(R, r), CloudTyped',
         UNCHANGED <<callVars, queueVars, lock>>
  PROVE  Inv'
<1>1. /\ UNCHANGED <<pc, op, arg, again, channel, tasks, lock>>
      /\ TypeOK /\ Passed /\ Shape
  BY DEF Inv, callVars, queueVars
<1>2. Shape' /\ batches' \in SUBSET Batches
  BY <1>1, RequestedShape
<1>3. R \subseteq b.todo /\ R \subseteq Calls
  BY <1>1, RequestsOf
<1>4. \A c \in Calls : answer'[c] = IF c \in R THEN r[c] ELSE answer[c]
  BY DEF Tell
<1>5. answer' \in [Calls -> Answers]
  BY <1>1, <1>3 DEF TypeOK, Tell
<1>6. TypeOK'
  BY <1>1, <1>2, <1>5 DEF TypeOK, CloudTyped
<1>7. \A c \in R : op[c] = b.op
  BY <1>1, <1>3 DEF Shape, InBatch, Unanswered
<1>8. Passed'
  BY <1>1, <1>4, <1>7 DEF Passed
<1> QED
  BY <1>2, <1>6, <1>8 DEF Inv

\* The same where all of them are told the same.
LEMMA RequestedAllInv ==
  ASSUME Inv, NEW b \in batches, NEW R \in Requests(b), NEW step \in {"wait", "answer"},
         NEW code \in Codes, b.step = "call", step = "wait" => b.op # "targets",
         Requested(b, R, step), TellAll(R, code), CloudTyped',
         UNCHANGED <<callVars, queueVars, lock>>
  PROVE  Inv'
<1> DEFINE r == [c \in R |-> Say(code)]
<1>1. (\A c \in R : r[c] \in Answers) /\ \A c \in R : r[c].value \subseteq Targets
  BY Typing
<1>2. Tell(R, r)
  BY DEF TellAll
<1> HIDE DEF r
<1> QED
  BY <1>1, <1>2, RequestedInv

\* Only creations are split into several requests.
LEMMA WholeRequest ==
  ASSUME NEW b, b.op # "create"
  PROVE  b.todo \in Requests(b)
BY DEF Requests

\* A batch that ends its wait, or repeats its request.
LEMMA AdvanceInv ==
  ASSUME Inv, NEW b \in batches, NEW new \in Batches,
         new.op = b.op, new.lb = b.lb, new.calls = b.calls, new.todo = b.todo,
         new.request = b.request, b.step # "lock", new.step = "answer" \/ new.step = b.step,
         Advance(b, new), CloudTyped', UNCHANGED <<callVars, queueVars, lock>>,
         \/ UNCHANGED answer
         \/ b.op # "targets" /\ TellAll(b.request, "err")
  PROVE  Inv'
<1>1. /\ UNCHANGED <<pc, op, arg, again, channel, tasks, lock>>
      /\ TypeOK /\ Passed /\ Shape /\ b \in Batches
  BY DEF Inv, callVars, queueVars, TypeOK
<1>2. Shape'
  <2>1. /\ b.todo \cap b.request = {} /\ (b.step = "call" => b.request = {})
        /\ b.step = "wait" => b.op # "targets"
    BY <1>1 DEF Shape, InBatch
  <2> QED
    BY <1>1, <2>1, AdvanceShape DEF Unanswered
<1>3. batches' \in SUBSET Batches
  BY <1>1 DEF Advance, TypeOK
<1>4. answer' \in [Calls -> Answers] /\ \A c \in Calls : op[c] = "targets" => answer'[c] = answer[c]
  <2>1. CASE UNCHANGED answer
    BY <1>1, <2>1 DEF TypeOK
  <2>2. CASE b.op # "targets" /\ TellAll(b.request, "err")
    <3>1. answer' = [c \in Calls |-> IF c \in b.request THEN Say("err") ELSE answer[c]]
      BY <2>2 DEF TellAll, Tell
    <3>2. Say("err") \in Answers
      BY Typing DEF Codes
    <3>3. \A c \in b.request : op[c] = b.op
      BY <1>1 DEF Shape, InBatch, Unanswered
    <3> QED
      BY <1>1, <2>2, <3>1, <3>2, <3>3 DEF TypeOK
  <2> QED
    BY <2>1, <2>2
<1>5. TypeOK'
  BY <1>1, <1>3, <1>4 DEF TypeOK, CloudTyped
<1>6. Passed'
  BY <1>1, <1>4 DEF Passed
<1> QED
  BY <1>2, <1>5, <1>6 DEF Inv

-----------------------------------------------------------------------------
(* The requests.                                                           *)

\* Where the cloud stays as it was, it has its types.
LEMMA CloudStays == TypeOK /\ UNCHANGED cloudVars => CloudTyped'
BY DEF TypeOK, CloudTyped, cloudVars

\* A new task of one load balancer has the type of tasks.
LEMMA NewTask ==
  ASSUME TypeOK, NEW l \in LBs, NEW A \in SUBSET Ids, NEW D \in SUBSET Ids,
         task' = [task EXCEPT ![l] = [add |-> A, del |-> D]], UNCHANGED <<live, backends>>
  PROVE  CloudTyped'
BY DEF TypeOK, CloudTyped

\* The listeners a deletion names are listeners.
LEMMA DoomedTyped ==
  ASSUME Inv, NEW b \in batches, b.op \in {"delete", "deleteOne"}
  PROVE  Doomed(b) \subseteq Ids
<1>1. b \in Batches /\ b.todo \subseteq Calls
  BY DEF Inv, TypeOK, Batches
<1>2. CASE b.op = "delete"
  BY <1>1, <1>2, ConstantsAssumption DEF Doomed, Ids
<1>3. CASE b.op # "delete"
  <2>1. \A c \in b.todo : op[c] = "deleteOne"
    BY <1>3 DEF Inv, Shape, InBatch, Unanswered
  <2>2. \A c \in b.todo : arg[c] \subseteq Ids
    BY <1>1, <2>1 DEF Inv, Passed
  <2> QED
    BY <1>3, <2>2 DEF Doomed
<1> QED
  BY <1>2, <1>3

\* The backends a call names are backends of listeners.
LEMMA NamedTyped ==
  ASSUME Inv, NEW b \in batches, b.op \in {"register", "deregister"}, NEW c \in b.todo
  PROVE  Named(c) \subseteq Backend
<1>1. c \in Calls /\ op[c] = b.op
  BY DEF Inv, TypeOK, Batches, Shape, InBatch, Unanswered
<1>2. arg[c] \subseteq Targets
  BY <1>1 DEF Inv, Passed
<1>3. Listener[c] \in Ids
  BY <1>1, ConstantsAssumption DEF Ids
<1> QED
  BY <1>2, <1>3 DEF Named, Backend

\* Every answer of the cloud to a request preserves the invariant.
LEMMA CloudCallInv ==
  ASSUME Inv, NEW b \in batches, CloudCall(b)
  PROVE  Inv'
<1>1. TypeOK /\ b \in Batches /\ b.todo \subseteq Calls /\ b.lb \in LBs
  BY DEF Inv, TypeOK, Batches
<1>2. CASE CallFails(b)
  <2>1. PICK R \in Requests(b) : Requested(b, R, "answer") /\ TellAll(R, "err")
    BY <1>2 DEF CallFails
  <2> QED
    BY <1>1, <1>2, <2>1, CloudStays, RequestedAllInv DEF CallFails, Codes
<1>3. CASE ResourceInOperating(b)
  <2> DEFINE new == [b EXCEPT !.retries = @ + 1]
  <2>1. new \in Batches
    BY <1>1, <1>3, LimitsAssumption DEF ResourceInOperating, Batches
  <2>2. /\ new.op = b.op /\ new.lb = b.lb /\ new.calls = b.calls /\ new.todo = b.todo
        /\ new.request = b.request /\ new.step = b.step
    BY <1>1 DEF Batches
  <2>3. /\ b.step # "lock" /\ Advance(b, new) /\ UNCHANGED <<callVars, queueVars, lock>>
        /\ UNCHANGED answer /\ UNCHANGED cloudVars
    BY <1>3 DEF ResourceInOperating, Calling
  <2> HIDE DEF new
  <2> QED
    BY <1>1, <2>1, <2>2, <2>3, CloudStays, AdvanceInv
<1>4. CASE PortCheckFails(b)
  <2>1. PICK R \in Requests(b) : Requested(b, R, "answer") /\ TellAll(R, "busy")
    BY <1>4 DEF PortCheckFails
  <2> QED
    BY <1>1, <1>4, <2>1, CloudStays, RequestedAllInv DEF PortCheckFails, Calling, Codes
<1>5. CASE CreateListeners(b)
  <2>1. PICK R \in Requests(b) :
          /\ task' = [task EXCEPT ![b.lb] = [add |-> R, del |-> {}]]
          /\ Requested(b, R, "wait")
          /\ Tell(R, [c \in R |-> [code |-> "ok", value |-> {c}]])
    BY <1>5 DEF CreateListeners
  <2> DEFINE r == [c \in R |-> [code |-> "ok", value |-> {c}]]
  <2>2. R \subseteq Calls
    BY <1>1, RequestsOf
  <2>3. \A c \in R : r[c] \in Answers
    BY <2>2 DEF Answers, Codes, Ids
  <2>4. CloudTyped'
    <3>1. R \in SUBSET Ids /\ {} \in SUBSET Ids
      BY <2>2 DEF Ids
    <3>2. UNCHANGED <<live, backends>>
      BY <1>5 DEF CreateListeners
    <3> QED
      BY <1>1, <2>1, <3>1, <3>2, NewTask
  <2>5. b.op # "targets" /\ b.step = "call" /\ UNCHANGED <<callVars, queueVars, lock>>
    BY <1>5 DEF CreateListeners, Calling
  <2>6. Tell(R, r)
    BY <2>1
  <2> HIDE DEF r
  <2> QED
    BY <2>1, <2>3, <2>4, <2>5, <2>6, RequestedInv
<1>6. CASE CreateMismatch(b)
  <2>1. PICK R \in Requests(b) : \E S \in SUBSET R :
          /\ task' = [task EXCEPT ![b.lb] = [add |-> S, del |-> {}]]
          /\ Requested(b, R, "answer") /\ TellAll(R, "err")
    BY <1>6 DEF CreateMismatch
  <2>2. R \subseteq Calls
    BY <1>1, RequestsOf
  <2>3. CloudTyped'
    <3>1. PICK S \in SUBSET R : task' = [task EXCEPT ![b.lb] = [add |-> S, del |-> {}]]
      BY <2>1
    <3>2. S \in SUBSET Ids /\ {} \in SUBSET Ids
      BY <2>2 DEF Ids
    <3>3. UNCHANGED <<live, backends>>
      BY <1>6 DEF CreateMismatch
    <3> QED
      BY <1>1, <3>1, <3>2, <3>3, NewTask
  <2> QED
    BY <1>6, <2>1, <2>3, RequestedAllInv DEF CreateMismatch, Calling, Codes
<1>7. ASSUME DeleteListeners(b) \/ DeleteUnanswered(b)
      PROVE  Inv'
  <2>1. PICK code \in Codes, step \in {"wait", "answer"} :
          Requested(b, b.todo, step) /\ TellAll(b.todo, code)
    BY <1>7 DEF DeleteListeners, DeleteUnanswered, Codes
  <2>2. /\ b.op \in {"delete", "deleteOne"} /\ b.step = "call"
        /\ task' = [task EXCEPT ![b.lb] = [add |-> {}, del |-> Doomed(b)]]
        /\ UNCHANGED <<live, backends, callVars, queueVars, lock>>
    BY <1>7 DEF DeleteListeners, DeleteUnanswered, Calling
  <2>3. CloudTyped'
    BY <1>1, <2>2, DoomedTyped, NewTask
  <2>4. b.todo \in Requests(b) /\ b.op # "targets"
    BY <2>2, WholeRequest
  <2> QED
    BY <2>1, <2>2, <2>3, <2>4, RequestedAllInv
<1>8. CASE DeleteNotFound(b)
  <2>1. PICK N \in SUBSET (Doomed(b) \ live) :
          /\ Requested(b, b.todo, "answer")
          /\ Tell(b.todo, [c \in b.todo |->
                             Say(IF Listener[c] \in N THEN "notFound" ELSE "otherNotFound")])
    BY <1>8 DEF DeleteNotFound
  <2> DEFINE r == [c \in b.todo |-> Say(IF Listener[c] \in N THEN "notFound" ELSE "otherNotFound")]
  <2>2. \A c \in b.todo : r[c] \in Answers
    BY Typing DEF Codes
  <2>3. b.todo \in Requests(b) /\ b.op # "targets" /\ b.step = "call"
    BY <1>8, WholeRequest DEF DeleteNotFound, Calling
  <2>4. Tell(b.todo, r)
    BY <2>1
  <2> HIDE DEF r
  <2> QED
    BY <1>1, <1>8, <2>1, <2>2, <2>3, <2>4, CloudStays, RequestedInv DEF DeleteNotFound
<1>9. CASE RegisterTargets(b)
  <2>1. PICK F \in SUBSET {Listener[c] : c \in b.todo} :
          \E G \in SUBSET {c \in b.todo : Listener[c] \in F \cap live} :
            /\ backends' = backends \cup
                 UNION {Named(c) : c \in G \cup {d \in b.todo : Listener[d] \notin F}}
            /\ Requested(b, b.todo, "answer")
            /\ Tell(b.todo, [c \in b.todo |-> Say(IF Listener[c] \in F THEN "err" ELSE "ok")])
    BY <1>9 DEF RegisterTargets
  <2> DEFINE r == [c \in b.todo |-> Say(IF Listener[c] \in F THEN "err" ELSE "ok")]
  <2>2. \A c \in b.todo : r[c] \in Answers
    BY Typing DEF Codes
  <2>3. b.todo \in Requests(b) /\ b.op = "register" /\ b.step = "call"
    BY <1>9, WholeRequest DEF RegisterTargets, Calling
  <2>4. backends' \subseteq Backend
    <3>1. \A c \in b.todo : Named(c) \subseteq Backend
      BY <2>3, NamedTyped
    <3> QED
      BY <1>1, <2>1, <3>1 DEF TypeOK
  <2>5. CloudTyped'
    BY <1>1, <1>9, <2>4 DEF RegisterTargets, TypeOK, CloudTyped
  <2>6. Tell(b.todo, r)
    BY <2>1
  <2> HIDE DEF r
  <2> QED
    BY <1>9, <2>1, <2>2, <2>3, <2>5, <2>6, RequestedInv DEF RegisterTargets
<1>10. CASE DeregisterTargets(b)
  <2>1. PICK F \in SUBSET {Listener[c] : c \in b.todo} :
            /\ backends' \subseteq backends
            /\ Requested(b, b.todo, "answer")
            /\ Tell(b.todo, [c \in b.todo |-> Say(IF Listener[c] \in F THEN "err" ELSE "ok")])
    BY <1>10 DEF DeregisterTargets
  <2> DEFINE r == [c \in b.todo |-> Say(IF Listener[c] \in F THEN "err" ELSE "ok")]
  <2>2. \A c \in b.todo : r[c] \in Answers
    BY Typing DEF Codes
  <2>3. b.todo \in Requests(b) /\ b.op = "deregister" /\ b.step = "call"
    BY <1>10, WholeRequest DEF DeregisterTargets, Calling
  <2>4. CloudTyped'
    BY <1>1, <1>10, <2>1 DEF DeregisterTargets, TypeOK, CloudTyped
  <2>5. Tell(b.todo, r)
    BY <2>1
  <2> HIDE DEF r
  <2> QED
    BY <1>10, <2>1, <2>2, <2>3, <2>4, <2>5, RequestedInv DEF DeregisterTargets
<1>11. CASE DescribeListeners(b)
  <2> DEFINE r == [c \in b.todo |-> [code |-> "ok", value |-> {Listener[c]} \cap live]]
  <2>1. \A c \in b.todo : r[c] \in Answers
    BY <1>1 DEF Answers, Codes, TypeOK
  <2>2. b.todo \in Requests(b) /\ b.op = "describe" /\ b.step = "call"
    BY <1>11, WholeRequest DEF DescribeListeners, Calling
  <2>3. Tell(b.todo, r)
    BY <1>11 DEF DescribeListeners
  <2> HIDE DEF r
  <2> QED
    BY <1>1, <1>11, <2>1, <2>2, <2>3, CloudStays, RequestedInv DEF DescribeListeners
<1>12. CASE DescribeTargets(b)
  <2> DEFINE r == [c \in b.todo |-> [code |-> "ok", value |-> Registered(Listener[c])]]
  <2>1. \A c \in b.todo : r[c].value \subseteq Targets
    BY <1>1 DEF Registered, TypeOK, Backend
  <2>2. \A c \in b.todo : r[c] \in Answers
    BY <2>1 DEF Answers, Codes
  <2>3. b.todo \in Requests(b) /\ b.step = "call"
    BY <1>12, WholeRequest DEF DescribeTargets, Calling
  <2>4. Tell(b.todo, r)
    BY <1>12 DEF DescribeTargets
  <2> HIDE DEF r
  <2> QED
    BY <1>1, <1>12, <2>1, <2>2, <2>3, <2>4, CloudStays, RequestedInv DEF DescribeTargets
<1> QED
  BY <1>2, <1>3, <1>4, <1>5, <1>6, <1>7, <1>8, <1>9, <1>10, <1>11, <1>12 DEF CloudCall

\* The end of a task, waited for or not, leaves the cloud with its types.
LEMMA TaskEndTyped ==
  ASSUME TypeOK, NEW l \in LBs, task' = [task EXCEPT ![l] = NoTask],
         \/ /\ live' = (live \cup task[l].add) \ task[l].del
            /\ backends' = {k \in backends : k.listener \notin task[l].del}
         \/ UNCHANGED <<live, backends>>
  PROVE  CloudTyped'
<1>1. task[l].add \subseteq Ids
  BY DEF TypeOK
<1>2. live' \subseteq Ids /\ backends' \subseteq Backend
  BY <1>1 DEF TypeOK
<1>3. task' \in [LBs -> [add : SUBSET Ids, del : SUBSET Ids]]
  BY DEF TypeOK, NoTask
<1> QED
  BY <1>2, <1>3 DEF CloudTyped

\* A batch stops waiting for its task, whatever became of it.
LEMMA WaitInv ==
  ASSUME Inv, NEW b \in batches, WaitSucceeds(b) \/ WaitFails(b) \/ WaitGivesUp(b)
  PROVE  Inv'
<1> DEFINE new == [b EXCEPT !.step = "answer"]
<1>1. TypeOK /\ b \in Batches /\ b.lb \in LBs
  BY DEF Inv, TypeOK, Batches
<1>2. b.step = "wait" /\ Advance(b, new) /\ UNCHANGED <<callVars, queueVars, lock>>
  BY DEF WaitSucceeds, WaitFails, WaitGivesUp
<1>3. b.op # "targets"
  BY <1>2 DEF Inv, Shape, InBatch
<1>4. UNCHANGED answer \/ TellAll(b.request, "err")
  BY DEF WaitSucceeds, WaitFails, WaitGivesUp
<1>5. CloudTyped'
  <2>1. CASE WaitGivesUp(b)
    BY <1>1, <2>1, CloudStays DEF WaitGivesUp
  <2>2. CASE WaitSucceeds(b) \/ WaitFails(b)
    BY <1>1, <2>2, TaskEndTyped DEF WaitSucceeds, WaitFails
  <2> QED
    BY <2>1, <2>2
<1>6. /\ new.op = b.op /\ new.lb = b.lb /\ new.calls = b.calls /\ new.todo = b.todo
      /\ new.request = b.request /\ new.step = "answer" /\ new \in Batches
  BY <1>1 DEF Batches
<1> HIDE DEF new
<1> QED
  BY <1>2, <1>3, <1>4, <1>5, <1>6, AdvanceInv

\* A task that ends by itself concerns the cloud only.
LEMMA TaskEndsInv ==
  ASSUME Inv, NEW l \in LBs, TaskEnds(l)
  PROVE  Inv'
<1>1. CloudTyped'
  BY TaskEndTyped DEF Inv, TaskEnds
<1>2. UNCHANGED <<pc, op, arg, again, answer, channel, tasks, batches, lock>>
  BY DEF TaskEnds, callVars, queueVars
<1>3. TypeOK'
  BY <1>1, <1>2 DEF Inv, TypeOK, CloudTyped
<1>4. Passed' /\ Shape'
  BY <1>2 DEF Inv, Passed, Shape, Queued, InBatch, Apart, Somewhere, Locked, OneWriter, Unanswered
<1> QED
  BY <1>3, <1>4 DEF Inv

-----------------------------------------------------------------------------
(* The lock.                                                               *)

\* A batch takes the free lock of its load balancer: no other batch that writes has passed it.
LEMMA LockInv ==
  ASSUME Inv, NEW b \in batches, LockLb(b)
  PROVE  Inv'
<1> DEFINE new == [b EXCEPT !.step = "call"]
<1>1. TypeOK /\ Passed /\ Shape /\ b \in Batches
  BY DEF Inv, TypeOK
<1>2. /\ b.step = "lock" /\ lock[b.lb] = {} /\ lock' = [lock EXCEPT ![b.lb] = b.calls]
      /\ batches' = (batches \ {b}) \cup {new}
      /\ UNCHANGED <<live, backends, task, pc, op, arg, again, answer, channel, tasks>>
  BY DEF LockLb, Advance, cloudVars, callVars, queueVars
<1>3. /\ new.op = b.op /\ new.lb = b.lb /\ new.calls = b.calls /\ new.todo = b.todo
      /\ new.request = b.request /\ new.step = "call" /\ new \in Batches
  BY <1>1 DEF Batches
<1> HIDE DEF new
<1>4. Unanswered(new) = Unanswered(b)
  BY <1>3 DEF Unanswered
<1>5. TypeOK'
  BY <1>1, <1>2, <1>3 DEF TypeOK, Batches
<1>6. Queued' /\ Passed'
  BY <1>1, <1>2 DEF Shape, Queued, Passed
<1>7. InBatch'
  BY <1>1, <1>2, <1>3 DEF Shape, InBatch, Unanswered
<1>8. Apart'
  BY <1>1, <1>2, <1>3 DEF Shape, Apart, Unanswered
<1>9. Somewhere'
  BY <1>1, <1>2, <1>3 DEF Shape, Somewhere, Unanswered
<1>10. Locked'
  <2>1. b.calls # {} /\ \A l \in LBs : lock'[l] = IF l = b.lb THEN b.calls ELSE lock[l]
    BY <1>1, <1>2 DEF TypeOK, Shape, Locked
  <2>2. \A d \in batches' : d.lb \in LBs
    BY <1>5 DEF TypeOK, Batches
  <2> QED
    BY <1>1, <1>2, <1>3, <2>1, <2>2 DEF Shape, Locked
<1>11. OneWriter'
  <2>1. \A d \in batches : d.op \in Writes /\ d.step # "lock" => d.lb # b.lb
    BY <1>1, <1>2 DEF Shape, Locked
  <2> QED
    BY <1>1, <1>2, <1>3, <2>1 DEF Shape, OneWriter
<1> QED
  BY <1>5, <1>6, <1>7, <1>8, <1>9, <1>10, <1>11 DEF Inv, Shape

-----------------------------------------------------------------------------
(* The callers.                                                            *)

\* A caller that neither waited nor waits now is in no queue and no batch.
LEMMA CallerShape ==
  ASSUME Inv, NEW c \in Calls, pc[c] # "sent", pc'[c] # "sent",
         \A d \in Calls \ {c} : pc'[d] = pc[d] /\ op'[d] = op[d],
         UNCHANGED <<channel, tasks, batches, lock>>
  PROVE  Shape'
<1>1. Shape /\ TypeOK
  BY DEF Inv
<1>2. \A a \in Apis : channel[a] \subseteq Calls /\ tasks[a] \subseteq Calls
  BY <1>1 DEF TypeOK
<1>3. \A b \in batches : Unanswered(b) \subseteq Calls
  BY <1>1 DEF TypeOK, Batches, Unanswered
<1>4. Queued'
  BY <1>1, <1>2 DEF Shape, Queued
<1>5. InBatch'
  BY <1>1, <1>3 DEF Shape, InBatch, Unanswered
<1>6. Apart' /\ Somewhere' /\ Locked' /\ OneWriter'
  BY <1>1 DEF Shape, Apart, Somewhere, Locked, OneWriter, Unanswered
<1> QED
  BY <1>4, <1>5, <1>6 DEF Shape

\* A lookup by port, and what the caller makes of it.
LEMMA FindByPortInv ==
  ASSUME Inv, NEW c \in Calls, FindByPort(c)
  PROVE  Inv'
<1>1. TypeOK /\ Passed /\ pc[c] = "ready" /\ op[c] = "byPort" /\ AtPlace(c) \subseteq Ids
  BY DEF Inv, TypeOK, FindByPort, AtPlace
<1>2. UNCHANGED <<live, backends, task, channel, tasks, batches, lock>>
  BY DEF FindByPort, cloudVars, queueVars
<1>3. /\ pc' \in [Calls -> {"off", "ready", "sent", "done"}] /\ op' \in [Calls -> Operations]
      /\ arg' \in [Calls -> SUBSET (Ids \cup Targets)] /\ again' \in [Calls -> BOOLEAN]
      /\ answer' \in [Calls -> Answers]
      /\ pc'[c] # "sent"
      /\ \A d \in Calls \ {c} :
           pc'[d] = pc[d] /\ op'[d] = op[d] /\ arg'[d] = arg[d] /\ answer'[d] = answer[d]
      /\ \/ op'[c] \in {"byPort", "create", "createOne"}
         \/ op'[c] = "deleteOne" /\ arg'[c] \subseteq Ids
  <2>1. CASE \E r \in Answers : Return(c, r)
    BY <1>1, <2>1 DEF Return, TypeOK
  <2>2. CASE /\ Issue(c, FirstOp(c)) /\ FirstOp(c) \in {"create", "createOne"}
             /\ again' = [again EXCEPT ![c] = TRUE] /\ UNCHANGED <<arg, answer>>
    BY <1>1, <2>2 DEF Issue, TypeOK, Operations, Apis, Single
  <2>3. CASE /\ Issue(c, "deleteOne") /\ arg' = [arg EXCEPT ![c] = AtPlace(c)]
             /\ UNCHANGED <<again, answer>>
    BY <1>1, <2>3 DEF Issue, TypeOK, Operations, Single
  <2>4. Say("err") \in Answers /\ Say("ok") \in Answers /\ [code |-> "ok", value |-> AtPlace(c)] \in Answers
    BY <1>1, Typing DEF Codes, Answers
  <2>5. Kind[c] \in CreateKinds => FirstOp(c) \in {"create", "createOne"}
    BY Typing
  <2> QED
    BY <2>1, <2>2, <2>3, <2>4, <2>5 DEF FindByPort
<1>4. TypeOK'
  BY <1>1, <1>2, <1>3 DEF TypeOK
<1>5. Passed'
  BY <1>1, <1>3 DEF Passed
<1>6. Shape'
  BY <1>1, <1>2, <1>3, CallerShape
<1> QED
  BY <1>4, <1>5, <1>6 DEF Inv

\* A call is put in the channel of its API.
LEMMA SendInv ==
  ASSUME Inv, NEW c \in Calls, Send(c)
  PROVE  Inv'
<1>1. TypeOK /\ Passed /\ Shape /\ pc[c] = "ready" /\ op[c] \in Apis
  BY DEF Inv, Send
<1>2. /\ UNCHANGED <<live, backends, task, op, arg, again, answer, tasks, batches, lock>>
      /\ channel' = [channel EXCEPT ![op[c]] = @ \cup {c}] /\ pc' = [pc EXCEPT ![c] = "sent"]
  BY DEF Send, cloudVars
<1>3. \A a \in Apis : channel'[a] = IF a = op[c] THEN channel[a] \cup {c} ELSE channel[a]
  BY <1>1, <1>2 DEF TypeOK
<1>4. \A d \in Calls : pc'[d] = IF d = c THEN "sent" ELSE pc[d]
  BY <1>1, <1>2 DEF TypeOK
<1>5. TypeOK'
  BY <1>1, <1>2 DEF TypeOK
<1>6. Passed'
  BY <1>1, <1>2 DEF Passed
<1>7. \A a \in Apis : c \notin channel[a] \cup tasks[a] /\ channel[a] \cup tasks[a] \subseteq Calls
  BY <1>1 DEF Shape, Queued, TypeOK
<1>8. \A b \in batches : c \notin Unanswered(b) /\ Unanswered(b) \subseteq Calls
  BY <1>1 DEF Shape, InBatch, TypeOK, Batches, Unanswered
<1>9. Queued'
  BY <1>1, <1>2, <1>3, <1>4, <1>7 DEF Shape, Queued
<1>10. InBatch'
  BY <1>1, <1>2, <1>3, <1>4, <1>8 DEF Shape, InBatch, Unanswered
<1>11. Somewhere'
  BY <1>1, <1>2, <1>3, <1>4 DEF Shape, Somewhere, Unanswered
<1>12. Apart' /\ Locked' /\ OneWriter'
  BY <1>1, <1>2 DEF Shape, Apart, Locked, OneWriter, Unanswered
<1> QED
  BY <1>5, <1>6, <1>9, <1>10, <1>11, <1>12 DEF Inv, Shape

\* Calls that are in no batch become batches of their own: blocks apart from each other, that
\* wait for the lock where they write.
NewBatches(N, a, T) ==
  /\ N \subseteq Batches
  /\ \A n \in N : n.op = a /\ n.request = {} /\ n.calls # {} /\ n.todo \subseteq T
  /\ \A n \in N : n.step = IF a \in Writes THEN "lock" ELSE "call"
  /\ \A m, n \in N : m # n => m.todo \cap n.todo = {}
  /\ \A c \in T : \E n \in N : c \in n.todo

\* They preserve what is said about batches.
LEMMA NewBatchesShape ==
  ASSUME Inv, NEW N, NEW a, NEW T, NewBatches(N, a, T), batches' = batches \cup N,
         \A b \in batches : Unanswered(b) \cap T = {},
         \A c \in T : pc'[c] = "sent" /\ op[c] = a /\ \A x \in Apis : c \notin channel'[x] \cup tasks'[x],
         \A c \in Calls \ T : pc'[c] = pc[c],
         \A x \in Apis : channel'[x] \cup tasks'[x] = (channel[x] \cup tasks[x]) \ T,
         UNCHANGED <<op, lock>>
  PROVE  InBatch' /\ Apart' /\ Somewhere' /\ Locked' /\ OneWriter'
<1>1. Shape /\ TypeOK
  BY DEF Inv
<1>2. \A n \in N : Unanswered(n) = n.todo /\ n.todo \subseteq T /\ n.request = {} /\ n.op = a
  BY DEF NewBatches, Unanswered
<1>3. \A b \in batches : Unanswered(b) \subseteq Calls \ T
  BY <1>1 DEF TypeOK, Batches, Unanswered
<1>4. InBatch'
  <2>1. \A n \in N : n.todo \cap n.request = {} /\ n.step # "wait"
    BY <1>2 DEF NewBatches
  <2>2. \A n \in N : \A c \in Unanswered(n) :
           pc'[c] = "sent" /\ op'[c] = n.op /\ \A x \in Apis : c \notin channel'[x] \cup tasks'[x]
    BY <1>2
  <2>3. \A b \in batches : \A c \in Unanswered(b) :
           pc'[c] = "sent" /\ op'[c] = b.op /\ \A x \in Apis : c \notin channel'[x] \cup tasks'[x]
    BY <1>1, <1>3 DEF Shape, InBatch
  <2>4. \A b \in batches : /\ b.todo \cap b.request = {}
                           /\ b.step \in {"lock", "call"} => b.request = {}
                           /\ b.step = "wait" => b.op # "targets"
    BY <1>1 DEF Shape, InBatch
  <2> QED
    BY <1>2, <2>1, <2>2, <2>3, <2>4 DEF InBatch, Unanswered
<1>5. Apart'
  <2>1. \A m, n \in N : m # n => Unanswered(m) \cap Unanswered(n) = {}
    BY <1>2 DEF NewBatches
  <2>2. \A b \in batches, n \in N : Unanswered(b) \cap Unanswered(n) = {}
    BY <1>2, <1>3
  <2>3. \A b, d \in batches : b # d => Unanswered(b) \cap Unanswered(d) = {}
    BY <1>1 DEF Shape, Apart
  <2> QED
    BY <2>1, <2>2, <2>3 DEF Apart, Unanswered
<1>6. Somewhere'
  <2> SUFFICES ASSUME NEW c \in Calls, pc'[c] = "sent"
               PROVE  \/ \E x \in Apis : c \in channel'[x] \cup tasks'[x]
                      \/ \E b \in batches' : c \in Unanswered(b)
    BY DEF Somewhere, Unanswered
  <2>1. CASE c \in T
    BY <1>2, <2>1 DEF NewBatches
  <2>2. CASE c \notin T
    BY <1>1, <2>2 DEF Shape, Somewhere
  <2> QED
    BY <2>1, <2>2
<1>7. Locked'
  BY <1>1 DEF Shape, Locked, NewBatches
<1>8. OneWriter'
  BY <1>1 DEF Shape, OneWriter, NewBatches
<1> QED
  BY <1>4, <1>5, <1>6, <1>7, <1>8

\* A write that is not batched.
LEMMA CallDirectlyInv ==
  ASSUME Inv, NEW c \in Calls, CallDirectly(c)
  PROVE  Inv'
<1> DEFINE new == NewBatch(op[c], Lb[c], {c})
<1>1. TypeOK /\ Passed /\ Shape /\ pc[c] = "ready" /\ op[c] \in Single
  BY DEF Inv, CallDirectly
<1>2. /\ UNCHANGED <<live, backends, task, op, arg, again, answer, channel, tasks, lock>>
      /\ batches' = batches \cup {new} /\ pc' = [pc EXCEPT ![c] = "sent"]
  BY DEF CallDirectly, cloudVars, queueVars
<1>3. \A d \in Calls : pc'[d] = IF d = c THEN "sent" ELSE pc[d]
  BY <1>1, <1>2 DEF TypeOK
<1>4. NewBatches({new}, op[c], {c})
  <2>1. Lb[c] \in LBs /\ 0 \in 0..InOperatingRetryMax
    BY ConstantsAssumption, LimitsAssumption DEF Ids
  <2> QED
    BY <1>1, <2>1 DEF NewBatches, NewBatch, Batches
<1> HIDE DEF new
<1>5. TypeOK'
  BY <1>1, <1>2, <1>4 DEF TypeOK, NewBatches
<1>6. Passed'
  BY <1>1, <1>2 DEF Passed
<1>7. \A a \in Apis : c \notin channel[a] \cup tasks[a] /\ channel[a] \cup tasks[a] \subseteq Calls
  BY <1>1 DEF Shape, Queued, TypeOK
<1>8. \A b \in batches : Unanswered(b) \cap {c} = {}
  BY <1>1 DEF Shape, InBatch
<1>9. Queued'
  BY <1>1, <1>2, <1>3, <1>7 DEF Shape, Queued
<1>10. InBatch' /\ Apart' /\ Somewhere' /\ Locked' /\ OneWriter'
  <2>1. \A d \in {c} : pc'[d] = "sent" /\ op[d] = op[c]
                       /\ \A x \in Apis : d \notin channel'[x] \cup tasks'[x]
    BY <1>2, <1>3, <1>7
  <2>2. \A d \in Calls \ {c} : pc'[d] = pc[d]
    BY <1>3
  <2>3. \A x \in Apis : channel'[x] \cup tasks'[x] = (channel[x] \cup tasks[x]) \ {c}
    BY <1>2, <1>7
  <2> QED
    BY <1>2, <1>4, <1>8, <2>1, <2>2, <2>3, NewBatchesShape
<1> QED
  BY <1>5, <1>6, <1>9, <1>10 DEF Inv, Shape

-----------------------------------------------------------------------------
(* The processors.                                                         *)

\* What a processor makes of the calls it has: no call is left out or in two batches.
LEMMA FlushBatches ==
  ASSUME NEW a \in Apis, NEW T \in SUBSET Calls, Flush(a, T)
  PROVE  \E N : NewBatches(N, a, T) /\ batches' = batches \cup N
<1>1. PICK P \in Chunkings(T, MaxTaskOneBatch[a]) :
        batches' = batches \cup {NewBatch(a, Lb[CHOOSE c \in C : TRUE], C) : C \in P}
  BY DEF Flush
<1> DEFINE block(C) == NewBatch(a, Lb[CHOOSE c \in C : TRUE], C)
           N == {block(C) : C \in P}
<1>2. /\ \A C \in P : C \subseteq T /\ C # {}
      /\ UNION P = T
      /\ \A C, D \in P : C # D => C \cap D = {}
  BY <1>1 DEF Chunkings, Blocks
<1>3. \A C \in P : block(C) \in Batches
  <2> SUFFICES ASSUME NEW C \in P PROVE block(C) \in Batches
    OBVIOUS
  <2>1. (CHOOSE c \in C : TRUE) \in Calls
    BY <1>2
  <2>2. Lb[CHOOSE c \in C : TRUE] \in LBs /\ 0 \in 0..InOperatingRetryMax /\ C \subseteq Calls
    BY <1>2, <2>1, ConstantsAssumption, LimitsAssumption DEF Ids
  <2> QED
    BY <2>2 DEF NewBatch, Batches
<1>4. \A C \in P : /\ block(C).op = a /\ block(C).request = {} /\ block(C).calls = C
                   /\ block(C).todo = C
                   /\ block(C).step = IF a \in Writes THEN "lock" ELSE "call"
  BY DEF NewBatch
<1> HIDE DEF block
<1>5. N \subseteq Batches
  BY <1>3
<1>6. \A n \in N : n.op = a /\ n.request = {} /\ n.calls # {} /\ n.todo \subseteq T
  BY <1>2, <1>4
<1>7. \A n \in N : n.step = IF a \in Writes THEN "lock" ELSE "call"
  BY <1>4
<1>8. \A m, n \in N : m # n => m.todo \cap n.todo = {}
  <2> SUFFICES ASSUME NEW C \in P, NEW D \in P, block(C) # block(D)
               PROVE  block(C).todo \cap block(D).todo = {}
    OBVIOUS
  <2>1. C # D
    OBVIOUS
  <2> QED
    BY <1>2, <1>4, <2>1
<1>9. \A c \in T : \E n \in N : c \in n.todo
  <2> SUFFICES ASSUME NEW c \in T PROVE \E n \in N : c \in n.todo
    OBVIOUS
  <2>1. PICK C \in P : c \in C
    BY <1>2
  <2>2. block(C) \in N /\ c \in block(C).todo
    BY <1>4, <2>1
  <2> QED
    BY <2>2
<1>10. batches' = batches \cup N
  BY <1>1 DEF block
<1> HIDE DEF N
<1>11. NewBatches(N, a, T)
  BY <1>5, <1>6, <1>7, <1>8, <1>9 DEF NewBatches
<1> QED
  BY <1>10, <1>11

\* A processor hands over what it has collected, the call it just received among it.
LEMMA FlushInv ==
  ASSUME Inv, NEW a \in Apis, NEW T, T \subseteq channel[a] \cup tasks[a], tasks[a] \subseteq T,
         Flush(a, T), channel' = [channel EXCEPT ![a] = @ \ T], tasks' = [tasks EXCEPT ![a] = {}],
         UNCHANGED <<cloudVars, callVars, answer, lock>>
  PROVE  Inv'
<1>1. TypeOK /\ Passed /\ Shape
  BY DEF Inv
<1>2. UNCHANGED <<live, backends, task, pc, op, arg, again, answer, lock>>
  BY DEF cloudVars, callVars
<1>3. \A x \in Apis : channel[x] \cup tasks[x] \subseteq Calls
  BY <1>1 DEF TypeOK
<1>4. \A c \in T : pc[c] = "sent" /\ op[c] = a
  BY <1>1 DEF Shape, Queued
<1>5. \A x \in Apis : /\ channel'[x] = IF x = a THEN channel[x] \ T ELSE channel[x]
                      /\ tasks'[x] = IF x = a THEN {} ELSE tasks[x]
  BY <1>1 DEF TypeOK
<1>6. \A x \in Apis : channel'[x] \cup tasks'[x] = (channel[x] \cup tasks[x]) \ T
  <2> SUFFICES ASSUME NEW x \in Apis
               PROVE  channel'[x] \cup tasks'[x] = (channel[x] \cup tasks[x]) \ T
    OBVIOUS
  <2>1. CASE x = a
    BY <1>5, <2>1
  <2>2. CASE x # a
    <3>1. \A c \in channel[x] \cup tasks[x] : op[c] = x
      BY <1>1 DEF Shape, Queued
    <3> QED
      BY <1>4, <1>5, <2>2, <3>1
  <2> QED
    BY <2>1, <2>2
<1>7. PICK N : NewBatches(N, a, T) /\ batches' = batches \cup N
  BY <1>3, FlushBatches
<1>8. \A b \in batches : Unanswered(b) \cap T = {}
  BY <1>1 DEF Shape, InBatch
<1>9. InBatch' /\ Apart' /\ Somewhere' /\ Locked' /\ OneWriter'
  <2>1. \A c \in T : pc'[c] = "sent" /\ op[c] = a
                     /\ \A x \in Apis : c \notin channel'[x] \cup tasks'[x]
    BY <1>2, <1>4, <1>6
  <2> QED
    BY <1>2, <1>6, <1>7, <1>8, <2>1, NewBatchesShape
<1>10. Queued'
  <2>1. \A x \in Apis : \A c \in channel'[x] \cup tasks'[x] : pc'[c] = "sent" /\ op'[c] = x
    BY <1>1, <1>2, <1>6 DEF Shape, Queued
  <2>2. \A x \in Apis : channel'[x] \cap tasks'[x] = {}
    BY <1>1, <1>5 DEF Shape, Queued
  <2> QED
    BY <2>1, <2>2 DEF Queued
<1>11. TypeOK'
  <2>1. channel' \in [Apis -> SUBSET Calls] /\ tasks' \in [Apis -> SUBSET Calls]
    BY <1>1 DEF TypeOK
  <2>2. batches' \in SUBSET Batches
    BY <1>1, <1>7 DEF TypeOK, NewBatches
  <2> QED
    BY <1>1, <1>2, <2>1, <2>2 DEF TypeOK
<1>12. Passed'
  BY <1>1, <1>2 DEF Passed
<1> QED
  BY <1>9, <1>10, <1>11, <1>12 DEF Inv, Shape

\* Both ways a processor is woken.
LEMMA ProcessorInv ==
  ASSUME Inv, NEW a \in Apis, Processor(a)
  PROVE  Inv'
<1>1. TypeOK /\ Passed /\ Shape
  BY DEF Inv
<1>2. CASE Timer(a)
  <2>1. channel' = [channel EXCEPT ![a] = @ \ tasks[a]]
    <3>1. channel[a] \ tasks[a] = channel[a]
      BY <1>1 DEF Shape, Queued
    <3> QED
      BY <1>1, <1>2, <3>1 DEF Timer, TypeOK
  <2> QED
    BY <1>2, <2>1, FlushInv DEF Timer
<1>3. ASSUME NEW c \in channel[a], Receive(a, c)
      PROVE  Inv'
  <2>1. c \notin tasks[a] /\ channel' = [channel EXCEPT ![a] = @ \ {c}]
    BY <1>1, <1>3 DEF Receive, Shape, Queued
  <2>2. CASE Cardinality(tasks[a] \cup {c}) >= MaxAccumulatedTask
    <3>1. channel' = [channel EXCEPT ![a] = @ \ (tasks[a] \cup {c})]
      <4>1. channel[a] \ {c} = channel[a] \ (tasks[a] \cup {c})
        BY <1>1 DEF Shape, Queued
      <4> QED
        BY <1>1, <2>1, <4>1 DEF TypeOK
    <3> QED
      BY <1>3, <2>2, <3>1, FlushInv DEF Receive
  <2>3. CASE ~(Cardinality(tasks[a] \cup {c}) >= MaxAccumulatedTask)
    <3>1. /\ tasks' = [tasks EXCEPT ![a] = @ \cup {c}]
          /\ UNCHANGED <<live, backends, task, pc, op, arg, again, answer, batches, lock>>
      BY <1>3, <2>3 DEF Receive, cloudVars, callVars
    <3>2. \A x \in Apis : channel'[x] \cup tasks'[x] = channel[x] \cup tasks[x]
      BY <1>1, <1>3, <2>1, <3>1 DEF TypeOK
    <3>3. \A x \in Apis : channel'[x] \cap tasks'[x] = {}
      BY <1>1, <1>3, <2>1, <3>1 DEF TypeOK, Shape, Queued
    <3>4. TypeOK' /\ Passed'
      BY <1>1, <2>1, <3>1 DEF TypeOK, Passed
    <3>5. Queued'
      BY <1>1, <3>1, <3>2, <3>3 DEF Shape, Queued
    <3>6. InBatch' /\ Somewhere'
      BY <1>1, <3>1, <3>2 DEF Shape, InBatch, Somewhere, Unanswered
    <3>7. Apart' /\ Locked' /\ OneWriter'
      BY <1>1, <3>1 DEF Shape, Apart, Locked, OneWriter, Unanswered
    <3> QED
      BY <3>4, <3>5, <3>6, <3>7 DEF Inv, Shape
  <2> QED
    BY <2>2, <2>3
<1> QED
  BY <1>2, <1>3 DEF Processor

-----------------------------------------------------------------------------
(* The answers.                                                            *)

\* A caller that has its answer waits no longer, and passes on what it was told.
LEMMA ResumeFacts ==
  ASSUME Inv, NEW c \in Calls, Resume(c), UNCHANGED answer
  PROVE  /\ pc' \in [Calls -> {"off", "ready", "sent", "done"}] /\ op' \in [Calls -> Operations]
         /\ arg' \in [Calls -> SUBSET (Ids \cup Targets)] /\ again' \in [Calls -> BOOLEAN]
         /\ pc'[c] # "sent" /\ \A d \in Calls \ {c} : pc'[d] = pc[d] /\ op'[d] = op[d]
         /\ Passed'
<1>1. TypeOK /\ Passed
  BY DEF Inv
<1>2. CASE NextOp(c) = "none"
  BY <1>1, <1>2 DEF Resume, TypeOK, Passed
<1>3. CASE NextOp(c) # "none"
  <2>1. /\ pc' = [pc EXCEPT ![c] = "ready"] /\ op' = [op EXCEPT ![c] = NextOp(c)]
        /\ arg' = [arg EXCEPT ![c] = answer[c].value] /\ UNCHANGED again
    BY <1>3 DEF Resume, Issue
  <2>2. NextOp(c) = "byPort" \/ (NextOp(c) = "deregister" /\ op[c] = "targets")
    <3>1. CASE op[c] \in {"create", "createOne"}
      BY <1>3, <3>1 DEF NextOp
    <3>2. CASE op[c] = "delete"
      BY <1>3, <3>2 DEF NextOp
    <3>3. CASE op[c] = "targets"
      BY <1>3, <3>3 DEF NextOp
    <3>4. CASE op[c] \notin {"create", "createOne", "delete", "targets"}
      BY <1>3, <3>4 DEF NextOp
    <3> QED
      BY <3>1, <3>2, <3>3, <3>4
  <2>3. answer[c].value \subseteq Ids \cup Targets
    BY <1>1 DEF TypeOK, Answers
  <2>4. NextOp(c) \in Operations
    BY <2>2 DEF Operations, Apis
  <2>5. \A d \in Calls \ {c} : pc'[d] = pc[d] /\ op'[d] = op[d] /\ arg'[d] = arg[d]
    BY <1>1, <2>1 DEF TypeOK
  <2>6. pc'[c] = "ready" /\ op'[c] = NextOp(c) /\ arg'[c] = answer[c].value
    BY <1>1, <2>1 DEF TypeOK
  <2>7. Passed'
    <3>1. op[c] = "targets" => answer[c].value \subseteq Targets
      BY <1>1 DEF Passed
    <3> QED
      BY <1>1, <2>2, <2>5, <2>6, <3>1 DEF Passed
  <2> QED
    BY <1>1, <2>1, <2>3, <2>4, <2>5, <2>6, <2>7 DEF TypeOK
<1> QED
  BY <1>2, <1>3

\* A batch that is left, with fewer calls, or ended.
LEMMA DeliverShape ==
  ASSUME Inv, NEW b \in batches, NEW c \in Unanswered(b), c \in Calls,
         NEW N, batches' = (batches \ {b}) \cup N,
         \A n \in N : /\ n.op = b.op /\ n.lb = b.lb /\ n.calls = b.calls
                      /\ n.todo \cap n.request = {} /\ Unanswered(n) = Unanswered(b) \ {c}
                      /\ n.step \notin {"lock", "wait"} /\ (n.step = "call" => n.request = {}),
         \A m, n \in N : m = n,
         N = {} => Unanswered(b) = {c},
         b.step # "lock",
         \/ UNCHANGED lock
         \/ N = {} /\ lock' = IF b.op \in Writes THEN [lock EXCEPT ![b.lb] = {}] ELSE lock,
         pc'[c] # "sent", \A d \in Calls \ {c} : pc'[d] = pc[d] /\ op'[d] = op[d],
         UNCHANGED <<channel, tasks>>
  PROVE  Shape'
<1>1. TypeOK /\ Shape
  BY DEF Inv
<1>2. \A d \in batches : Unanswered(d) \subseteq Calls /\ (d # b => c \notin Unanswered(d))
  BY <1>1 DEF TypeOK, Batches, Unanswered, Shape, Apart
<1>3. \A a \in Apis : c \notin channel[a] \cup tasks[a] /\ channel[a] \cup tasks[a] \subseteq Calls
  BY <1>1 DEF Shape, InBatch, TypeOK
<1>4. Queued'
  BY <1>1, <1>3 DEF Shape, Queued
<1>5. InBatch'
  <2>1. \A d \in batches \ {b} : \A e \in Unanswered(d) :
          pc'[e] = "sent" /\ op'[e] = d.op /\ \A a \in Apis : e \notin channel'[a] \cup tasks'[a]
    BY <1>1, <1>2 DEF Shape, InBatch
  <2>2. \A n \in N : \A e \in Unanswered(n) :
          pc'[e] = "sent" /\ op'[e] = n.op /\ \A a \in Apis : e \notin channel'[a] \cup tasks'[a]
    BY <1>1, <1>2 DEF Shape, InBatch
  <2>3. \A d \in batches : /\ d.todo \cap d.request = {}
                           /\ d.step \in {"lock", "call"} => d.request = {}
                           /\ d.step = "wait" => d.op # "targets"
    BY <1>1 DEF Shape, InBatch
  <2> QED
    BY <2>1, <2>2, <2>3 DEF InBatch, Unanswered
<1>6. Apart'
  <2>1. \A n \in N : \A d \in batches \ {b} : Unanswered(n) \cap Unanswered(d) = {}
    BY <1>1 DEF Shape, Apart
  <2> QED
    BY <1>1, <2>1 DEF Shape, Apart, Unanswered
<1>7. Somewhere'
  <2> SUFFICES ASSUME NEW e \in Calls, pc'[e] = "sent"
               PROVE  \/ \E a \in Apis : e \in channel'[a] \cup tasks'[a]
                      \/ \E d \in batches' : e \in Unanswered(d)
    BY DEF Somewhere, Unanswered
  <2>1. e # c /\ pc[e] = "sent"
    OBVIOUS
  <2>2. CASE \E a \in Apis : e \in channel[a] \cup tasks[a]
    BY <2>2
  <2>3. CASE \E d \in batches \ {b} : e \in Unanswered(d)
    BY <2>3
  <2>4. CASE e \in Unanswered(b)
    BY <2>1, <2>4
  <2> QED
    BY <1>1, <2>1, <2>2, <2>3, <2>4 DEF Shape, Somewhere
<1>8. OneWriter'
  BY <1>1 DEF Shape, OneWriter
<1>9. Locked'
  <2>1. \A d \in batches' : d.calls # {}
    BY <1>1 DEF Shape, Locked
  <2> SUFFICES ASSUME NEW d \in batches', d.op \in Writes, d.step # "lock"
               PROVE  lock'[d.lb] # {}
    BY <2>1 DEF Locked
  <2>2. CASE UNCHANGED lock
    BY <1>1, <2>2 DEF Shape, Locked
  <2>3. CASE N = {} /\ lock' = IF b.op \in Writes THEN [lock EXCEPT ![b.lb] = {}] ELSE lock
    <3>1. d \in batches /\ d # b
      BY <2>3
    <3>2. b.op \in Writes => d.lb # b.lb
      BY <1>1, <3>1 DEF Shape, OneWriter
    <3>3. d.lb \in LBs
      BY <1>1, <3>1 DEF TypeOK, Batches
    <3>4. lock'[d.lb] = lock[d.lb]
      BY <1>1, <2>3, <3>2, <3>3 DEF TypeOK
    <3> QED
      BY <1>1, <3>1, <3>4 DEF Shape, Locked
  <2> QED
    BY <2>2, <2>3
<1> QED
  BY <1>4, <1>5, <1>6, <1>7, <1>8, <1>9 DEF Shape

\* The batch and the caller meet.
LEMMA DeliverInv ==
  ASSUME Inv, NEW b \in batches, NEW c \in b.request, Deliver(b, c)
  PROVE  Inv'
<1>1. TypeOK /\ Passed /\ Shape /\ b \in Batches /\ c \in Calls /\ c \in Unanswered(b)
  BY DEF Inv, TypeOK, Batches, Unanswered
<1>2. /\ b.step = "answer" /\ Resume(c)
      /\ UNCHANGED <<live, backends, task, answer, channel, tasks>>
  BY DEF Deliver, cloudVars, queueVars
<1>3. /\ pc' \in [Calls -> {"off", "ready", "sent", "done"}] /\ op' \in [Calls -> Operations]
      /\ arg' \in [Calls -> SUBSET (Ids \cup Targets)] /\ again' \in [Calls -> BOOLEAN]
      /\ pc'[c] # "sent" /\ \A d \in Calls \ {c} : pc'[d] = pc[d] /\ op'[d] = op[d]
      /\ Passed'
  BY <1>1, <1>2, ResumeFacts
<1>4. b.todo \cap b.request = {}
  BY <1>1 DEF Shape, InBatch
<1>5. CASE b.request # {c} \/ b.todo # {}
  <2>1. PICK new : /\ \/ new = [b EXCEPT !.request = @ \ {c}]
                      \/ new = [b EXCEPT !.request = {}, !.step = "call"] /\ b.request = {c}
                   /\ batches' = (batches \ {b}) \cup {new} /\ UNCHANGED lock
    BY <1>5 DEF Deliver, Advance
  <2>2. /\ new \in Batches /\ new.op = b.op /\ new.lb = b.lb /\ new.calls = b.calls
        /\ new.todo = b.todo /\ new.request = b.request \ {c}
        /\ new.step \in {"answer", "call"} /\ (new.step = "call" => new.request = {})
    BY <1>1, <1>2, <2>1 DEF Batches
  <2>3. Unanswered(new) = Unanswered(b) \ {c} /\ new.todo \cap new.request = {}
    BY <1>4, <2>2 DEF Unanswered
  <2>4. Shape'
    <3> DEFINE N == {new}
    <3>1. batches' = (batches \ {b}) \cup N /\ N # {} /\ \A m, n \in N : m = n
      BY <2>1
    <3>2. \A n \in N : /\ n.op = b.op /\ n.lb = b.lb /\ n.calls = b.calls
                       /\ n.todo \cap n.request = {} /\ Unanswered(n) = Unanswered(b) \ {c}
                       /\ n.step \notin {"lock", "wait"} /\ (n.step = "call" => n.request = {})
      BY <2>2, <2>3
    <3> HIDE DEF N
    <3> QED
      BY <1>1, <1>2, <1>3, <2>1, <3>1, <3>2, DeliverShape
  <2>5. TypeOK'
    BY <1>1, <1>2, <1>3, <2>1, <2>2 DEF TypeOK
  <2> QED
    BY <1>3, <2>4, <2>5 DEF Inv
<1>6. CASE b.request = {c} /\ b.todo = {}
  <2>1. End(b)
    BY <1>6 DEF Deliver
  <2>2. Unanswered(b) = {c}
    BY <1>6 DEF Unanswered
  <2>3. Shape'
    <3>1. PICK N : N = {}
      OBVIOUS
    <3>2. batches' = (batches \ {b}) \cup N
      BY <2>1, <3>1 DEF End
    <3>3. lock' = IF b.op \in Writes THEN [lock EXCEPT ![b.lb] = {}] ELSE lock
      BY <2>1 DEF End
    <3>4. \A n \in N : /\ n.op = b.op /\ n.lb = b.lb /\ n.calls = b.calls
                       /\ n.todo \cap n.request = {} /\ Unanswered(n) = Unanswered(b) \ {c}
                       /\ n.step \notin {"lock", "wait"} /\ (n.step = "call" => n.request = {})
      BY <3>1
    <3>5. \A m, n \in N : m = n
      BY <3>1
    <3>6. b.step # "lock"
      BY <1>2
    <3> QED
      BY <1>1, <1>2, <1>3, <2>2, <3>1, <3>2, <3>3, <3>4, <3>5, <3>6, DeliverShape
  <2>4. TypeOK'
    BY <1>1, <1>2, <1>3, <2>1 DEF TypeOK, End
  <2> QED
    BY <1>3, <2>3, <2>4 DEF Inv
<1> QED
  BY <1>5, <1>6

-----------------------------------------------------------------------------
(* The theorems.                                                           *)

\* Every step preserves the invariant.
LEMMA StepInv == Inv /\ [Next]_vars => Inv'
<1> SUFFICES ASSUME Inv, [Next]_vars PROVE Inv'
  OBVIOUS
<1>1. ASSUME NEW c \in Calls, Caller(c)
      PROVE  Inv'
  BY <1>1, SendInv, CallDirectlyInv, FindByPortInv DEF Caller
<1>2. ASSUME NEW a \in Apis, Processor(a)
      PROVE  Inv'
  BY <1>2, ProcessorInv
<1>3. ASSUME NEW b \in batches, Batch(b)
      PROVE  Inv'
  BY <1>3, LockInv, CloudCallInv, WaitInv, DeliverInv DEF Batch
<1>4. ASSUME NEW l \in LBs, TaskEnds(l)
      PROVE  Inv'
  BY <1>4, TaskEndsInv
<1>5. CASE UNCHANGED vars
  BY <1>5 DEF vars, Inv, TypeOK, Passed, Shape, Queued, InBatch, Apart, Somewhere, Locked,
              OneWriter, Unanswered
<1> QED
  BY <1>1, <1>2, <1>3, <1>4, <1>5 DEF Next

\* The invariant holds in every reachable state.
LEMMA Invariance == Spec => []Inv
BY InitInv, StepInv, PTL DEF Spec

\* Every variable keeps its type: retries stay within their limit, a batch has calls of one
\* operation, and what the cloud holds are listeners and backends.
THEOREM TypeCorrect == Spec => []TypeOK
<1>1. Inv => TypeOK
  BY DEF Inv
<1> QED
  BY <1>1, Invariance, PTL

\* However many calls, batches and load balancers there are, no two batches that write to a
\* load balancer are past its lock.
THEOREM OneWriterCorrect == Spec => []OneWriter
<1>1. Inv => OneWriter
  BY DEF Inv, Shape
<1> QED
  BY <1>1, Invariance, PTL

\* A call that waits is in exactly one channel, task list or batch, any other call in none.
LEMMA InvPlaced == Inv => Placed
<1> SUFFICES ASSUME Inv, NEW c \in Calls
             PROVE  IF pc[c] = "sent" THEN Cardinality(Places(c)) = 1 ELSE Places(c) = {}
  BY DEF Placed
<1>1. TypeOK /\ Shape
  BY DEF Inv
<1>2. ASSUME NEW p \in Places(c)
      PROVE  pc[c] = "sent" /\ Places(c) = {p}
  <2>1. CASE \E a \in Apis : c \in channel[a] /\ p = <<"channel", a>>
    <3>1. PICK a \in Apis : c \in channel[a] /\ p = <<"channel", a>>
      BY <2>1
    <3>2. pc[c] = "sent" /\ op[c] = a
      BY <1>1, <3>1 DEF Shape, Queued
    <3>3. \A x \in Apis : c \notin tasks[x] /\ (c \in channel[x] => x = a)
      BY <1>1, <3>1, <3>2 DEF Shape, Queued
    <3>4. \A b \in batches : c \notin Unanswered(b)
      BY <1>1, <3>1 DEF Shape, InBatch
    <3> QED
      BY <3>1, <3>2, <3>3, <3>4 DEF Places
  <2>2. CASE \E a \in Apis : c \in tasks[a] /\ p = <<"tasks", a>>
    <3>1. PICK a \in Apis : c \in tasks[a] /\ p = <<"tasks", a>>
      BY <2>2
    <3>2. pc[c] = "sent" /\ op[c] = a
      BY <1>1, <3>1 DEF Shape, Queued
    <3>3. \A x \in Apis : c \notin channel[x] /\ (c \in tasks[x] => x = a)
      BY <1>1, <3>1, <3>2 DEF Shape, Queued
    <3>4. \A b \in batches : c \notin Unanswered(b)
      BY <1>1, <3>1 DEF Shape, InBatch
    <3> QED
      BY <3>1, <3>2, <3>3, <3>4 DEF Places
  <2>3. CASE \E b \in batches : c \in Unanswered(b) /\ p = <<"batch", b>>
    <3>1. PICK b \in batches : c \in Unanswered(b) /\ p = <<"batch", b>>
      BY <2>3
    <3>2. pc[c] = "sent" /\ \A x \in Apis : c \notin channel[x] /\ c \notin tasks[x]
      BY <1>1, <3>1 DEF Shape, InBatch
    <3>3. \A d \in batches : c \in Unanswered(d) => d = b
      BY <1>1, <3>1 DEF Shape, Apart
    <3> QED
      BY <3>1, <3>2, <3>3 DEF Places
  <2> QED
    BY <2>1, <2>2, <2>3 DEF Places
<1>3. CASE pc[c] = "sent"
  <2>1. PICK p : p \in Places(c)
    BY <1>1, <1>3 DEF Shape, Somewhere, Places
  <2>2. Places(c) = {p}
    BY <1>2, <2>1
  <2> QED
    BY <1>3, <2>2, FS_Singleton
<1>4. CASE pc[c] # "sent"
  BY <1>2, <1>4
<1> QED
  BY <1>3, <1>4

\* No call is lost on its way and none is answered twice, whatever the sizes and the limits.
THEOREM PlacedCorrect == Spec => []Placed
BY Invariance, InvPlaced, PTL
=============================================================================
