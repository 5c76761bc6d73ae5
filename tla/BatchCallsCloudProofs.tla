----------------------- MODULE BatchCallsCloudProofs -----------------------
(***************************************************************************)
(* Package clb implements CloudCalls, for every number of calls, batches   *)
(* and load balancers: a call that returns success has taken effect and    *)
(* takes none later, and the cloud changes on behalf of calls only.        *)
(***************************************************************************)
EXTENDS BatchCallsProofs

CreateOps == {"create", "createOne"}
TaskOps == CreateOps \cup {"delete", "deleteOne"}

\* A call whose batch waits for the task of its request, and one whose batch is telling answers.
Waiting(c) == \E b \in batches : b.step = "wait" /\ c \in b.request
Answering(c) == \E b \in batches : b.step = "answer" /\ c \in b.request

\* The calls of a batch are for its load balancer, and it waits for the tasks of its kind.
AtHome ==
  \A b \in batches :
    /\ \A c \in Unanswered(b) : Lb[c] = b.lb
    /\ b.step = "wait" => b.op \in TaskOps

\* A call issues the operations of its kind, with what it names.
InRole(c) ==
  /\ op[c] \in CreateOps => Kind[c] \in CreateKinds
  /\ op[c] = "delete" => Kind[c] = "cleanup"
  /\ op[c] = "deleteOne" => Kind[c] \in CleanupKinds
  /\ op[c] = "byPort" => Kind[c] \in CreateKinds \cup CleanupKinds
  /\ op[c] = "register" => Kind[c] = "register" /\ arg[c] = {Target[c]}
  /\ op[c] = "deregister" => Kind[c] = "unbind" \/ (Kind[c] = "deregister" /\ arg[c] = {Target[c]})
  /\ op[c] = "targets" => Kind[c] = "unbind"
  /\ op[c] = "describe" => Kind[c] = "describe"

\* The call returned, or will return what it is being told.
Settles(c) ==
  pc[c] = "done" \/ (Answering(c) /\ op[c] # "targets" /\ answer[c].code \in {"ok", "err"})

\* An error: the call may still take effect.
Failed(c) == Settles(c) /\ answer[c].code = "err"

\* A listener that is not created again.
Once(i) == i \in Old \/ (i \in Calls /\ Kind[i] \in CreateKinds /\ Settles(i))

\* A step does not take back what was told, or is being told and will be kept to.
KeepsWord ==
  \A c \in Calls :
    Settles(c) =>
      /\ answer'[c] = answer[c] /\ op'[c] = op[c]
      /\ pc'[c] = "done" \/ (pc[c] # "done" /\ Answering(c)')

\* What a call that waits is going to be told is what its task does.
Expected(c) ==
  Waiting(c) =>
    /\ op[c] \in TaskOps /\ answer[c].code = "ok"
    /\ op[c] \in CreateOps => c \in task[Lb[c]].add
    /\ op[c] = "delete" => Listener[c] \in task[Lb[c]].del
    /\ op[c] = "deleteOne" => arg[c] \cup AtPlace(c) \subseteq task[Lb[c]].del

\* The operation of a call has had its effect.
Took(c) ==
  /\ op[c] \in CreateOps => c \in live
  /\ op[c] = "delete" => Listener[c] \notin live
  /\ op[c] = "deleteOne" => AtPlace(c) = {}
  /\ op[c] = "register" => Cloud!Named(c) \in backends
  /\ op[c] = "deregister" /\ Kind[c] = "deregister" => Cloud!Named(c) \notin backends

\* What a call is being told is still true, because nothing is under way at its load balancer.
Trusted(c) ==
  Answering(c) /\ op[c] \in Writes /\ answer[c].code \in {"ok", "notFound"} =>
    /\ task[Lb[c]] = NoTask /\ Took(c)
    /\ op[c] \in CreateOps => answer[c].code = "ok"

\* A task works on behalf of calls that wait for it or failed.  It creates listeners at places
\* where there are none, which no deletion names yet.
Underway(l) ==
  /\ task[l].add = {} \/ task[l].del = {}
  /\ \A i \in task[l].add :
       /\ i \in Calls /\ Kind[i] \in CreateKinds /\ Lb[i] = l /\ AtPlace(i) = {}
       /\ Waiting(i) \/ Failed(i)
       /\ \A c \in Calls : op[c] = "deleteOne" => i \notin arg[c]
  /\ \A i \in task[l].del :
       /\ Lb[i] = l
       /\ \E c \in Calls : Kind[c] \in CleanupKinds /\ Cloud!At(i, c) /\ (Waiting(c) \/ Failed(c))

\* A deletion by port names all listeners of the place, as long as one of them exists.
Aimed(c) ==
  op[c] = "deleteOne" =>
    /\ arg[c] # {} /\ \A i \in arg[c] : Cloud!At(i, c) /\ Once(i)
    /\ arg[c] \cap live # {} => AtPlace(c) \subseteq arg[c]

CloudInv ==
  /\ AtHome
  /\ \A c \in Calls : InRole(c) /\ Expected(c) /\ Trusted(c) /\ Aimed(c)
  /\ \A l \in LBs : Underway(l)
  /\ \A i \in live : Once(i)

-----------------------------------------------------------------------------
\* What the invariant of the batches says of a call of a batch.
LEMMA CallOfBatch ==
  ASSUME Inv, NEW b \in batches, NEW c \in Unanswered(b)
  PROVE  /\ b \in Batches /\ b.lb \in LBs /\ c \in Calls /\ pc[c] = "sent" /\ op[c] = b.op
         /\ \A d \in batches : c \in Unanswered(d) => d = b
<1>1. b \in Batches /\ InBatch /\ Apart
  BY DEF Inv, TypeOK, Shape
<1>2. b.lb \in LBs /\ c \in Calls
  BY <1>1 DEF Batches, Unanswered
<1>3. pc[c] = "sent" /\ op[c] = b.op
  BY <1>1 DEF InBatch
<1> QED
  BY <1>1, <1>2, <1>3 DEF Apart

\* A call that waits or is told something was sent, and belongs to a batch past the lock.
LEMMA OfBatch ==
  ASSUME Inv, AtHome, NEW c, Waiting(c) \/ Answering(c)
  PROVE  /\ c \in Calls /\ pc[c] = "sent" /\ Lb[c] \in LBs
         /\ \E b \in batches : c \in b.request /\ b.lb = Lb[c] /\ b.op = op[c] /\ b.step # "lock"
                               /\ (Waiting(c) => b.step = "wait") /\ (Answering(c) => b.step = "answer")
<1>1. PICK b \in batches : c \in b.request /\ b.step \in {"wait", "answer"}
  BY DEF Waiting, Answering
<1>2. c \in Unanswered(b)
  BY <1>1 DEF Unanswered
<1>3. \A d \in batches : c \in d.request => d = b
  BY <1>2, CallOfBatch DEF Unanswered
<1> QED
  BY <1>1, <1>2, <1>3, CallOfBatch DEF AtHome, Waiting, Answering

\* A batch that writes is alone at its load balancer: no other call there waits or is told of a
\* write.
LEMMA Alone ==
  ASSUME Inv, AtHome, NEW b \in batches, b.op \in Writes, b.step # "lock",
         NEW c, op[c] \in Writes, Lb[c] = b.lb, Waiting(c) \/ Answering(c)
  PROVE  c \in b.request
<1>1. PICK d \in batches : c \in d.request /\ d.lb = b.lb /\ d.op \in Writes /\ d.step # "lock"
  BY OfBatch
<1>2. OneWriter
  BY DEF Inv, Shape
<1> QED
  BY <1>1, <1>2 DEF OneWriter

\* The places do not move, and the tasks and answers have their types.
LEMMA CloudTypes ==
  ASSUME Inv
  PROVE  /\ live \subseteq Ids /\ task \in [LBs -> [add : SUBSET Ids, del : SUBSET Ids]]
         /\ \A c \in Calls : op[c] \in Operations /\ answer[c] \in Answers /\ Kind[c] \in Kinds
                             /\ Lb[c] \in LBs /\ arg[c] \subseteq Ids \cup Targets
         /\ \A i \in Ids : Lb[i] \in LBs
         /\ Calls \subseteq Ids
BY ConstantsAssumption DEF Inv, TypeOK, Ids

\* What is at the place of a call depends on the listeners of its load balancer.
LEMMA SamePlace ==
  ASSUME NEW c, \A i : Lb[i] = Lb[c] => (i \in live' <=> i \in live)
  PROVE  AtPlace(c)' = AtPlace(c)
BY DEF AtPlace

\* So what failed has failed, and what is not created again is not.
LEMMA Settled ==
  ASSUME KeepsWord
  PROVE  /\ \A c \in Calls : (Settles(c) => Settles(c)') /\ (Failed(c) => Failed(c)')
         /\ \A i : Once(i) => Once(i)'
BY DEF KeepsWord, Settles, Failed, Once

\* Where no listener appears or vanishes, the invariant is kept call by call and task by task.
LEMMA Preserve ==
  ASSUME Inv, CloudInv, UNCHANGED live, AtHome', KeepsWord,
         \A c \in Calls : InRole(c)' /\ Expected(c)' /\ Trusted(c)',
         \A c \in Calls : op'[c] = "deleteOne" =>
           \/ op[c] = "deleteOne" /\ arg'[c] = arg[c]
           \/ arg'[c] = AtPlace(c) /\ AtPlace(c) # {},
         \A l \in LBs :
           \/ Underway(l)'
           \/ task'[l] = task[l] /\ \A c \in Calls : Waiting(c) /\ Lb[c] = l => Waiting(c)' \/ Failed(c)'
  PROVE  CloudInv'
<1>1. \A c : AtPlace(c)' = AtPlace(c)
  BY SamePlace
<1>2. /\ \A c \in Calls : (Settles(c) => Settles(c)') /\ (Failed(c) => Failed(c)')
      /\ \A i : Once(i) => Once(i)'
  BY Settled DEF CloudInv
<1>3. ASSUME NEW c \in Calls
      PROVE  Aimed(c)'
  <2>1. CASE op[c] = "deleteOne" /\ arg'[c] = arg[c]
    BY <1>1, <1>2, <2>1 DEF CloudInv, Aimed, Cloud!At
  <2>2. CASE arg'[c] = AtPlace(c) /\ AtPlace(c) # {}
    BY <1>1, <1>2, <2>2 DEF CloudInv, Aimed, AtPlace, Cloud!At
  <2> QED
    BY <2>1, <2>2 DEF Aimed
<1>4. ASSUME NEW l \in LBs, task'[l] = task[l],
             \A c \in Calls : Waiting(c) /\ Lb[c] = l => Waiting(c)' \/ Failed(c)'
      PROVE  Underway(l)'
  <2>1. Underway(l)
    BY DEF CloudInv
  <2>2. ASSUME NEW i \in task[l].add
        PROVE  /\ i \in Calls /\ Kind[i] \in CreateKinds /\ Lb[i] = l /\ AtPlace(i)' = {}
               /\ Waiting(i)' \/ Failed(i)'
               /\ \A c \in Calls : op'[c] = "deleteOne" => i \notin arg'[c]
    <3>1. /\ i \in Calls /\ Kind[i] \in CreateKinds /\ Lb[i] = l /\ AtPlace(i) = {}
          /\ Waiting(i) \/ Failed(i)
          /\ \A c \in Calls : op[c] = "deleteOne" => i \notin arg[c]
      BY <2>1, <2>2 DEF Underway
    <3>2. i \notin live
      BY <3>1 DEF AtPlace
    <3>3. \A c \in Calls : op'[c] = "deleteOne" => i \notin arg'[c]
      BY <3>1, <3>2 DEF AtPlace
    <3> QED
      BY <1>1, <1>2, <1>4, <3>1, <3>3
  <2>3. ASSUME NEW i \in task[l].del
        PROVE  /\ Lb[i] = l
               /\ \E c \in Calls : Kind[c] \in CleanupKinds /\ Cloud!At(i, c) /\ (Waiting(c)' \/ Failed(c)')
    <3>1. PICK c \in Calls : Kind[c] \in CleanupKinds /\ Cloud!At(i, c) /\ (Waiting(c) \/ Failed(c))
      BY <2>1, <2>3 DEF Underway
    <3>2. Lb[i] = l /\ Lb[c] = l
      BY <2>1, <2>3, <3>1 DEF Underway, Cloud!At
    <3> QED
      BY <1>2, <1>4, <3>1, <3>2
  <2> QED
    BY <1>4, <2>1, <2>2, <2>3 DEF Underway, Cloud!At
<1> QED
  BY <1>2, <1>3, <1>4 DEF CloudInv

-----------------------------------------------------------------------------
(* Steps that neither ask the cloud for anything nor tell an answer.       *)

\* In the beginning no call has done anything, and the cloud has what was there before.
LEMMA InitCloud == Init => CloudInv
<1> SUFFICES ASSUME Init PROVE CloudInv
  OBVIOUS
<1>1. /\ batches = {} /\ live = Old /\ \A l \in LBs : task[l] = NoTask
      /\ \A c \in Calls : op[c] = FirstOp(c) /\ arg[c] = FirstArg(c) /\ pc[c] # "done"
  BY DEF Init
<1>2. ASSUME NEW c \in Calls
      PROVE  InRole(c) /\ op[c] # "deleteOne"
  <2>1. Kind[c] \in Kinds
    BY ConstantsAssumption
  <2>2. CASE Kind[c] \in CreateKinds
    BY <1>1, <2>2 DEF FirstOp, InRole, CreateKinds, CreateOps
  <2>3. CASE Kind[c] \in CleanupKinds
    BY <1>1, <2>3 DEF FirstOp, InRole, CleanupKinds, CreateOps
  <2>4. CASE Kind[c] \in {"describe", "unbind"}
    BY <1>1, <2>4 DEF FirstOp, InRole, CreateOps
  <2>5. CASE Kind[c] \in {"register", "deregister"}
    BY <1>1, <2>5 DEF FirstOp, FirstArg, InRole, CreateOps
  <2> QED
    BY <2>1, <2>2, <2>3, <2>4, <2>5 DEF Kinds
<1>3. \A c \in Calls : Expected(c) /\ Trusted(c) /\ Aimed(c)
  BY <1>1, <1>2 DEF Expected, Trusted, Aimed, Waiting, Answering
<1>4. \A l \in LBs : Underway(l)
  BY <1>1 DEF Underway, NoTask
<1> QED
  BY <1>1, <1>2, <1>3, <1>4 DEF CloudInv, AtHome, Once

\* Calls are sent and received, batches begin, take the lock and repeat a request.
LEMMA Quiet ==
  ASSUME Inv, CloudInv, UNCHANGED <<live, backends, task, op, arg, answer>>,
         \A c \in Calls : pc'[c] = "done" <=> pc[c] = "done",
         \A b \in batches \ batches' : b.step \notin {"wait", "answer"},
         \A b \in batches' \ batches :
           b.step \notin {"wait", "answer"} /\ \A c \in Unanswered(b) : Lb[c] = b.lb
  PROVE  CloudInv'
<1>1. \A c : (Waiting(c)' <=> Waiting(c)) /\ (Answering(c)' <=> Answering(c))
  BY DEF Waiting, Answering
<1>2. AtHome'
  BY DEF CloudInv, AtHome, Unanswered
<1>3. KeepsWord
  BY <1>1 DEF KeepsWord, Settles
<1>4. \A c : AtPlace(c)' = AtPlace(c)
  BY SamePlace
<1>5. ASSUME NEW c \in Calls
      PROVE  InRole(c)' /\ Expected(c)' /\ Trusted(c)'
  <2>1. InRole(c) /\ Expected(c) /\ Trusted(c)
    BY DEF CloudInv
  <2>2. InRole(c)'
    BY <2>1 DEF InRole
  <2>3. Expected(c)'
    BY <1>1, <1>4, <2>1 DEF Expected
  <2>4. Trusted(c)'
    BY <1>1, <1>4, <2>1 DEF Trusted, Took, Cloud!Named
  <2> QED
    BY <2>2, <2>3, <2>4
<1> QED
  BY <1>1, <1>2, <1>3, <1>5, Preserve

\* So it is with callers that send, and with the processors.
LEMMA SendCloud ==
  ASSUME Inv, CloudInv, NEW c \in Calls, Send(c)
  PROVE  CloudInv'
<1>1. UNCHANGED <<live, backends, task, op, arg, answer, batches>> /\ pc[c] = "ready"
      /\ pc' = [pc EXCEPT ![c] = "sent"]
  BY DEF Send, cloudVars
<1>2. \A d \in Calls : pc'[d] = IF d = c THEN "sent" ELSE pc[d]
  BY <1>1 DEF Inv, TypeOK
<1> QED
  BY <1>1, <1>2, Quiet

LEMMA CallDirectlyCloud ==
  ASSUME Inv, CloudInv, NEW c \in Calls, CallDirectly(c)
  PROVE  CloudInv'
<1> DEFINE new == NewBatch(op[c], Lb[c], {c})
<1>1. /\ UNCHANGED <<live, backends, task, op, arg, answer>> /\ pc[c] = "ready"
      /\ pc' = [pc EXCEPT ![c] = "sent"] /\ batches' = batches \cup {new}
  BY DEF CallDirectly, cloudVars
<1>2. \A d \in Calls : pc'[d] = IF d = c THEN "sent" ELSE pc[d]
  BY <1>1 DEF Inv, TypeOK
<1>3. new.step \in {"lock", "call"} /\ Unanswered(new) = {c} /\ new.lb = Lb[c]
  BY DEF NewBatch, Unanswered
<1> HIDE DEF new
<1> QED
  BY <1>1, <1>2, <1>3, Quiet

LEMMA ProcessorCloud ==
  ASSUME Inv, CloudInv, NEW a \in Apis, Processor(a)
  PROVE  CloudInv'
<1>1. UNCHANGED <<live, backends, task, pc, op, arg, answer>>
  BY DEF Processor, Timer, Receive, cloudVars, callVars
<1>2. ASSUME NEW T, Flush(a, T)
      PROVE  /\ batches \subseteq batches'
             /\ \A b \in batches' \ batches :
                  b.step \notin {"wait", "answer"} /\ \A c \in Unanswered(b) : Lb[c] = b.lb
  <2>1. PICK P \in Chunkings(T, MaxTaskOneBatch[a]) :
          batches' = batches \cup {NewBatch(a, Lb[CHOOSE c \in C : TRUE], C) : C \in P}
    BY <1>2 DEF Flush
  <2>2. ASSUME NEW C \in P, NEW b, b = NewBatch(a, Lb[CHOOSE c \in C : TRUE], C)
        PROVE  b.step \notin {"wait", "answer"} /\ \A c \in Unanswered(b) : Lb[c] = b.lb
    <3>1. C # {} /\ OfOneLb(C)
      BY <2>1, <2>2 DEF Chunkings, Blocks
    <3>2. (CHOOSE c \in C : TRUE) \in C
      BY <3>1
    <3>3. b.step \in {"lock", "call"} /\ Unanswered(b) = C /\ b.lb = Lb[CHOOSE c \in C : TRUE]
      BY <2>2 DEF NewBatch, Unanswered
    <3> QED
      BY <3>1, <3>2, <3>3 DEF OfOneLb
  <2> QED
    BY <2>1, <2>2
<1>3. \/ UNCHANGED batches
      \/ \E T : Flush(a, T)
  BY DEF Processor, Timer, Receive
<1> QED
  BY <1>1, <1>2, <1>3, Quiet

\* And with batches that take the lock or repeat a request.
LEMMA LockCloud ==
  ASSUME Inv, CloudInv, NEW b \in batches, LockLb(b) \/ ResourceInOperating(b)
  PROVE  CloudInv'
<1>1. b \in Batches /\ b.step \in {"lock", "call"} /\ \A c \in Unanswered(b) : Lb[c] = b.lb
  BY DEF Inv, TypeOK, CloudInv, AtHome, LockLb, ResourceInOperating, Calling
<1>2. UNCHANGED <<live, backends, task, pc, op, arg, answer>>
  BY DEF LockLb, ResourceInOperating, cloudVars, callVars
<1>3. PICK new : /\ batches' = (batches \ {b}) \cup {new}
                 /\ new.step = "call" /\ new.lb = b.lb /\ Unanswered(new) = Unanswered(b)
  <2>1. CASE LockLb(b)
    <3> DEFINE new == [b EXCEPT !.step = "call"]
    <3>1. new.step = "call" /\ new.lb = b.lb /\ Unanswered(new) = Unanswered(b)
      BY <1>1 DEF Batches, Unanswered
    <3>2. batches' = (batches \ {b}) \cup {new}
      BY <2>1 DEF LockLb, Advance
    <3> QED
      BY <3>1, <3>2
  <2>2. CASE ResourceInOperating(b)
    <3> DEFINE new == [b EXCEPT !.retries = @ + 1]
    <3>1. new.step = "call" /\ new.lb = b.lb /\ Unanswered(new) = Unanswered(b)
      BY <1>1, <2>2 DEF Batches, Unanswered, ResourceInOperating, Calling
    <3>2. batches' = (batches \ {b}) \cup {new}
      BY <2>2 DEF ResourceInOperating, Advance
    <3> QED
      BY <3>1, <3>2
  <2> QED
    BY <2>1, <2>2
<1> QED
  BY <1>1, <1>2, <1>3, Quiet

-----------------------------------------------------------------------------
(* Requests.                                                               *)

\* The calls of a request that is over or under way are those that are answered or wait.
LEMMA Asked ==
  ASSUME Inv, CloudInv, NEW b \in batches, NEW R \in Requests(b), NEW step \in {"wait", "answer"},
         b.step = "call", step = "wait" => b.op \in TaskOps, Requested(b, R, step), UNCHANGED callVars
  PROVE  /\ \A c : Waiting(c)' <=> (Waiting(c) \/ (step = "wait" /\ c \in R))
         /\ \A c : Answering(c)' <=> (Answering(c) \/ (step = "answer" /\ c \in R))
         /\ \A c \in R : /\ c \in Calls /\ c \in b.todo /\ ~Waiting(c) /\ ~Answering(c)
                         /\ pc[c] = "sent" /\ op[c] = b.op /\ Lb[c] = b.lb
         /\ b.request = {} /\ b.lb \in LBs /\ AtHome' /\ b.op \in Operations
<1> DEFINE new == [b EXCEPT !.todo = @ \ R, !.request = R, !.group = GroupOf(b, R),
                            !.step = step, !.retries = 0]
<1>1. b \in Batches /\ b.request = {} /\ TypeOK
  BY DEF Inv, TypeOK, Shape, InBatch
<1>2. R \subseteq b.todo /\ R \subseteq Calls
  BY <1>1, RequestsOf
<1>3. /\ new.request = R /\ new.step = step /\ new.lb = b.lb /\ new.op = b.op
      /\ Unanswered(new) = Unanswered(b)
      /\ batches' = (batches \ {b}) \cup {new}
  BY <1>1, <1>2 DEF Batches, Unanswered, Requested, Advance
<1> HIDE DEF new
<1>4. \A c : Waiting(c)' <=> (Waiting(c) \/ (step = "wait" /\ c \in R))
  BY <1>1, <1>3 DEF Waiting
<1>5. \A c : Answering(c)' <=> (Answering(c) \/ (step = "answer" /\ c \in R))
  BY <1>1, <1>3 DEF Answering
<1>6. ASSUME NEW c \in R
      PROVE  /\ c \in Calls /\ c \in b.todo /\ ~Waiting(c) /\ ~Answering(c)
             /\ pc[c] = "sent" /\ op[c] = b.op /\ Lb[c] = b.lb
  <2>1. c \in Unanswered(b) /\ c \notin b.request
    BY <1>1, <1>2 DEF Unanswered
  <2>2. /\ c \in Calls /\ pc[c] = "sent" /\ op[c] = b.op
        /\ \A d \in batches : c \in Unanswered(d) => d = b
    BY <2>1, CallOfBatch
  <2> QED
    BY <1>2, <2>1, <2>2 DEF Waiting, Answering, Unanswered, CloudInv, AtHome
<1>7. AtHome'
  <2>1. \A d \in batches' : (\A c \in Unanswered(d) : Lb[c] = d.lb) /\ (d.step = "wait" => d.op \in TaskOps)
    BY <1>3 DEF CloudInv, AtHome
  <2> QED
    BY <2>1 DEF AtHome, Unanswered
<1> QED
  BY <1>1, <1>4, <1>5, <1>6, <1>7 DEF Batches, Operations

\* A request changes what is under way at its load balancer, where no other call waits for a write
\* or is told of one.
LEMMA AskedCloud ==
  ASSUME Inv, CloudInv, NEW b \in batches, NEW R \in Requests(b), NEW step \in {"wait", "answer"},
         NEW r, b.step = "call", Requested(b, R, step), Tell(R, r), UNCHANGED <<live, callVars>>,
         step = "wait" => b.op \in TaskOps, b.op \in Writes \/ UNCHANGED <<task, backends>>,
         \A l \in LBs \ {b.lb} : task'[l] = task[l],
         task'[b.lb] = task[b.lb] \/ Underway(b.lb)',
         \A k : Lb[k.listener] # b.lb => (k \in backends' <=> k \in backends),
         \A c \in R : Expected(c)' /\ Trusted(c)'
  PROVE  CloudInv'
<1>1. /\ \A c : Waiting(c)' <=> (Waiting(c) \/ (step = "wait" /\ c \in R))
      /\ \A c : Answering(c)' <=> (Answering(c) \/ (step = "answer" /\ c \in R))
      /\ \A c \in R : c \in Calls /\ ~Waiting(c) /\ ~Answering(c) /\ pc[c] = "sent" /\ Lb[c] = b.lb
      /\ b.request = {} /\ b.lb \in LBs /\ AtHome'
  BY Asked
<1>2. /\ UNCHANGED <<pc, op, arg>> /\ \A c \in Calls \ R : answer'[c] = answer[c]
  BY DEF Tell, callVars
<1>3. KeepsWord
  BY <1>1, <1>2 DEF KeepsWord, Settles
<1>4. \A c : AtPlace(c)' = AtPlace(c)
  BY SamePlace
<1>5. ASSUME NEW c \in Calls \ R, Waiting(c) \/ Answering(c), op[c] \in Writes
      PROVE  Lb[c] # b.lb \/ UNCHANGED <<task, backends>>
  BY <1>1, <1>5, Alone DEF CloudInv
<1>6. ASSUME NEW c \in Calls \ R
      PROVE  Expected(c)' /\ Trusted(c)'
  <2>1. Expected(c) /\ Trusted(c) /\ InRole(c) /\ Lb[c] \in LBs
    BY CloudTypes DEF CloudInv
  <2>2. Expected(c)'
    <3>1. Waiting(c) => op[c] \in Writes
      BY <2>1 DEF Expected, TaskOps, CreateOps, Writes, Single
    <3>2. Waiting(c) => task'[Lb[c]] = task[Lb[c]]
      BY <1>5, <2>1, <3>1
    <3> QED
      BY <1>1, <1>2, <1>4, <2>1, <3>2 DEF Expected
  <2>3. Trusted(c)'
    <3>1. Answering(c) /\ op[c] \in Writes => task'[Lb[c]] = task[Lb[c]]
      BY <1>5, <2>1
    <3>2. ASSUME Answering(c), op[c] \in {"register", "deregister"}
          PROVE  Cloud!Named(c) \in backends' <=> Cloud!Named(c) \in backends
      <4>1. Kind[c] \in {"register", "deregister", "unbind"}
        BY <2>1, <3>2 DEF InRole
      <4>2. Lb[Listener[c]] = Lb[c] /\ Cloud!Named(c).listener = Listener[c]
        BY <4>1, PlacesAssumption DEF Cloud!Named
      <4> QED
        BY <1>5, <3>2, <4>2 DEF Writes
    <3>3. Took(c) => (Answering(c) => Took(c)')
      BY <1>2, <1>4, <3>2 DEF Took, Cloud!Named
    <3> QED
      BY <1>1, <1>2, <2>1, <3>1, <3>3 DEF Trusted
  <2> QED
    BY <2>2, <2>3
<1>7. \A c \in Calls : InRole(c)' /\ Expected(c)' /\ Trusted(c)'
  BY <1>2, <1>6 DEF CloudInv, InRole
<1>8. \A l \in LBs : task'[l] = task[l] \/ Underway(l)'
  BY <1>1
<1> QED
  BY <1>1, <1>2, <1>3, <1>7, <1>8, Preserve

\* A request that is refused, and one that only reads, leaves the cloud as it is.
LEMMA RefusedCloud ==
  ASSUME Inv, CloudInv, NEW b \in batches, NEW R \in Requests(b), NEW r, b.step = "call",
         Requested(b, R, "answer"), Tell(R, r), UNCHANGED <<live, backends, task, callVars>>,
         b.op \notin Writes \/ \A c \in R : r[c].code \notin {"ok", "notFound"}
  PROVE  CloudInv'
<1>1. \A c \in R : /\ c \in Calls /\ ~Waiting(c)' /\ op'[c] = b.op
  BY Asked DEF callVars
<1>2. \A c \in R : answer'[c] = r[c]
  BY <1>1 DEF Tell
<1>3. \A c \in R : Expected(c)' /\ Trusted(c)'
  BY <1>1, <1>2 DEF Expected, Trusted
<1> QED
  BY <1>3, AskedCloud

LEMMA ReadCloud ==
  ASSUME Inv, CloudInv, NEW b \in batches,
         CallFails(b) \/ PortCheckFails(b) \/ DescribeListeners(b) \/ DescribeTargets(b)
  PROVE  CloudInv'
<1>1. CASE CallFails(b)
  <2>1. PICK R \in Requests(b) : Requested(b, R, "answer") /\ TellAll(R, "err")
    BY <1>1 DEF CallFails
  <2> DEFINE r == [c \in R |-> Say("err")]
  <2>2. Tell(R, r) /\ \A c \in R : r[c].code \notin {"ok", "notFound"}
    BY <2>1 DEF TellAll, Say
  <2> HIDE DEF r
  <2> QED
    BY <1>1, <2>1, <2>2, RefusedCloud DEF CallFails, cloudVars
<1>2. CASE PortCheckFails(b)
  <2>1. PICK R \in Requests(b) : Requested(b, R, "answer") /\ TellAll(R, "busy")
    BY <1>2 DEF PortCheckFails
  <2> DEFINE r == [c \in R |-> Say("busy")]
  <2>2. Tell(R, r) /\ \A c \in R : r[c].code \notin {"ok", "notFound"}
    BY <2>1 DEF TellAll, Say
  <2> HIDE DEF r
  <2> QED
    BY <1>2, <2>1, <2>2, RefusedCloud DEF PortCheckFails, Calling, cloudVars
<1>3. CASE DescribeListeners(b)
  <2> DEFINE r == [c \in b.todo |-> [code |-> "ok", value |-> {Listener[c]} \cap live]]
  <2>1. b.op \notin Writes /\ b.todo \in Requests(b)
    BY <1>3, WholeRequest DEF DescribeListeners, Calling, Writes, Single
  <2>2. Tell(b.todo, r) /\ Requested(b, b.todo, "answer") /\ b.step = "call"
        /\ UNCHANGED <<live, backends, task, callVars>>
    BY <1>3 DEF DescribeListeners, Calling, cloudVars
  <2> HIDE DEF r
  <2> QED
    BY <2>1, <2>2, RefusedCloud
<1>4. CASE DescribeTargets(b)
  <2> DEFINE r == [c \in b.todo |-> [code |-> "ok", value |-> Registered(Listener[c])]]
  <2>1. b.op \notin Writes /\ b.todo \in Requests(b)
    BY <1>4, WholeRequest DEF DescribeTargets, Calling, Writes, Single
  <2>2. Tell(b.todo, r) /\ Requested(b, b.todo, "answer") /\ b.step = "call"
        /\ UNCHANGED <<live, backends, task, callVars>>
    BY <1>4 DEF DescribeTargets, Calling, cloudVars
  <2> HIDE DEF r
  <2> QED
    BY <2>1, <2>2, RefusedCloud
<1> QED
  BY <1>1, <1>2, <1>3, <1>4

\* The cloud creates listeners where there are none and nobody deletes any.
LEMMA CreationCloud ==
  ASSUME Inv, CloudInv, NEW b \in batches, Calling(b, CreateOps),
         NEW R \in Requests(b), NEW S \in SUBSET R, NEW step \in {"wait", "answer"}, NEW r,
         ~PortTaken(R), Requested(b, R, step), Tell(R, r), UNCHANGED <<live, backends, callVars>>,
         task' = [task EXCEPT ![b.lb] = [add |-> S, del |-> {}]],
         \/ step = "wait" /\ S = R /\ \A c \in R : r[c].code = "ok"
         \/ step = "answer" /\ \A c \in R : r[c].code = "err"
  PROVE  CloudInv'
<1>1. b.step = "call" /\ b.op \in CreateOps /\ b.op \in Writes /\ b.op \in TaskOps /\ b.lb \in LBs
  BY DEF Calling, CreateOps, TaskOps, Writes, Single, Inv, TypeOK, Batches
<1>3. /\ \A c \in R : /\ c \in Calls /\ ~Waiting(c) /\ ~Answering(c)
                      /\ pc[c] = "sent" /\ op[c] = b.op /\ Lb[c] = b.lb
      /\ \A c : Waiting(c)' <=> (Waiting(c) \/ (step = "wait" /\ c \in R))
      /\ \A c : Answering(c)' <=> (Answering(c) \/ (step = "answer" /\ c \in R))
  BY <1>1, Asked
<1>4. /\ task'[b.lb] = [add |-> S, del |-> {}] /\ \A l \in LBs \ {b.lb} : task'[l] = task[l]
      /\ UNCHANGED <<pc, op, arg>> /\ \A c \in R : answer'[c] = r[c]
  BY <1>1, <1>3, CloudTypes DEF Tell, callVars
<1>5. \A c : AtPlace(c)' = AtPlace(c)
  BY <1>1, SamePlace
<1>6. \A c \in R : Expected(c)'
  BY <1>1, <1>3, <1>4, <1>5 DEF Expected, TaskOps, CreateOps
<1>7. \A c \in R : Trusted(c)'
  BY <1>1, <1>3, <1>4 DEF Trusted
<1>8. Underway(b.lb)'
  <2>1. ASSUME NEW i \in S
        PROVE  /\ i \in Calls /\ Kind[i] \in CreateKinds /\ Lb[i] = b.lb /\ AtPlace(i)' = {}
               /\ Waiting(i)' \/ Failed(i)'
               /\ \A c \in Calls : op'[c] = "deleteOne" => i \notin arg'[c]
    <3>1. i \in R /\ i \in Calls /\ Lb[i] = b.lb /\ ~Settles(i) /\ Kind[i] \in CreateKinds
      BY <1>1, <1>3, <2>1 DEF CloudInv, InRole, Settles
    <3>2. AtPlace(i)' = {}
      BY <1>5, <3>1 DEF PortTaken
    <3>3. Waiting(i)' \/ Failed(i)'
      BY <1>1, <1>3, <1>4, <3>1 DEF Failed, Settles, CreateOps
    <3>4. ~Once(i)
      BY <3>1, ConstantsAssumption DEF Once
    <3>5. \A c \in Calls : op'[c] = "deleteOne" => i \notin arg'[c]
      BY <1>4, <3>4 DEF CloudInv, Aimed
    <3> QED
      BY <3>1, <3>2, <3>3, <3>5
  <2> QED
    BY <1>4, <2>1 DEF Underway
<1> QED
  BY <1>1, <1>4, <1>6, <1>7, <1>8, AskedCloud

LEMMA CreateCloud ==
  ASSUME Inv, CloudInv, NEW b \in batches, CreateListeners(b) \/ CreateMismatch(b)
  PROVE  CloudInv'
<1>1. Calling(b, CreateOps) /\ UNCHANGED <<live, backends, callVars>>
  BY DEF CreateListeners, CreateMismatch, Calling, CreateOps
<1>2. CASE CreateListeners(b)
  <2>1. PICK R \in Requests(b) :
          /\ ~PortTaken(R) /\ task' = [task EXCEPT ![b.lb] = [add |-> R, del |-> {}]]
          /\ Requested(b, R, "wait")
          /\ Tell(R, [c \in R |-> [code |-> "ok", value |-> {c}]])
    BY <1>2 DEF CreateListeners
  <2> DEFINE r == [c \in R |-> [code |-> "ok", value |-> {c}]]
  <2>2. Tell(R, r) /\ \A c \in R : r[c].code = "ok"
    BY <2>1
  <2> HIDE DEF r
  <2> QED
    BY <1>1, <2>1, <2>2, CreationCloud
<1>3. CASE CreateMismatch(b)
  <2>1. PICK R \in Requests(b) : \E S \in SUBSET R :
          /\ ~PortTaken(R) /\ task' = [task EXCEPT ![b.lb] = [add |-> S, del |-> {}]]
          /\ Requested(b, R, "answer") /\ TellAll(R, "err")
    BY <1>3 DEF CreateMismatch
  <2>2. PICK S \in SUBSET R :
          /\ ~PortTaken(R) /\ task' = [task EXCEPT ![b.lb] = [add |-> S, del |-> {}]]
          /\ Requested(b, R, "answer") /\ TellAll(R, "err")
    BY <2>1
  <2> DEFINE r == [c \in R |-> Say("err")]
  <2>3. Tell(R, r) /\ \A c \in R : r[c].code = "err"
    BY <2>2 DEF TellAll, Say
  <2> HIDE DEF r
  <2> QED
    BY <1>1, <2>2, <2>3, CreationCloud
<1> QED
  BY <1>2, <1>3

\* The listeners a deletion names.
LEMMA DoomedPlaces ==
  ASSUME Inv, CloudInv, NEW b \in batches, b.op \in {"delete", "deleteOne"}, b.step = "call",
         NEW i \in Doomed(b)
  PROVE  \E c \in b.todo : /\ c \in Calls /\ Lb[i] = b.lb /\ Kind[c] \in CleanupKinds /\ Cloud!At(i, c)
<1>1. \A c \in b.todo : c \in Calls /\ op[c] = b.op /\ Lb[c] = b.lb
  BY CallOfBatch DEF CloudInv, AtHome, Unanswered
<1>2. CASE b.op = "delete"
  <2>1. PICK c \in b.todo : i = Listener[c]
    BY <1>2 DEF Doomed
  <2>2. Kind[c] = "cleanup"
    BY <1>1, <1>2 DEF CloudInv, InRole
  <2> QED
    BY <1>1, <2>1, <2>2, PlacesAssumption DEF Cloud!At, CleanupKinds
<1>3. CASE b.op = "deleteOne"
  <2>1. PICK c \in b.todo : i \in arg[c]
    BY <1>3 DEF Doomed
  <2>2. Kind[c] \in CleanupKinds /\ Cloud!At(i, c)
    BY <1>1, <1>3, <2>1 DEF CloudInv, InRole, Aimed
  <2> QED
    BY <1>1, <2>1, <2>2 DEF Cloud!At
<1> QED
  BY <1>2, <1>3

\* The cloud deletes what the calls named: for a call by port, whatever is there.
LEMMA DeleteCloud ==
  ASSUME Inv, CloudInv, NEW b \in batches, DeleteListeners(b) \/ DeleteUnanswered(b)
  PROVE  CloudInv'
<1>1. /\ b.step = "call" /\ b.op \in {"delete", "deleteOne"} /\ b.op \in Writes /\ b.op \in TaskOps
      /\ Doomed(b) \subseteq live /\ task' = [task EXCEPT ![b.lb] = [add |-> {}, del |-> Doomed(b)]]
      /\ UNCHANGED <<live, backends, callVars>> /\ b.lb \in LBs /\ b.todo \in Requests(b)
  BY WholeRequest
     DEF DeleteListeners, DeleteUnanswered, Calling, TaskOps, Writes, Single, Inv, TypeOK, Batches
<1>2. PICK step, r :
        /\ step \in {"wait", "answer"}
        /\ Requested(b, b.todo, step) /\ Tell(b.todo, r)
        /\ \/ step = "wait" /\ \A c \in b.todo : r[c].code = "ok"
           \/ step = "answer" /\ \A c \in b.todo : r[c].code = "err"
  <2> DEFINE said(code) == [c \in b.todo |-> Say(code)]
  <2>1. CASE DeleteListeners(b)
    <3>1. Tell(b.todo, said("ok")) /\ \A c \in b.todo : said("ok")[c].code = "ok"
      BY <2>1 DEF DeleteListeners, TellAll, Say
    <3> HIDE DEF said
    <3> QED
      BY <2>1, <3>1 DEF DeleteListeners
  <2>2. CASE DeleteUnanswered(b)
    <3>1. Tell(b.todo, said("err")) /\ \A c \in b.todo : said("err")[c].code = "err"
      BY <2>2 DEF DeleteUnanswered, TellAll, Say
    <3> HIDE DEF said
    <3> QED
      BY <2>2, <3>1 DEF DeleteUnanswered
  <2> QED
    BY <2>1, <2>2
<1>3. /\ \A c \in b.todo : /\ c \in Calls /\ ~Waiting(c) /\ ~Answering(c)
                           /\ pc[c] = "sent" /\ op[c] = b.op /\ Lb[c] = b.lb
      /\ \A c : Waiting(c)' <=> (Waiting(c) \/ (step = "wait" /\ c \in b.todo))
      /\ \A c : Answering(c)' <=> (Answering(c) \/ (step = "answer" /\ c \in b.todo))
  BY <1>1, <1>2, Asked
<1>4. /\ task'[b.lb] = [add |-> {}, del |-> Doomed(b)] /\ \A l \in LBs \ {b.lb} : task'[l] = task[l]
      /\ UNCHANGED <<pc, op, arg>> /\ \A c \in b.todo : answer'[c] = r[c]
  BY <1>1, <1>2, <1>3, CloudTypes DEF Tell, callVars
<1>5. \A c : AtPlace(c)' = AtPlace(c)
  BY <1>1, SamePlace
<1>6. ASSUME NEW c \in b.todo
      PROVE  Expected(c)' /\ Trusted(c)'
  <2>1. op'[c] = b.op /\ op'[c] \in TaskOps /\ op'[c] \notin CreateOps
    BY <1>1, <1>3, <1>4 DEF TaskOps, CreateOps
  <2>2. b.op = "delete" => Listener[c] \in Doomed(b)
    BY DEF Doomed
  <2>3. b.op = "deleteOne" => arg[c] \cup AtPlace(c) \subseteq Doomed(b)
    <3>1. b.op = "deleteOne" => arg[c] \subseteq Doomed(b)
      BY DEF Doomed
    <3>2. Aimed(c)
      BY <1>3 DEF CloudInv
    <3> QED
      BY <1>1, <1>3, <3>1, <3>2 DEF Aimed
  <2>4. Expected(c)'
    BY <1>2, <1>3, <1>4, <1>5, <2>1, <2>2, <2>3 DEF Expected
  <2>5. Trusted(c)'
    BY <1>2, <1>3, <1>4 DEF Trusted
  <2> QED
    BY <2>4, <2>5
<1>7. Underway(b.lb)'
  <2>1. ASSUME NEW i \in Doomed(b)
        PROVE  /\ Lb[i] = b.lb
               /\ \E c \in Calls : Kind[c] \in CleanupKinds /\ Cloud!At(i, c) /\ (Waiting(c)' \/ Failed(c)')
    <3>1. PICK c \in b.todo : c \in Calls /\ Lb[i] = b.lb /\ Kind[c] \in CleanupKinds /\ Cloud!At(i, c)
      BY <1>1, DoomedPlaces
    <3>2. Waiting(c)' \/ Failed(c)'
      BY <1>1, <1>2, <1>3, <1>4 DEF Failed, Settles
    <3> QED
      BY <3>1, <3>2
  <2> QED
    BY <1>4, <2>1 DEF Underway, Cloud!At
<1> QED
  BY <1>1, <1>2, <1>4, <1>6, <1>7, AskedCloud

\* A listener that the cloud names as missing is.
LEMMA NotFoundCloud ==
  ASSUME Inv, CloudInv, NEW b \in batches, DeleteNotFound(b)
  PROVE  CloudInv'
<1>1. /\ b.step = "call" /\ b.op = "delete" /\ b.op \in Writes /\ task[b.lb] = NoTask
      /\ UNCHANGED <<live, backends, task, callVars>> /\ b.todo \in Requests(b)
  BY WholeRequest DEF DeleteNotFound, Calling, Writes, Single, cloudVars
<1> PICK N \in SUBSET (Doomed(b) \ live) :
      /\ Requested(b, b.todo, "answer")
      /\ Tell(b.todo, [c \in b.todo |->
                         Say(IF Listener[c] \in N THEN "notFound" ELSE "otherNotFound")])
  BY DEF DeleteNotFound
<1> DEFINE r == [c \in b.todo |-> Say(IF Listener[c] \in N THEN "notFound" ELSE "otherNotFound")]
<1>2. /\ Requested(b, b.todo, "answer") /\ Tell(b.todo, r)
      /\ \A c \in b.todo : r[c].code = (IF Listener[c] \in N THEN "notFound" ELSE "otherNotFound")
  BY DEF Say
<1> HIDE DEF r
<1>3. \A c \in b.todo : c \in Calls /\ ~Waiting(c)' /\ op[c] = b.op /\ Lb[c] = b.lb
  BY <1>1, <1>2, Asked
<1>4. UNCHANGED <<op, arg>> /\ \A c \in b.todo : answer'[c] = r[c]
  BY <1>1, <1>2, <1>3 DEF Tell, callVars
<1>5. ASSUME NEW c \in b.todo
      PROVE  Expected(c)' /\ Trusted(c)'
  <2>1. op'[c] = "delete" /\ op'[c] \notin CreateOps
    BY <1>1, <1>3, <1>4 DEF CreateOps
  <2>2. answer'[c].code \in {"ok", "notFound"} => Listener[c] \notin live'
    BY <1>1, <1>2, <1>4
  <2> QED
    BY <1>1, <1>3, <2>1, <2>2 DEF Expected, Trusted, Took
<1> QED
  BY <1>1, <1>2, <1>5, AskedCloud

\* The backends a call names, in the model of the batches and in the promise.
LEMMA NamedBackends ==
  ASSUME Inv, CloudInv, NEW b \in batches, b.op \in {"register", "deregister"}, NEW c \in b.todo
  PROVE  /\ c \in Calls /\ op[c] = b.op /\ Lb[c] = b.lb /\ Lb[Listener[c]] = b.lb
         /\ \A k \in Named(c) : k.listener = Listener[c]
         /\ Kind[c] \in {"register", "deregister"} => Named(c) = {Cloud!Named(c)}
         /\ Kind[c] \in {"register", "deregister", "unbind"}
<1>1. c \in Calls /\ op[c] = b.op /\ Lb[c] = b.lb /\ InRole(c)
  BY CallOfBatch DEF CloudInv, AtHome, Unanswered
<1>2. Kind[c] \in {"register", "deregister", "unbind"} /\ Lb[Listener[c]] = b.lb
  BY <1>1, PlacesAssumption DEF InRole
<1>3. \A k \in Named(c) : k.listener = Listener[c]
  BY DEF Named
<1>4. ASSUME Kind[c] \in {"register", "deregister"}
      PROVE  Named(c) = {Cloud!Named(c)}
  <2>1. arg[c] = {Target[c]}
    BY <1>1, <1>4 DEF InRole
  <2> QED
    BY <2>1 DEF Named, Cloud!Named
<1> QED
  BY <1>1, <1>2, <1>3, <1>4

\* Backends are registered and deregistered at the load balancer of the batch.
LEMMA MovedCloud ==
  ASSUME Inv, CloudInv, NEW b \in batches, Calling(b, {"register", "deregister"}),
         task[b.lb] = NoTask, UNCHANGED <<live, task, callVars>>, Requested(b, b.todo, "answer"),
         NEW r, Tell(b.todo, r),
         \A k : (k \in backends' <=> k \in backends) \/ \E c \in b.todo : k \in Named(c),
         \A c \in b.todo :
           /\ r[c].code \in {"ok", "err"}
           /\ r[c].code = "ok" /\ b.op = "register" => Named(c) \subseteq backends'
           /\ r[c].code = "ok" /\ b.op = "deregister" => Named(c) \cap backends' = {}
  PROVE  CloudInv'
<1>1. /\ b.step = "call" /\ b.op \in {"register", "deregister"} /\ b.op \in Writes
      /\ b.todo \in Requests(b)
  BY WholeRequest DEF Calling, Writes
<1>2. \A k : Lb[k.listener] # b.lb => (k \in backends' <=> k \in backends)
  BY <1>1, NamedBackends
<1>3. \A c \in b.todo : c \in Calls /\ ~Waiting(c)'
  BY <1>1, Asked
<1>4. ASSUME NEW c \in b.todo
      PROVE  Expected(c)' /\ Trusted(c)'
  <2>1. UNCHANGED <<op, arg, task>> /\ answer'[c] = r[c]
    BY <1>3 DEF Tell, callVars
  <2>2. /\ c \in Calls /\ op[c] = b.op /\ Lb[c] = b.lb
        /\ Kind[c] \in {"register", "deregister"} => Named(c) = {Cloud!Named(c)}
    BY <1>1, NamedBackends
  <2>3. op[c] = "register" => Kind[c] = "register"
    BY <2>2 DEF CloudInv, InRole
  <2>4. op'[c] \notin CreateOps \cup {"delete", "deleteOne"}
    BY <1>1, <2>1, <2>2 DEF CreateOps
  <2>5. Cloud!Named(c)' = Cloud!Named(c)
    BY DEF Cloud!Named
  <2>6. r[c].code = "ok" => Took(c)'
    BY <1>1, <2>1, <2>2, <2>3, <2>4, <2>5 DEF Took
  <2> QED
    BY <1>1, <1>3, <2>1, <2>2, <2>4, <2>6 DEF Expected, Trusted
<1> QED
  BY <1>1, <1>2, <1>4, AskedCloud

LEMMA TargetsCloud ==
  ASSUME Inv, CloudInv, NEW b \in batches, RegisterTargets(b) \/ DeregisterTargets(b)
  PROVE  CloudInv'
<1>1. CASE RegisterTargets(b)
  <2>1. PICK F \in SUBSET {Listener[c] : c \in b.todo} :
          \E G \in SUBSET {c \in b.todo : Listener[c] \in F \cap live} :
            /\ backends' = backends \cup
                 UNION {Named(c) : c \in G \cup {d \in b.todo : Listener[d] \notin F}}
            /\ Requested(b, b.todo, "answer")
            /\ Tell(b.todo, [c \in b.todo |-> Say(IF Listener[c] \in F THEN "err" ELSE "ok")])
    BY <1>1 DEF RegisterTargets
  <2> DEFINE r == [c \in b.todo |-> Say(IF Listener[c] \in F THEN "err" ELSE "ok")]
  <2>2. /\ b.op = "register" /\ Calling(b, {"register", "deregister"}) /\ task[b.lb] = NoTask
        /\ UNCHANGED <<live, task, callVars>> /\ Requested(b, b.todo, "answer") /\ Tell(b.todo, r)
    BY <1>1, <2>1 DEF RegisterTargets, Calling
  <2>3. \A k : (k \in backends' <=> k \in backends) \/ \E c \in b.todo : k \in Named(c)
    BY <2>1
  <2>4. \A c \in b.todo : Listener[c] \notin F => Named(c) \subseteq backends'
    BY <2>1
  <2>5. \A c \in b.todo : r[c].code = IF Listener[c] \in F THEN "err" ELSE "ok"
    BY DEF Say
  <2> HIDE DEF r
  <2>6. \A c \in b.todo :
          /\ r[c].code \in {"ok", "err"}
          /\ r[c].code = "ok" /\ b.op = "register" => Named(c) \subseteq backends'
          /\ r[c].code = "ok" /\ b.op = "deregister" => Named(c) \cap backends' = {}
    BY <2>2, <2>4, <2>5
  <2> QED
    BY <2>2, <2>3, <2>6, MovedCloud
<1>2. CASE DeregisterTargets(b)
  <2>1. PICK F \in SUBSET {Listener[c] : c \in b.todo} :
          \E G \in SUBSET {c \in b.todo : Listener[c] \in F} :
            /\ backends' = backends \
                 UNION {Named(c) : c \in G \cup {d \in b.todo : Listener[d] \notin F}}
            /\ Requested(b, b.todo, "answer")
            /\ Tell(b.todo, [c \in b.todo |-> Say(IF Listener[c] \in F THEN "err" ELSE "ok")])
    BY <1>2 DEF DeregisterTargets
  <2> DEFINE r == [c \in b.todo |-> Say(IF Listener[c] \in F THEN "err" ELSE "ok")]
  <2>2. /\ b.op = "deregister" /\ Calling(b, {"register", "deregister"}) /\ task[b.lb] = NoTask
        /\ UNCHANGED <<live, task, callVars>> /\ Requested(b, b.todo, "answer") /\ Tell(b.todo, r)
    BY <1>2, <2>1 DEF DeregisterTargets, Calling
  <2>3. \A k : (k \in backends' <=> k \in backends) \/ \E c \in b.todo : k \in Named(c)
    BY <2>1
  <2>4. \A c \in b.todo : Listener[c] \notin F => Named(c) \cap backends' = {}
    BY <2>1
  <2>5. \A c \in b.todo : r[c].code = IF Listener[c] \in F THEN "err" ELSE "ok"
    BY DEF Say
  <2> HIDE DEF r
  <2>6. \A c \in b.todo :
          /\ r[c].code \in {"ok", "err"}
          /\ r[c].code = "ok" /\ b.op = "register" => Named(c) \subseteq backends'
          /\ r[c].code = "ok" /\ b.op = "deregister" => Named(c) \cap backends' = {}
    BY <2>2, <2>4, <2>5
  <2> QED
    BY <2>2, <2>3, <2>6, MovedCloud
<1> QED
  BY <1>1, <1>2

\* Every request and its answer keep the invariant.
LEMMA CloudCallCloud ==
  ASSUME Inv, CloudInv, NEW b \in batches, CloudCall(b)
  PROVE  CloudInv'
BY ReadCloud, LockCloud, CreateCloud, DeleteCloud, NotFoundCloud, TargetsCloud DEF CloudCall

-----------------------------------------------------------------------------
(* The end of a task.                                                      *)

\* The calls of a batch that stops waiting are told the outcome; no other call waits or is told of
\* a write at its load balancer.
LEMMA WaitOver ==
  ASSUME Inv, CloudInv, NEW b \in batches, b.step = "wait", Advance(b, [b EXCEPT !.step = "answer"])
  PROVE  /\ \A c : Waiting(c)' <=> Waiting(c) /\ c \notin b.request
         /\ \A c : Answering(c)' <=> Answering(c) \/ c \in b.request
         /\ \A c \in b.request : /\ c \in Calls /\ Waiting(c) /\ ~Answering(c)
                                 /\ pc[c] = "sent" /\ op[c] = b.op /\ Lb[c] = b.lb
         /\ \A c : (Waiting(c) \/ Answering(c)) /\ op[c] \in Writes /\ Lb[c] = b.lb => c \in b.request
         /\ b.lb \in LBs /\ b.op \in TaskOps /\ AtHome'
<1> DEFINE new == [b EXCEPT !.step = "answer"]
<1>1. b \in Batches /\ AtHome /\ b.lb \in LBs /\ b.op \in TaskOps /\ b.op \in Writes
  BY DEF Inv, TypeOK, CloudInv, AtHome, Batches, TaskOps, CreateOps, Writes, Single
<1>2. /\ new.request = b.request /\ new.step = "answer" /\ new.lb = b.lb /\ Unanswered(new) = Unanswered(b)
      /\ batches' = (batches \ {b}) \cup {new}
  BY <1>1 DEF Batches, Unanswered, Advance
<1> HIDE DEF new
<1>3. ASSUME NEW c \in b.request
      PROVE  /\ c \in Calls /\ pc[c] = "sent" /\ op[c] = b.op /\ Lb[c] = b.lb
             /\ \A d \in batches : c \in d.request => d = b
  <2>1. c \in Unanswered(b)
    BY DEF Unanswered
  <2>2. \A d \in batches : c \in d.request => c \in Unanswered(d)
    BY DEF Unanswered
  <2> QED
    BY <1>1, <2>1, <2>2, CallOfBatch DEF AtHome
<1>4. \A c \in b.request : Waiting(c) /\ ~Answering(c)
  BY <1>3 DEF Waiting, Answering
<1>5. \A c : Waiting(c)' <=> Waiting(c) /\ c \notin b.request
  BY <1>2, <1>3 DEF Waiting
<1>6. \A c : Answering(c)' <=> Answering(c) \/ c \in b.request
  BY <1>2, <1>3 DEF Answering
<1>7. AtHome'
  <2>1. \A d \in batches' : (\A c \in Unanswered(d) : Lb[c] = d.lb) /\ (d.step = "wait" => d.op \in TaskOps)
    BY <1>1, <1>2 DEF AtHome
  <2> QED
    BY <2>1 DEF AtHome, Unanswered
<1>8. \A c : (Waiting(c) \/ Answering(c)) /\ op[c] \in Writes /\ Lb[c] = b.lb => c \in b.request
  BY <1>1, Alone
<1> QED
  BY <1>1, <1>3, <1>4, <1>5, <1>6, <1>7, <1>8

\* A batch that does not learn of success tells an error: the task has failed, or goes on.
LEMMA WaitFailsCloud ==
  ASSUME Inv, CloudInv, NEW b \in batches, WaitFails(b) \/ WaitGivesUp(b)
  PROVE  CloudInv'
<1>1. /\ b.step = "wait" /\ Advance(b, [b EXCEPT !.step = "answer"]) /\ TellAll(b.request, "err")
      /\ UNCHANGED <<live, backends, pc, op, arg>>
      /\ task' = [task EXCEPT ![b.lb] = NoTask] \/ task' = task
  BY DEF WaitFails, WaitGivesUp, cloudVars, callVars
<1>2. /\ \A c : Waiting(c)' <=> Waiting(c) /\ c \notin b.request
      /\ \A c : Answering(c)' <=> Answering(c) \/ c \in b.request
      /\ \A c \in b.request : /\ c \in Calls /\ Waiting(c) /\ ~Answering(c)
                              /\ pc[c] = "sent" /\ op[c] = b.op /\ Lb[c] = b.lb
      /\ \A c : (Waiting(c) \/ Answering(c)) /\ op[c] \in Writes /\ Lb[c] = b.lb => c \in b.request
      /\ b.lb \in LBs /\ b.op \in TaskOps /\ AtHome'
  BY <1>1, WaitOver
<1>3. /\ \A c \in b.request : answer'[c].code = "err"
      /\ \A c \in Calls \ b.request : answer'[c] = answer[c]
  BY <1>1, <1>2 DEF TellAll, Tell, Say
<1>4. /\ task'[b.lb] = NoTask \/ task'[b.lb] = task[b.lb]
      /\ \A l \in LBs \ {b.lb} : task'[l] = task[l]
  BY <1>1, <1>2, CloudTypes
<1>5. KeepsWord
  BY <1>1, <1>2, <1>3 DEF KeepsWord, Settles
<1>6. \A c : AtPlace(c)' = AtPlace(c)
  BY <1>1, SamePlace
<1>7. \A c \in b.request : Failed(c)'
  BY <1>1, <1>2, <1>3 DEF Failed, Settles, TaskOps, CreateOps
<1>8. ASSUME NEW c \in Calls
      PROVE  InRole(c)' /\ Expected(c)' /\ Trusted(c)'
  <2>1. InRole(c) /\ Expected(c) /\ Trusted(c) /\ Lb[c] \in LBs
    BY CloudTypes DEF CloudInv
  <2>2. InRole(c)'
    BY <1>1, <2>1 DEF InRole
  <2>3. CASE c \in b.request
    BY <1>2, <1>3, <2>2, <2>3 DEF Expected, Trusted
  <2>4. CASE c \notin b.request
    <3>1. Waiting(c) => op[c] \in Writes
      BY <2>1 DEF Expected, TaskOps, CreateOps, Writes, Single
    <3>2. Waiting(c) \/ (Answering(c) /\ op[c] \in Writes) => task'[Lb[c]] = task[Lb[c]]
      BY <1>2, <1>4, <2>1, <2>4, <3>1
    <3>3. Expected(c)'
      BY <1>1, <1>2, <1>3, <1>6, <2>1, <2>4, <3>2 DEF Expected
    <3>4. Trusted(c)'
      BY <1>1, <1>2, <1>3, <1>6, <2>1, <2>4, <3>2 DEF Trusted, Took, Cloud!Named
    <3> QED
      BY <2>2, <3>3, <3>4
  <2> QED
    BY <2>3, <2>4
<1>9. ASSUME NEW l \in LBs
      PROVE  \/ Underway(l)'
             \/ task'[l] = task[l] /\ \A c \in Calls : Waiting(c) /\ Lb[c] = l => Waiting(c)' \/ Failed(c)'
  <2>1. task'[l] = NoTask => Underway(l)'
    BY DEF Underway, NoTask
  <2> QED
    BY <1>2, <1>4, <1>7, <2>1
<1> QED
  BY <1>1, <1>2, <1>5, <1>8, <1>9, Preserve

\* A task takes effect.  The calls that wait for it are the only ones at its load balancer that
\* wait, and none there is being told that a write succeeded.
TakesEffect(l) ==
  /\ live' = (live \cup task[l].add) \ task[l].del
  /\ backends' = {k \in backends : k.listener \notin task[l].del}
  /\ task' = [task EXCEPT ![l] = NoTask]

Concluded(l) ==
  /\ \A c : Waiting(c)' <=> Waiting(c) /\ Lb[c] # l
  /\ \A c : Answering(c)' <=> Answering(c) \/ (Waiting(c) /\ Lb[c] = l)
  /\ \A c \in Calls :
       Answering(c) /\ Lb[c] = l /\ op[c] \in Writes => answer[c].code \notin {"ok", "notFound"}
  /\ AtHome'

\* What the effect is: elsewhere nothing changes, and what is created was asked for once.
LEMMA EffectFacts ==
  ASSUME Inv, CloudInv, NEW l \in LBs, TakesEffect(l), Concluded(l), UNCHANGED <<pc, op, arg, answer>>
  PROVE  /\ KeepsWord /\ task'[l] = NoTask /\ \A m \in LBs \ {l} : task'[m] = task[m]
         /\ \A i : Lb[i] # l => (i \in live' <=> i \in live)
         /\ \A c : Lb[c] # l => AtPlace(c)' = AtPlace(c)
         /\ \A k : Lb[k.listener] # l => (k \in backends' <=> k \in backends)
         /\ \A i \in live' : Once(i)'
<1>1. KeepsWord
  BY DEF KeepsWord, Settles, Concluded
<1>2. task'[l] = NoTask /\ \A m \in LBs \ {l} : task'[m] = task[m]
  BY CloudTypes DEF TakesEffect
<1>3. Underway(l)
  BY DEF CloudInv
<1>4. /\ \A i : Lb[i] # l => (i \in live' <=> i \in live)
      /\ \A k : Lb[k.listener] # l => (k \in backends' <=> k \in backends)
  BY <1>3 DEF Underway, TakesEffect
<1>5. ASSUME NEW c, Lb[c] # l
      PROVE  AtPlace(c)' = AtPlace(c)
  BY <1>4, <1>5, SamePlace
<1>6. ASSUME NEW i \in live'
      PROVE  Once(i)'
  <2>1. /\ \A c \in Calls : (Settles(c) => Settles(c)') /\ (Failed(c) => Failed(c)')
        /\ (Once(i) => Once(i)')
    BY <1>1, Settled
  <2>2. CASE i \in live
    BY <2>1, <2>2 DEF CloudInv
  <2>3. CASE i \in task[l].add
    <3>1. i \in Calls /\ Kind[i] \in CreateKinds /\ Lb[i] = l /\ (Waiting(i) \/ Failed(i))
      BY <1>3, <2>3 DEF Underway
    <3>2. Waiting(i) => Settles(i)'
      <4>1. Expected(i)
        BY <3>1 DEF CloudInv
      <4> QED
        BY <3>1, <4>1 DEF Expected, Settles, Concluded, TaskOps, CreateOps
    <3>3. Failed(i) => Settles(i)
      BY DEF Failed
    <3>4. Settles(i)'
      BY <2>1, <3>1, <3>2, <3>3
    <3> QED
      BY <3>1, <3>4 DEF Once
  <2> QED
    BY <2>2, <2>3 DEF TakesEffect
<1> QED
  BY <1>1, <1>2, <1>4, <1>5, <1>6

\* A call that waited for the task has its effect.
LEMMA EffectTook ==
  ASSUME Inv, CloudInv, NEW l \in LBs, TakesEffect(l), UNCHANGED <<op, arg>>,
         NEW c \in Calls, Waiting(c), Lb[c] = l
  PROVE  Took(c)'
<1>1. Underway(l) /\ Expected(c) /\ Aimed(c)
  BY DEF CloudInv
<1>2. op[c] \in CreateOps => c \in live'
  BY <1>1 DEF Expected, Underway, TakesEffect
<1>3. op[c] = "delete" => Listener[c] \notin live'
  BY <1>1 DEF Expected, TakesEffect
<1>4. ASSUME op[c] = "deleteOne"
      PROVE  AtPlace(c)' = {}
  <2>1. arg[c] # {} /\ arg[c] \cup AtPlace(c) \subseteq task[l].del
    BY <1>1, <1>4 DEF Expected, Aimed
  <2>2. task[l].add = {}
    BY <1>1, <2>1 DEF Underway
  <2> QED
    BY <2>1, <2>2 DEF AtPlace, TakesEffect
<1>5. op[c] \notin {"register", "deregister"}
  BY <1>1 DEF Expected, TaskOps, CreateOps
<1> QED
  BY <1>2, <1>3, <1>4, <1>5 DEF Took

LEMMA EffectCloud ==
  ASSUME Inv, CloudInv, NEW l \in LBs, TakesEffect(l), Concluded(l), UNCHANGED <<pc, op, arg, answer>>
  PROVE  CloudInv'
<1>1. /\ KeepsWord /\ task'[l] = NoTask /\ \A m \in LBs \ {l} : task'[m] = task[m]
      /\ \A i : Lb[i] # l => (i \in live' <=> i \in live)
      /\ \A c : Lb[c] # l => AtPlace(c)' = AtPlace(c)
      /\ \A k : Lb[k.listener] # l => (k \in backends' <=> k \in backends)
      /\ \A i \in live' : Once(i)'
  BY EffectFacts
<1>2. /\ \A c \in Calls : (Settles(c) => Settles(c)') /\ (Failed(c) => Failed(c)')
      /\ \A i : Once(i) => Once(i)'
  BY <1>1, Settled
<1>3. ASSUME NEW c \in Calls
      PROVE  InRole(c)' /\ Expected(c)' /\ Trusted(c)' /\ Aimed(c)'
  <2>1. InRole(c) /\ Expected(c) /\ Trusted(c) /\ Aimed(c) /\ Lb[c] \in LBs
    BY CloudTypes DEF CloudInv
  <2>2. InRole(c)'
    BY <2>1 DEF InRole
  <2>3. Expected(c)'
    BY <1>1, <2>1 DEF Expected, Concluded
  <2>4. Trusted(c)'
    <3>1. CASE Lb[c] = l
      <4>1. Waiting(c) => Took(c)' /\ answer[c].code = "ok"
        BY <2>1, <3>1, EffectTook DEF Expected
      <4> QED
        BY <1>1, <3>1, <4>1 DEF Trusted, Concluded
    <3>2. CASE Lb[c] # l
      <4>1. Answering(c)' <=> Answering(c)
        BY <3>2 DEF Concluded
      <4>2. op[c] \in {"delete", "register", "deregister"} => Lb[Listener[c]] # l
        BY <2>1, <3>2, PlacesAssumption DEF InRole
      <4>3. Cloud!Named(c).listener = Listener[c]
        BY DEF Cloud!Named
      <4>4. Took(c) => Took(c)'
        BY <1>1, <3>2, <4>2, <4>3 DEF Took, Cloud!Named
      <4> QED
        BY <1>1, <2>1, <3>2, <4>1, <4>4 DEF Trusted
    <3> QED
      BY <3>1, <3>2
  <2>5. Aimed(c)'
    <3> SUFFICES ASSUME op[c] = "deleteOne", arg[c] \cap live' # {}, NEW j \in AtPlace(c)'
                 PROVE  j \in arg[c]
      BY <1>2, <2>1 DEF Aimed, Cloud!At
    <3>1. PICK i \in arg[c] \cap live' : Lb[i] = Lb[c] /\ Port[i] = Port[c]
      BY <2>1 DEF Aimed, Cloud!At
    <3>2. Underway(l)
      BY DEF CloudInv
    <3>3. i \notin task[l].add /\ i \in live
      BY <3>1, <3>2 DEF Underway, TakesEffect
    <3>4. Lb[j] = Lb[c] /\ Port[j] = Port[c] /\ j \in live \cup task[l].add
      BY DEF AtPlace, TakesEffect
    <3>5. j \notin task[l].add
      BY <3>1, <3>2, <3>3, <3>4 DEF Underway, AtPlace
    <3> QED
      BY <2>1, <3>1, <3>3, <3>4, <3>5 DEF Aimed, AtPlace
  <2> QED
    BY <2>2, <2>3, <2>4, <2>5
<1>4. ASSUME NEW m \in LBs
      PROVE  Underway(m)'
  <2>1. CASE m = l
    BY <1>1, <2>1 DEF Underway, NoTask
  <2>2. CASE m # l
    <3>1. Underway(m) /\ task'[m] = task[m]
      BY <1>1, <2>2 DEF CloudInv
    <3>2. \A c \in Calls : Lb[c] = m /\ (Waiting(c) \/ Failed(c)) => Waiting(c)' \/ Failed(c)'
      BY <1>2, <2>2 DEF Concluded
    <3>3. ASSUME NEW i \in task[m].add
          PROVE  /\ i \in Calls /\ Kind[i] \in CreateKinds /\ Lb[i] = m /\ AtPlace(i)' = {}
                 /\ Waiting(i)' \/ Failed(i)'
                 /\ \A c \in Calls : op'[c] = "deleteOne" => i \notin arg'[c]
      BY <1>1, <2>2, <3>1, <3>2, <3>3 DEF Underway
    <3>4. ASSUME NEW i \in task[m].del
          PROVE  /\ Lb[i] = m
                 /\ \E c \in Calls : Kind[c] \in CleanupKinds /\ Cloud!At(i, c) /\ (Waiting(c)' \/ Failed(c)')
      BY <3>1, <3>2, <3>4 DEF Underway, Cloud!At
    <3> QED
      BY <3>1, <3>3, <3>4 DEF Underway, Cloud!At
  <2> QED
    BY <2>1, <2>2
<1> QED
  BY <1>1, <1>3, <1>4 DEF CloudInv, Concluded

LEMMA WaitSucceedsCloud ==
  ASSUME Inv, CloudInv, NEW b \in batches, WaitSucceeds(b)
  PROVE  CloudInv'
<1>1. /\ b.step = "wait" /\ Advance(b, [b EXCEPT !.step = "answer"]) /\ TakesEffect(b.lb)
      /\ UNCHANGED <<pc, op, arg, answer>>
  BY DEF WaitSucceeds, TakesEffect, callVars
<1>2. /\ \A c : Waiting(c)' <=> Waiting(c) /\ c \notin b.request
      /\ \A c : Answering(c)' <=> Answering(c) \/ c \in b.request
      /\ \A c \in b.request : c \in Calls /\ Waiting(c) /\ ~Answering(c) /\ Lb[c] = b.lb
      /\ \A c : (Waiting(c) \/ Answering(c)) /\ op[c] \in Writes /\ Lb[c] = b.lb => c \in b.request
      /\ b.lb \in LBs /\ AtHome'
  BY <1>1, WaitOver
<1>3. \A c : Waiting(c) => op[c] \in Writes
  <2>1. \A c : Waiting(c) => c \in Calls
    BY OfBatch DEF CloudInv
  <2> QED
    BY <2>1 DEF CloudInv, Expected, TaskOps, CreateOps, Writes, Single
<1>4. Concluded(b.lb)
  BY <1>2, <1>3 DEF Concluded
<1> QED
  BY <1>1, <1>2, <1>4, EffectCloud

\* Nobody at the load balancer waits for a task the package has given up on.
LEMMA TaskEndsCloud ==
  ASSUME Inv, CloudInv, NEW l \in LBs, TaskEnds(l)
  PROVE  CloudInv'
<1>1. UNCHANGED <<pc, op, arg, answer, batches>> /\ task' = [task EXCEPT ![l] = NoTask]
      /\ task[l] # NoTask
  BY DEF TaskEnds, callVars
<1>2. \A c : (Waiting(c)' <=> Waiting(c)) /\ (Answering(c)' <=> Answering(c))
  BY <1>1 DEF Waiting, Answering
<1>3. AtHome /\ AtHome'
  BY <1>1 DEF CloudInv, AtHome, Unanswered
<1>4. \A c : Waiting(c) => Lb[c] # l
  BY <1>3, OfBatch DEF TaskEnds
<1>5. ASSUME NEW c \in Calls, Answering(c), op[c] \in Writes, answer[c].code \in {"ok", "notFound"}
      PROVE  Lb[c] # l
  BY <1>1, <1>5 DEF CloudInv, Trusted
<1>6. CASE TakesEffect(l)
  <2>1. Concluded(l)
    BY <1>2, <1>3, <1>4, <1>5 DEF Concluded
  <2> QED
    BY <1>1, <1>6, <2>1, EffectCloud
<1>7. CASE UNCHANGED <<live, backends>>
  <2>1. task'[l] = NoTask /\ \A m \in LBs \ {l} : task'[m] = task[m]
    BY <1>1, CloudTypes
  <2>2. KeepsWord
    BY <1>1, <1>2 DEF KeepsWord, Settles
  <2>3. \A c : AtPlace(c)' = AtPlace(c)
    BY <1>7, SamePlace
  <2>4. ASSUME NEW c \in Calls
        PROVE  InRole(c)' /\ Expected(c)' /\ Trusted(c)'
    <3>1. InRole(c) /\ Expected(c) /\ Trusted(c) /\ Lb[c] \in LBs
      BY CloudTypes DEF CloudInv
    <3>2. InRole(c)'
      BY <1>1, <3>1 DEF InRole
    <3>3. Expected(c)'
      BY <1>1, <1>2, <1>4, <2>1, <2>3, <3>1 DEF Expected
    <3>4. Trusted(c)'
      BY <1>1, <1>2, <1>5, <1>7, <2>1, <2>3, <3>1 DEF Trusted, Took, Cloud!Named
    <3> QED
      BY <3>2, <3>3, <3>4
  <2>5. Underway(l)'
    BY <2>1 DEF Underway, NoTask
  <2>6. \A m \in LBs :
          \/ Underway(m)'
          \/ task'[m] = task[m] /\ \A c \in Calls : Waiting(c) /\ Lb[c] = m => Waiting(c)' \/ Failed(c)'
    BY <1>2, <2>1, <2>5
  <2> QED
    BY <1>1, <1>3, <1>7, <2>2, <2>4, <2>6, Preserve
<1> QED
  BY <1>1, <1>6, <1>7 DEF TaskEnds, TakesEffect

-----------------------------------------------------------------------------
(* The callers go on.                                                      *)

\* What a call was told decides how it goes on: it is done unless it was told to look again, or
\* has found what to deregister.
LEMMA ResumeCloud ==
  ASSUME Inv, CloudInv, NEW c \in Calls, Resume(c)
  PROVE  /\ \A d \in Calls \ {c} : pc'[d] = pc[d] /\ op'[d] = op[d] /\ arg'[d] = arg[d]
         /\ \/ pc'[c] = "done" /\ op'[c] = op[c] /\ arg'[c] = arg[c]
            \/ /\ pc'[c] = "ready" /\ op'[c] \in {"byPort", "deregister"}
               /\ op[c] = "targets" \/ answer[c].code \notin {"ok", "err"}
         /\ InRole(c)'
<1>1. /\ pc \in [Calls -> {"off", "ready", "sent", "done"}] /\ op \in [Calls -> Operations]
      /\ arg \in [Calls -> SUBSET (Ids \cup Targets)] /\ InRole(c)
  BY DEF Inv, TypeOK, CloudInv
<1>2. CASE NextOp(c) = "none"
  <2>1. pc' = [pc EXCEPT ![c] = "done"] /\ UNCHANGED <<op, arg>>
    BY <1>2 DEF Resume
  <2> QED
    BY <1>1, <2>1 DEF InRole
<1>3. CASE NextOp(c) # "none"
  <2>1. /\ pc' = [pc EXCEPT ![c] = "ready"] /\ op' = [op EXCEPT ![c] = NextOp(c)]
        /\ arg' = [arg EXCEPT ![c] = answer[c].value]
    BY <1>3 DEF Resume, Issue
  <2>2. \/ NextOp(c) = "byPort" /\ op[c] \in CreateOps /\ answer[c].code = "busy"
        \/ NextOp(c) = "byPort" /\ op[c] = "delete" /\ answer[c].code = "otherNotFound"
        \/ NextOp(c) = "deregister" /\ op[c] = "targets"
    BY <1>3 DEF NextOp, CreateOps
  <2>3. InRole(c)'
    BY <1>1, <2>1, <2>2 DEF InRole, CreateOps, CleanupKinds
  <2> QED
    BY <1>1, <2>1, <2>2, <2>3
<1> QED
  BY <1>2, <1>3

\* A call that receives its answer is not told any more; the others are as before.
LEMMA DeliverFacts ==
  ASSUME Inv, CloudInv, NEW b \in batches, NEW c \in b.request, Deliver(b, c)
  PROVE  /\ c \in Calls /\ Answering(c) /\ ~Waiting(c) /\ pc[c] = "sent" /\ AtHome'
         /\ \A d : (Waiting(d)' <=> Waiting(d)) /\ (Answering(d)' <=> Answering(d) /\ d # c)
<1>1. b \in Batches /\ c \in Unanswered(b) /\ b.step = "answer" /\ AtHome
  BY DEF Inv, TypeOK, Unanswered, Deliver, CloudInv
<1>2. /\ c \in Calls /\ pc[c] = "sent"
      /\ \A d \in batches : c \in d.request => d = b
  BY <1>1, CallOfBatch DEF Unanswered
<1>3. /\ \/ b.request # {c} /\ batches' = (batches \ {b}) \cup {[b EXCEPT !.request = @ \ {c}]}
         \/ b.request = {c} /\ batches' = (batches \ {b}) \cup {[b EXCEPT !.request = {}, !.step = "call"]}
         \/ b.request = {c} /\ batches' = batches \ {b}
  BY DEF Deliver, Advance, End
<1>4. /\ batches \ {b} \subseteq batches'
      /\ \A d \in batches' \ batches :
           /\ d.lb = b.lb /\ Unanswered(d) \subseteq Unanswered(b) /\ d.step # "wait"
           /\ d.step = "answer" => d.request = b.request \ {c}
      /\ b \notin batches'
      /\ b.request # {c} => \E d \in batches' : d.step = "answer" /\ d.request = b.request \ {c}
  <2>1. CASE b.request # {c}
    <3> DEFINE n == [b EXCEPT !.request = @ \ {c}]
    <3>1. n.lb = b.lb /\ Unanswered(n) \subseteq Unanswered(b) /\ n.step = "answer"
          /\ n.request = b.request \ {c} /\ n # b
      BY <1>1 DEF Batches, Unanswered
    <3>2. batches' = (batches \ {b}) \cup {n}
      BY <1>3, <2>1
    <3> HIDE DEF n
    <3> QED
      BY <2>1, <3>1, <3>2
  <2>2. CASE b.request = {c} /\ batches' = (batches \ {b}) \cup {[b EXCEPT !.request = {}, !.step = "call"]}
    <3> DEFINE n == [b EXCEPT !.request = {}, !.step = "call"]
    <3>1. n.lb = b.lb /\ Unanswered(n) \subseteq Unanswered(b) /\ n.step = "call" /\ n # b
      BY <1>1 DEF Batches, Unanswered
    <3>2. batches' = (batches \ {b}) \cup {n}
      BY <2>2
    <3> HIDE DEF n
    <3> QED
      BY <2>2, <3>1, <3>2
  <2>3. CASE b.request = {c} /\ batches' = batches \ {b}
    BY <2>3
  <2> QED
    BY <1>3, <2>1, <2>2, <2>3
<1>5. AtHome'
  <2>1. \A d \in batches' : (\A x \in Unanswered(d) : Lb[x] = d.lb) /\ (d.step = "wait" => d.op \in TaskOps)
    BY <1>1, <1>4 DEF AtHome
  <2> QED
    BY <2>1 DEF AtHome, Unanswered
<1>6. \A d : Waiting(d)' <=> Waiting(d)
  BY <1>1, <1>4 DEF Waiting
<1>7. ASSUME NEW d
      PROVE  Answering(d)' <=> Answering(d) /\ d # c
  <2>1. Answering(d)' => Answering(d) /\ d # c
    BY <1>1, <1>2, <1>4 DEF Answering
  <2>2. ASSUME Answering(d), d # c
        PROVE  Answering(d)'
    <3>1. PICK e \in batches : e.step = "answer" /\ d \in e.request
      BY <2>2 DEF Answering
    <3> QED
      BY <1>4, <2>2, <3>1 DEF Answering
  <2> QED
    BY <2>1, <2>2
<1>8. Answering(c) /\ ~Waiting(c)
  BY <1>1, <1>2 DEF Answering, Waiting
<1> QED
  BY <1>2, <1>5, <1>6, <1>7, <1>8

LEMMA DeliverCloud ==
  ASSUME Inv, CloudInv, NEW b \in batches, NEW c \in b.request, Deliver(b, c)
  PROVE  CloudInv'
<1>1. /\ c \in Calls /\ Answering(c) /\ ~Waiting(c) /\ pc[c] = "sent" /\ AtHome'
      /\ \A d : (Waiting(d)' <=> Waiting(d)) /\ (Answering(d)' <=> Answering(d) /\ d # c)
  BY DeliverFacts
<1>2. Resume(c) /\ UNCHANGED <<live, backends, task, answer>>
  BY DEF Deliver, cloudVars
<1>3. /\ \A d \in Calls \ {c} : pc'[d] = pc[d] /\ op'[d] = op[d] /\ arg'[d] = arg[d]
      /\ \/ pc'[c] = "done" /\ op'[c] = op[c] /\ arg'[c] = arg[c]
         \/ /\ pc'[c] = "ready" /\ op'[c] \in {"byPort", "deregister"}
            /\ op[c] = "targets" \/ answer[c].code \notin {"ok", "err"}
      /\ InRole(c)'
  BY <1>1, <1>2, ResumeCloud
<1>4. KeepsWord
  BY <1>1, <1>2, <1>3 DEF KeepsWord, Settles
<1>5. \A d : AtPlace(d)' = AtPlace(d)
  BY <1>2, SamePlace
<1>6. ASSUME NEW d \in Calls
      PROVE  InRole(d)' /\ Expected(d)' /\ Trusted(d)'
  <2>1. InRole(d) /\ Expected(d) /\ Trusted(d)
    BY DEF CloudInv
  <2>2. CASE d = c
    BY <1>1, <1>3, <2>2 DEF Expected, Trusted
  <2>3. CASE d # c
    <3>1. op'[d] = op[d] /\ arg'[d] = arg[d]
      BY <1>3, <2>3
    <3> QED
      BY <1>1, <1>2, <1>5, <2>1, <3>1 DEF InRole, Expected, Trusted, Took, Cloud!Named
  <2> QED
    BY <2>2, <2>3
<1>7. \A d \in Calls : op'[d] = "deleteOne" => op[d] = "deleteOne" /\ arg'[d] = arg[d]
  BY <1>3
<1> QED
  BY <1>1, <1>2, <1>4, <1>6, <1>7, Preserve

\* A call that looks for the listener at its place goes on with what is there.
LEMMA FindByPortCloud ==
  ASSUME Inv, CloudInv, NEW c \in Calls, FindByPort(c)
  PROVE  CloudInv'
<1>1. /\ pc[c] = "ready" /\ op[c] = "byPort" /\ UNCHANGED <<live, backends, task, batches>>
      /\ pc \in [Calls -> {"off", "ready", "sent", "done"}] /\ op \in [Calls -> Operations]
      /\ arg \in [Calls -> SUBSET (Ids \cup Targets)] /\ answer \in [Calls -> Answers]
  BY DEF FindByPort, cloudVars, Inv, TypeOK
<1>2. /\ \A d \in Calls \ {c} : pc'[d] = pc[d] /\ op'[d] = op[d] /\ arg'[d] = arg[d] /\ answer'[d] = answer[d]
      /\ \/ op'[c] = op[c]
         \/ Kind[c] \in CreateKinds /\ op'[c] \in CreateOps
         \/ Kind[c] \in CleanupKinds /\ op'[c] = "deleteOne" /\ arg'[c] = AtPlace(c) /\ AtPlace(c) # {}
  BY <1>1, Typing DEF FindByPort, Return, Issue, CreateOps
<1>3. \A d : (Waiting(d)' <=> Waiting(d)) /\ (Answering(d)' <=> Answering(d))
  BY <1>1 DEF Waiting, Answering
<1>4. ~Waiting(c) /\ ~Answering(c) /\ AtHome'
  BY <1>1, OfBatch DEF CloudInv, AtHome, Unanswered
<1>5. KeepsWord
  BY <1>1, <1>2, <1>3, <1>4 DEF KeepsWord, Settles
<1>6. \A d : AtPlace(d)' = AtPlace(d)
  BY <1>1, SamePlace
<1>7. ASSUME NEW d \in Calls
      PROVE  InRole(d)' /\ Expected(d)' /\ Trusted(d)'
  <2>1. InRole(d) /\ Expected(d) /\ Trusted(d)
    BY DEF CloudInv
  <2>2. CASE d = c
    <3>1. InRole(c)'
      BY <1>1, <1>2, <2>1, <2>2 DEF InRole, CreateOps
    <3> QED
      BY <1>3, <1>4, <2>2, <3>1 DEF Expected, Trusted
  <2>3. CASE d # c
    <3>1. op'[d] = op[d] /\ arg'[d] = arg[d] /\ answer'[d] = answer[d]
      BY <1>2, <2>3
    <3> QED
      BY <1>1, <1>3, <1>6, <2>1, <3>1 DEF InRole, Expected, Trusted, Took, Cloud!Named
  <2> QED
    BY <2>2, <2>3
<1>8. \A d \in Calls : op'[d] = "deleteOne" =>
        \/ op[d] = "deleteOne" /\ arg'[d] = arg[d]
        \/ arg'[d] = AtPlace(d) /\ AtPlace(d) # {}
  BY <1>1, <1>2 DEF CreateOps
<1> QED
  BY <1>1, <1>3, <1>4, <1>5, <1>7, <1>8, Preserve

-----------------------------------------------------------------------------
\* Every step keeps the invariant.
LEMMA StepCloud == Inv /\ CloudInv /\ [Next]_vars => CloudInv'
<1> SUFFICES ASSUME Inv, CloudInv, [Next]_vars PROVE CloudInv'
  OBVIOUS
<1>1. ASSUME NEW c \in Calls, Caller(c)
      PROVE  CloudInv'
  BY <1>1, SendCloud, CallDirectlyCloud, FindByPortCloud DEF Caller
<1>2. ASSUME NEW a \in Apis, Processor(a)
      PROVE  CloudInv'
  BY <1>2, ProcessorCloud
<1>3. ASSUME NEW b \in batches, Batch(b)
      PROVE  CloudInv'
  BY <1>3, LockCloud, CloudCallCloud, WaitSucceedsCloud, WaitFailsCloud, DeliverCloud DEF Batch
<1>4. ASSUME NEW l \in LBs, TaskEnds(l)
      PROVE  CloudInv'
  BY <1>4, TaskEndsCloud
<1>5. CASE UNCHANGED vars
  <2>1. UNCHANGED <<live, backends, task, pc, op, arg, answer, batches>>
    BY <1>5 DEF vars
  <2> QED
    BY <2>1, Quiet
<1> QED
  BY <1>1, <1>2, <1>3, <1>4, <1>5 DEF Next

LEMMA CloudInvariance == Spec => [](Inv /\ CloudInv)
BY InitInv, StepInv, InitCloud, StepCloud, PTL DEF Spec

-----------------------------------------------------------------------------
(* Every step is one CloudCalls allows, or none at all.                    *)

CloudState == <<live, backends, [c \in Calls |-> Returned(c)]>>

\* What the calls returned changes when one of them is done.
LEMMA SameReturns ==
  ASSUME \A c \in Calls : /\ pc'[c] = "done" <=> pc[c] = "done"
                          /\ pc[c] = "done" => answer'[c] = answer[c]
  PROVE  UNCHANGED [c \in Calls |-> Returned(c)]
BY DEF Returned

LEMMA ReturnOne ==
  ASSUME NEW c \in Calls, pc[c] # "done", pc'[c] = "done",
         \A d \in Calls \ {c} : pc'[d] = pc[d] /\ answer'[d] = answer[d],
         UNCHANGED <<live, backends>>,
         answer'[c].code \in {"ok", "notFound"} => Cloud!Holds(c)
  PROVE  Cloud!Return(c)
<1> DEFINE r == IF answer'[c].code \in {"ok", "notFound"} THEN "ok" ELSE "err"
<1>1. [d \in Calls |-> Returned(d)]' = [[d \in Calls |-> Returned(d)] EXCEPT ![c] = r]
  BY DEF Returned
<1>2. [d \in Calls |-> Returned(d)][c] = "none" /\ [d \in Calls |-> Returned(d)]'[c] = r
  BY DEF Returned
<1>3. r \in {"ok", "err"} /\ (r = "ok" => Cloud!Holds(c))
  OBVIOUS
<1> HIDE DEF r
<1> QED
  BY <1>1, <1>2, <1>3 DEF Cloud!Return

\* A call that is not done can still change the cloud, and so can one that failed.
LEMMA StillPending ==
  ASSUME Inv, CloudInv, NEW c \in Calls, Waiting(c) \/ Failed(c) \/ pc[c] = "sent"
  PROVE  Cloud!Pending(c)
<1>1. Waiting(c) => pc[c] = "sent"
  BY OfBatch DEF CloudInv
<1>2. Returned(c) # "ok"
  BY <1>1 DEF Returned, Failed
<1> QED
  BY <1>2 DEF Cloud!Pending

\* A task that takes effect changes the cloud on behalf of its calls.
LEMMA EffectSteps ==
  ASSUME Inv, CloudInv, NEW l \in LBs, TakesEffect(l), UNCHANGED <<pc, answer>>
  PROVE  Cloud!Change
<1>1. Underway(l)
  BY DEF CloudInv
<1>2. ASSUME NEW i \in live' \ live
      PROVE  Cloud!Appears(i)
  <2>1. i \in task[l].add
    BY <1>2 DEF TakesEffect
  <2>2. i \in Calls /\ Kind[i] \in CreateKinds /\ (Waiting(i) \/ Failed(i))
    BY <1>1, <2>1 DEF Underway
  <2> QED
    BY <2>2, StillPending DEF Cloud!Appears, Cloud!CreateKinds, CreateKinds
<1>3. ASSUME NEW i \in live \ live'
      PROVE  Cloud!Vanishes(i)
  <2>1. i \in task[l].del
    BY <1>3 DEF TakesEffect
  <2>2. PICK c \in Calls : Kind[c] \in CleanupKinds /\ Cloud!At(i, c) /\ (Waiting(c) \/ Failed(c))
    BY <1>1, <2>1 DEF Underway
  <2>3. Cloud!Pending(c)
    BY <2>2, StillPending
  <2> QED
    BY <2>2, <2>3 DEF Cloud!Vanishes, Cloud!CleanupKinds, CleanupKinds
<1>4. /\ \A k \in backends' \ backends : Cloud!Registers(k)
      /\ \A k \in backends \ backends' : Cloud!Deregisters(k)
  BY DEF TakesEffect, Cloud!Deregisters
<1>5. UNCHANGED [c \in Calls |-> Returned(c)]
  BY SameReturns
<1> QED
  BY <1>2, <1>3, <1>4, <1>5 DEF Cloud!Change

\* So do registrations and deregistrations.
LEMMA TargetsSteps ==
  ASSUME Inv, CloudInv, NEW b \in batches, RegisterTargets(b) \/ DeregisterTargets(b)
  PROVE  Cloud!Change
<1>1. b.step = "call" /\ b.op \in {"register", "deregister"} /\ UNCHANGED <<live, pc>>
  BY DEF RegisterTargets, DeregisterTargets, Calling, callVars
<1>2. \A c \in b.todo : c \in Calls /\ pc[c] = "sent" /\ op[c] = b.op /\ InRole(c)
  BY CallOfBatch DEF CloudInv, Unanswered
<1>3. /\ \A k \in backends' \ backends : b.op = "register" /\ \E c \in b.todo : k \in Named(c)
      /\ \A k \in backends \ backends' : b.op = "deregister" /\ \E c \in b.todo : k \in Named(c)
  <2>1. CASE RegisterTargets(b)
    <3>1. PICK F \in SUBSET {Listener[c] : c \in b.todo} :
            \E G \in SUBSET {c \in b.todo : Listener[c] \in F \cap live} :
              backends' = backends \cup
                UNION {Named(c) : c \in G \cup {d \in b.todo : Listener[d] \notin F}}
      BY <2>1 DEF RegisterTargets
    <3>2. b.op = "register"
      BY <2>1 DEF RegisterTargets, Calling
    <3> QED
      BY <3>1, <3>2
  <2>2. CASE DeregisterTargets(b)
    <3>1. PICK F \in SUBSET {Listener[c] : c \in b.todo} :
            \E G \in SUBSET {c \in b.todo : Listener[c] \in F} :
              backends' = backends \
                UNION {Named(c) : c \in G \cup {d \in b.todo : Listener[d] \notin F}}
      BY <2>2 DEF DeregisterTargets
    <3>2. b.op = "deregister"
      BY <2>2 DEF DeregisterTargets, Calling
    <3> QED
      BY <3>1, <3>2
  <2> QED
    BY <2>1, <2>2
<1>4. ASSUME NEW k \in backends' \ backends
      PROVE  Cloud!Registers(k)
  <2>1. PICK c \in b.todo : k \in Named(c)
    BY <1>3
  <2>2. Kind[c] = "register" /\ Named(c) = {Cloud!Named(c)}
    BY <1>1, <1>2, <1>3, NamedBackends DEF InRole
  <2> QED
    BY <1>2, <2>1, <2>2, StillPending DEF Cloud!Registers
<1>5. ASSUME NEW k \in backends \ backends'
      PROVE  Cloud!Deregisters(k)
  <2>1. PICK c \in b.todo : k \in Named(c)
    BY <1>3
  <2>2. Kind[c] = "unbind" \/ Kind[c] = "deregister"
    BY <1>2, <1>3 DEF InRole
  <2>3. Listener[c] = k.listener /\ (Kind[c] = "deregister" => k = Cloud!Named(c))
    BY <1>1, <2>1, NamedBackends
  <2> QED
    BY <1>2, <2>2, <2>3, StillPending DEF Cloud!Deregisters
<1>6. \A c \in Calls : pc[c] = "done" => answer'[c] = answer[c]
  BY <1>2 DEF RegisterTargets, DeregisterTargets, Tell
<1>7. UNCHANGED [c \in Calls |-> Returned(c)]
  BY <1>1, <1>6, SameReturns
<1> QED
  BY <1>1, <1>4, <1>5, <1>7 DEF Cloud!Change

\* A call that returns what it was told holds to it.
LEMMA AnswerHolds ==
  ASSUME Inv, CloudInv, NEW c \in Calls, Answering(c), answer[c].code \in {"ok", "notFound"}
  PROVE  Cloud!Holds(c)
<1>1. InRole(c) /\ Trusted(c) /\ op[c] \in Operations \ {"byPort"}
  <2>1. PICK b \in batches : b.op = op[c]
    BY OfBatch DEF CloudInv
  <2>2. b.op \in Apis \cup Single
    BY DEF Inv, TypeOK, Batches
  <2> QED
    BY <2>1, <2>2 DEF CloudInv, Operations, Apis, Single
<1>2. op[c] \in Writes => Took(c)
  BY <1>1 DEF Trusted
<1>3. ASSUME Kind[c] \in Cloud!CreateKinds
      PROVE  \E i \in live : Cloud!At(i, c)
  <2>1. op[c] \in CreateOps
    BY <1>1, <1>3 DEF InRole, Cloud!CreateKinds, CleanupKinds, CreateOps, Operations, Apis, Single
  <2>2. c \in live
    BY <1>2, <2>1 DEF Took, CreateOps, Writes, Single
  <2> QED
    BY <2>2 DEF Cloud!At
<1>4. ASSUME Kind[c] \in Cloud!CleanupKinds
      PROVE  op[c] \in {"delete", "deleteOne"} /\ (op[c] = "delete" => Kind[c] = "cleanup")
  BY <1>1, <1>4 DEF InRole, Cloud!CleanupKinds, CreateKinds, CreateOps, Operations, Apis, Single
<1>5. ASSUME Kind[c] \in Cloud!CleanupKinds, op[c] = "deleteOne"
      PROVE  ~\E i \in live : Cloud!At(i, c)
  BY <1>2, <1>5 DEF Took, AtPlace, Cloud!At, Writes, Single
<1>6. ASSUME Kind[c] = "cleanup"
      PROVE  Listener[c] \notin live
  <2>1. CASE op[c] = "delete"
    BY <1>2, <2>1 DEF Took, Writes
  <2>2. CASE op[c] = "deleteOne"
    BY <1>5, <1>6, <2>2, PlacesAssumption DEF Cloud!CleanupKinds, Cloud!At
  <2> QED
    BY <1>4, <1>6, <2>1, <2>2 DEF Cloud!CleanupKinds
<1>7. ASSUME Kind[c] = "cleanupPort"
      PROVE  ~\E i \in live : Cloud!At(i, c)
  BY <1>4, <1>5, <1>7 DEF Cloud!CleanupKinds
<1>8. Kind[c] = "register" => op[c] = "register"
  BY <1>1 DEF InRole, CleanupKinds, CreateKinds, CreateOps, Operations, Apis, Single
<1>9. Kind[c] = "deregister" => op[c] = "deregister"
  BY <1>1 DEF InRole, CleanupKinds, CreateKinds, CreateOps, Operations, Apis, Single
<1>10. /\ Kind[c] = "register" => Cloud!Named(c) \in backends
       /\ Kind[c] = "deregister" => Cloud!Named(c) \notin backends
  BY <1>2, <1>8, <1>9 DEF Took, Writes
<1> QED
  BY <1>3, <1>6, <1>7, <1>10 DEF Cloud!Holds

\* A call that receives its answer returns it, or goes on.
LEMMA DeliverSteps ==
  ASSUME Inv, CloudInv, NEW b \in batches, NEW c \in b.request, Deliver(b, c)
  PROVE  Cloud!Return(c) \/ UNCHANGED CloudState
<1>1. c \in Calls /\ Answering(c) /\ pc[c] = "sent"
  BY DeliverFacts
<1>2. Resume(c) /\ UNCHANGED <<live, backends, answer>>
  BY DEF Deliver, cloudVars
<1>3. /\ \A d \in Calls \ {c} : pc'[d] = pc[d]
      /\ pc'[c] = "done" \/ pc'[c] = "ready"
  BY <1>1, <1>2, ResumeCloud
<1>4. CASE pc'[c] = "done"
  <2>1. answer'[c].code \in {"ok", "notFound"} => Cloud!Holds(c)
    BY <1>1, <1>2, AnswerHolds
  <2> QED
    BY <1>1, <1>2, <1>3, <1>4, <2>1, ReturnOne
<1>5. CASE pc'[c] = "ready"
  <2>1. UNCHANGED [d \in Calls |-> Returned(d)]
    BY <1>1, <1>2, <1>3, <1>5, SameReturns
  <2> QED
    BY <1>2, <2>1 DEF CloudState
<1> QED
  BY <1>3, <1>4, <1>5

\* So does a call that has looked for the listener at its place.
LEMMA FindByPortSteps ==
  ASSUME Inv, CloudInv, NEW c \in Calls, FindByPort(c)
  PROVE  Cloud!Return(c) \/ UNCHANGED CloudState
<1>1. /\ pc[c] = "ready" /\ UNCHANGED <<live, backends>>
      /\ pc \in [Calls -> {"off", "ready", "sent", "done"}] /\ answer \in [Calls -> Answers]
  BY DEF FindByPort, cloudVars, Inv, TypeOK
<1>2. AtPlace(c) = {} <=> ~\E i \in live : Cloud!At(i, c)
  BY DEF AtPlace, Cloud!At
<1>3. ASSUME NEW r, Return(c, r), r.code = "err" \/ Cloud!Holds(c)
      PROVE  Cloud!Return(c)
  <2>1. /\ pc'[c] = "done" /\ answer'[c] = r
        /\ \A d \in Calls \ {c} : pc'[d] = pc[d] /\ answer'[d] = answer[d]
    BY <1>1, <1>3 DEF Return
  <2> QED
    BY <1>1, <1>3, <2>1, ReturnOne
<1>4. CASE Return(c, Say("err"))
  BY <1>3, <1>4 DEF Say
<1>5. CASE AtPlace(c) = {} /\ Kind[c] \in CleanupKinds /\ Return(c, Say("ok"))
  <2>1. Kind[c] = "cleanup" => Listener[c] \notin live
    BY <1>2, <1>5, PlacesAssumption DEF Cloud!At
  <2>2. Cloud!Holds(c)
    BY <1>2, <1>5, <2>1 DEF Cloud!Holds, Cloud!CreateKinds, CleanupKinds
  <2> QED
    BY <1>3, <1>5, <2>2
<1>6. CASE /\ AtPlace(c) # {} /\ Kind[c] \in CreateKinds
           /\ Return(c, [code |-> "ok", value |-> AtPlace(c)])
  <2>1. Cloud!Holds(c)
    BY <1>2, <1>6 DEF Cloud!Holds, CreateKinds
  <2> QED
    BY <1>3, <1>6, <2>1
<1>7. CASE \E o : Issue(c, o) /\ UNCHANGED answer
  <2>1. \A d \in Calls : pc'[d] = "done" <=> pc[d] = "done"
    BY <1>1, <1>7 DEF Issue
  <2>2. UNCHANGED [d \in Calls |-> Returned(d)]
    BY <1>7, <2>1, SameReturns
  <2> QED
    BY <1>1, <2>2 DEF CloudState
<1> QED
  BY <1>4, <1>5, <1>6, <1>7 DEF FindByPort

\* The other steps leave the cloud and what was returned as it is.
LEMMA QuietSteps ==
  ASSUME UNCHANGED <<live, backends, answer>>, \A c \in Calls : pc'[c] = "done" <=> pc[c] = "done"
  PROVE  UNCHANGED CloudState
BY SameReturns DEF CloudState

\* Answers are written for calls that have not returned.
LEMMA ToldSteps ==
  ASSUME Inv, NEW b \in batches, NEW R, R \subseteq Unanswered(b), NEW r, Tell(R, r),
         UNCHANGED <<live, backends, pc>>
  PROVE  UNCHANGED CloudState
<1>1. \A c \in R : pc[c] = "sent"
  BY CallOfBatch
<1>2. \A c \in Calls : pc[c] = "done" => answer'[c] = answer[c]
  BY <1>1 DEF Tell
<1> QED
  BY <1>2, SameReturns DEF CloudState

LEMMA CloudCallSteps ==
  ASSUME Inv, CloudInv, NEW b \in batches, CloudCall(b)
  PROVE  Cloud!Change \/ UNCHANGED CloudState
<1>1. CASE RegisterTargets(b) \/ DeregisterTargets(b)
  BY <1>1, TargetsSteps
<1>2. CASE ResourceInOperating(b)
  BY <1>2, QuietSteps DEF ResourceInOperating, cloudVars, callVars
<1>3. CASE \/ CallFails(b) \/ PortCheckFails(b) \/ CreateListeners(b) \/ CreateMismatch(b)
           \/ DeleteListeners(b) \/ DeleteUnanswered(b) \/ DeleteNotFound(b)
           \/ DescribeListeners(b) \/ DescribeTargets(b)
  <2>1. UNCHANGED <<live, backends, pc>>
    BY <1>3
       DEF CallFails, PortCheckFails, CreateListeners, CreateMismatch, DeleteListeners, DeleteUnanswered,
           DeleteNotFound, DescribeListeners, DescribeTargets, cloudVars, callVars
  <2>2. \E R : R \subseteq Unanswered(b) /\ \E r : Tell(R, r)
    <3>1. \A R \in Requests(b) : R \subseteq Unanswered(b)
      BY RequestsOf DEF Inv, Unanswered
    <3>2. b.todo \subseteq Unanswered(b)
      BY DEF Unanswered
    <3>3. CASE CallFails(b) \/ PortCheckFails(b) \/ CreateMismatch(b)
      BY <3>1, <3>3 DEF CallFails, PortCheckFails, CreateMismatch, TellAll
    <3>4. CASE CreateListeners(b)
      BY <3>1, <3>4 DEF CreateListeners
    <3>5. CASE DeleteListeners(b) \/ DeleteUnanswered(b)
      BY <3>2, <3>5 DEF DeleteListeners, DeleteUnanswered, TellAll
    <3>6. CASE DeleteNotFound(b)
      BY <3>2, <3>6 DEF DeleteNotFound
    <3>7. CASE DescribeListeners(b) \/ DescribeTargets(b)
      BY <3>2, <3>7 DEF DescribeListeners, DescribeTargets
    <3> QED
      BY <1>3, <3>3, <3>4, <3>5, <3>6, <3>7
  <2> QED
    BY <2>1, <2>2, ToldSteps
<1> QED
  BY <1>1, <1>2, <1>3 DEF CloudCall

LEMMA WaitSteps ==
  ASSUME Inv, CloudInv, NEW b \in batches, WaitSucceeds(b) \/ WaitFails(b) \/ WaitGivesUp(b)
  PROVE  Cloud!Change \/ UNCHANGED CloudState
<1>1. CASE WaitSucceeds(b)
  <2>1. TakesEffect(b.lb) /\ UNCHANGED <<pc, answer>> /\ b.lb \in LBs
    BY <1>1 DEF WaitSucceeds, TakesEffect, callVars, Inv, TypeOK, Batches
  <2> QED
    BY <2>1, EffectSteps
<1>2. CASE WaitFails(b) \/ WaitGivesUp(b)
  <2>1. UNCHANGED <<live, backends, pc>> /\ b.request \subseteq Unanswered(b)
    BY <1>2 DEF WaitFails, WaitGivesUp, cloudVars, callVars, Unanswered
  <2>2. \E r : Tell(b.request, r)
    BY <1>2 DEF WaitFails, WaitGivesUp, TellAll
  <2> QED
    BY <2>1, <2>2, ToldSteps
<1> QED
  BY <1>1, <1>2

LEMMA StepAllowed == Inv /\ CloudInv /\ [Next]_vars => [Cloud!Next]_CloudState
<1> SUFFICES ASSUME Inv, CloudInv, [Next]_vars PROVE Cloud!Next \/ UNCHANGED CloudState
  OBVIOUS
<1>1. ASSUME NEW c \in Calls, Caller(c)
      PROVE  Cloud!Return(c) \/ UNCHANGED CloudState
  <2>1. CASE FindByPort(c)
    BY <2>1, FindByPortSteps
  <2>2. CASE Send(c) \/ CallDirectly(c)
    <3>1. /\ UNCHANGED <<live, backends, answer>> /\ pc[c] = "ready" /\ pc' = [pc EXCEPT ![c] = "sent"]
      BY <2>2 DEF Send, CallDirectly, cloudVars
    <3>2. \A d \in Calls : pc'[d] = "done" <=> pc[d] = "done"
      BY <3>1 DEF Inv, TypeOK
    <3> QED
      BY <3>1, <3>2, QuietSteps
  <2> QED
    BY <1>1, <2>1, <2>2 DEF Caller
<1>2. ASSUME NEW a \in Apis, Processor(a)
      PROVE  UNCHANGED CloudState
  <2>1. UNCHANGED <<live, backends, answer, pc>>
    BY <1>2 DEF Processor, Timer, Receive, cloudVars, callVars
  <2> QED
    BY <2>1, QuietSteps
<1>3. ASSUME NEW b \in batches, Batch(b)
      PROVE  Cloud!Next \/ UNCHANGED CloudState
  <2>1. CASE LockLb(b)
    <3>1. UNCHANGED <<live, backends, answer, pc>>
      BY <2>1 DEF LockLb, cloudVars, callVars
    <3> QED
      BY <3>1, QuietSteps
  <2>2. CASE CloudCall(b)
    BY <2>2, CloudCallSteps DEF Cloud!Next
  <2>3. CASE WaitSucceeds(b) \/ WaitFails(b) \/ WaitGivesUp(b)
    BY <2>3, WaitSteps DEF Cloud!Next
  <2>4. ASSUME NEW c \in b.request, Deliver(b, c)
        PROVE  Cloud!Next \/ UNCHANGED CloudState
    <3>1. c \in Calls
      BY <2>4, DeliverFacts
    <3> QED
      BY <2>4, <3>1, DeliverSteps DEF Cloud!Next
  <2> QED
    BY <1>3, <2>1, <2>2, <2>3, <2>4 DEF Batch
<1>4. ASSUME NEW l \in LBs, TaskEnds(l)
      PROVE  Cloud!Next \/ UNCHANGED CloudState
  <2>1. UNCHANGED <<pc, answer>>
    BY <1>4 DEF TaskEnds, callVars
  <2>2. CASE TakesEffect(l)
    BY <2>1, <2>2, EffectSteps DEF Cloud!Next
  <2>3. CASE UNCHANGED <<live, backends>>
    BY <2>1, <2>3, QuietSteps
  <2> QED
    BY <1>4, <2>2, <2>3 DEF TaskEnds, TakesEffect
<1>5. CASE UNCHANGED vars
  <2>1. UNCHANGED <<live, backends, answer, pc>>
    BY <1>5 DEF vars
  <2> QED
    BY <2>1, QuietSteps
<1> QED
  BY <1>1, <1>2, <1>3, <1>4, <1>5 DEF Next, Cloud!Next

\* However many calls share how many batches, whatever the cloud answers and whenever its tasks
\* end: a call of package clb that returns success has taken effect when it returns and has none
\* later, and no listener or backend comes or goes that no unfinished or failed call asked for.
THEOREM ImplementsCallsCorrect == Spec => ImplementsCalls
<1>1. Init => Cloud!Init
  BY DEF Init, Cloud!Init, Returned
<1>2. Inv /\ CloudInv /\ [Next]_vars => [Cloud!Next]_CloudState
  BY StepAllowed
<1> QED
  BY <1>1, <1>2, CloudInvariance, PTL DEF Spec, ImplementsCalls, Cloud!Spec, CloudState
=============================================================================
