----------------------------- MODULE BatchCalls -----------------------------
(***************************************************************************)
(* Package clb between the reconcilers and the cloud: a call is put in the *)
(* channel of its API, a processor per API collects what arrives, groups   *)
(* it by load balancer, and a goroutine per batch makes one cloud request  *)
(* and answers the calls one after the other.  Batches that write hold the *)
(* load balancer's lock, as do the writes that are not batched.  Creations *)
(* and deletions are tasks of the cloud that end later than the request.   *)
(*                                                                         *)
(* A call is made once.  The order of the calls in a channel decides which *)
(* of them share a batch and nothing else, so channels are sets.           *)
(***************************************************************************)
EXTENDS Integers, FiniteSets

CONSTANTS
  Calls,              \* calls of the reconcilers, one element per invocation
  LBs,                \* load balancers
  Ports,              \* a port and protocol of a load balancer
  Old,                \* listeners that exist at the start
  Targets,            \* backends
  None,
  Kind,               \* Kind[c]: the function that is called
  Lb, Port,           \* the place of a listener or call
  Listener, Target,   \* what call c names, where it names one
  Group,              \* Group[c]: protocol, certificate and parameters of a creation
  Mixes,              \* sets of calls: those made in one behaviour
  Capacity,           \* Capacity[a]: the size of a channel
  MaxAccumulatedTask, \* a processor that has so many tasks does not wait for its timer
  MaxTaskOneBatch,    \* MaxTaskOneBatch[a]
  MaxPortsPerCreate,  \* ports of one CreateListener request
  InOperatingRetryMax \* how often a write to a busy load balancer is repeated

\* The APIs with a processor, and the two writes that have none.
Apis == {"create", "describe", "delete", "register", "targets", "deregister"}
Single == {"createOne", "deleteOne"}
Writes == {"create", "delete", "register", "deregister"} \cup Single
Operations == Apis \cup Single \cup {"byPort"}

CreateKinds == {"create", "createRange"}
CleanupKinds == {"cleanup", "cleanupPort"}
Kinds == CreateKinds \cup CleanupKinds \cup {"describe", "register", "deregister", "unbind"}

Ids == Old \cup Calls  \* a call stands for the listener it creates
Groups == {Group[c] : c \in Calls}
Backend == [listener: Ids, target: Targets]

ASSUME ConstantsAssumption ==
  /\ Kind \in [Calls -> Kinds]
  /\ Lb \in [Ids -> LBs] /\ Port \in [Ids -> Ports]
  /\ Listener \in [Calls -> Old] /\ Target \in [Calls -> Targets]
  /\ None \notin Groups
  /\ Mixes \subseteq SUBSET Calls
  /\ Old \cap Calls = {} /\ IsFiniteSet(Calls)

\* The callers pass what one entry of a binding's status has: a listener is named with its load
\* balancer, and to be deleted with its port.
ASSUME PlacesAssumption ==
  \A c \in Calls :
    /\ Kind[c] \in {"cleanup", "register", "deregister", "unbind"} => Lb[Listener[c]] = Lb[c]
    /\ Kind[c] = "cleanup" => Port[Listener[c]] = Port[c]

ASSUME LimitsAssumption ==
  /\ Capacity \in [Apis -> Nat \ {0}] /\ MaxTaskOneBatch \in [Apis -> Nat \ {0}]
  /\ MaxAccumulatedTask \in Nat \ {0} /\ MaxPortsPerCreate \in Nat \ {0}
  /\ InOperatingRetryMax \in Nat

VARIABLES
  live,      \* cloud: the listeners that exist
  backends,  \* cloud: the backends registered to listeners
  task,      \* cloud: task[l], the listeners an unfinished task of l creates and deletes
  pc,        \* caller: "off", "ready" to issue op, "sent", "done"
  op,        \* caller: the operation it issues or waits for
  arg,       \* caller: what an earlier answer told it to delete or deregister
  again,     \* caller: it is creating for the second time
  answer,    \* what the batch found for the call
  channel,   \* channel[a]: calls no processor has received
  tasks,     \* tasks[a]: calls the processor has collected
  batches,   \* goroutines at work on a batch
  lock       \* lock[l]: the calls of the batch that holds the lock, {} when free

cloudVars == <<live, backends, task>>
callVars == <<pc, op, arg, again>>
queueVars == <<channel, tasks>>
vars == <<live, backends, task, pc, op, arg, again, answer, channel, tasks, batches, lock>>

Codes == {"none", "ok", "err", "busy", "notFound", "otherNotFound"}
Answers == [code: Codes, value: SUBSET (Ids \cup Targets)]
Say(code) == [code |-> code, value |-> {}]

\* todo: calls that are in no request yet; request: calls of the current request.
Batches == [op: Apis \cup Single, lb: LBs, calls: SUBSET Calls, todo: SUBSET Calls,
            request: SUBSET Calls, group: Groups \cup {None},
            step: {"lock", "call", "wait", "answer"}, retries: 0..InOperatingRetryMax]

NoTask == [add |-> {}, del |-> {}]

\* Every variable keeps its type; retries never exceed resourceInOperatingRetryMax.
TypeOK ==
  /\ live \in SUBSET Ids
  /\ backends \in SUBSET Backend
  /\ task \in [LBs -> [add: SUBSET Ids, del: SUBSET Ids]]
  /\ pc \in [Calls -> {"off", "ready", "sent", "done"}]
  /\ op \in [Calls -> Operations]
  /\ arg \in [Calls -> SUBSET (Ids \cup Targets)]
  /\ again \in [Calls -> BOOLEAN]
  /\ answer \in [Calls -> Answers]
  /\ channel \in [Apis -> SUBSET Calls]
  /\ tasks \in [Apis -> SUBSET Calls]
  /\ batches \in SUBSET Batches
  /\ lock \in [LBs -> SUBSET Calls]

-----------------------------------------------------------------------------
FirstOp(c) ==
  CASE Kind[c] = "create" -> "create"
    [] Kind[c] = "createRange" -> "createOne"
    [] Kind[c] = "cleanup" -> "delete"
    [] Kind[c] = "cleanupPort" -> "byPort"
    [] Kind[c] = "unbind" -> "targets"
    [] OTHER -> Kind[c]

FirstArg(c) == IF Kind[c] \in {"register", "deregister"} THEN {Target[c]} ELSE {}

Init ==
  /\ live = Old
  /\ backends \in SUBSET [listener: Old, target: Targets]
  /\ task = [l \in LBs |-> NoTask]
  /\ \E m \in Mixes : pc = [c \in Calls |-> IF c \in m THEN "ready" ELSE "off"]
  /\ op = [c \in Calls |-> FirstOp(c)]
  /\ arg = [c \in Calls |-> FirstArg(c)]
  /\ again = [c \in Calls |-> FALSE]
  /\ answer = [c \in Calls |-> Say("none")]
  /\ channel = [a \in Apis |-> {}]
  /\ tasks = [a \in Apis |-> {}]
  /\ batches = {}
  /\ lock = [l \in LBs |-> {}]

\* The listeners at the place of call c.
AtPlace(c) == {i \in live : Lb[i] = Lb[c] /\ Port[i] = Port[c]}

-----------------------------------------------------------------------------
(* The callers.                                                            *)

Issue(c, o) == pc' = [pc EXCEPT ![c] = "ready"] /\ op' = [op EXCEPT ![c] = o]

Return(c, r) ==
  /\ pc' = [pc EXCEPT ![c] = "done"]
  /\ answer' = [answer EXCEPT ![c] = r]
  /\ UNCHANGED <<op, arg, again>>

\* A send blocks while the channel is full.
Send(c) ==
  /\ pc[c] = "ready" /\ op[c] \in Apis
  /\ Cardinality(channel[op[c]]) < Capacity[op[c]]
  /\ channel' = [channel EXCEPT ![op[c]] = @ \cup {c}]
  /\ pc' = [pc EXCEPT ![c] = "sent"]
  /\ UNCHANGED <<cloudVars, op, arg, again, answer, tasks, batches, lock>>

NewBatch(o, l, C) ==
  [op |-> o, lb |-> l, calls |-> C, todo |-> C, request |-> {}, group |-> None,
   step |-> IF o \in Writes THEN "lock" ELSE "call", retries |-> 0]

\* CreateListener for a port range and DeleteListener: a batch of one, in the caller's goroutine.
CallDirectly(c) ==
  /\ pc[c] = "ready" /\ op[c] \in Single
  /\ batches' = batches \cup {NewBatch(op[c], Lb[c], {c})}
  /\ pc' = [pc EXCEPT ![c] = "sent"]
  /\ UNCHANGED <<cloudVars, op, arg, again, answer, queueVars, lock>>

\* GetListenerByPort: to find the listener to delete, or the one that is in the way of a creation.
FindByPort(c) ==
  /\ pc[c] = "ready" /\ op[c] = "byPort"
  /\ \/ Return(c, Say("err"))
     \/ /\ AtPlace(c) = {} /\ Kind[c] \in CleanupKinds
        /\ Return(c, Say("ok"))
     \/ /\ AtPlace(c) = {} /\ Kind[c] \in CreateKinds
        /\ Issue(c, FirstOp(c))
        /\ again' = [again EXCEPT ![c] = TRUE]
        /\ UNCHANGED <<arg, answer>>
     \/ /\ AtPlace(c) # {} /\ Kind[c] \in CleanupKinds
        /\ Issue(c, "deleteOne")
        /\ arg' = [arg EXCEPT ![c] = AtPlace(c)]
        /\ UNCHANGED <<again, answer>>
     \/ /\ AtPlace(c) # {} /\ Kind[c] \in CreateKinds
        /\ Return(c, [code |-> "ok", value |-> AtPlace(c)])
  /\ UNCHANGED <<cloudVars, queueVars, batches, lock>>

\* The operation the answer to the current one leads to.
NextOp(c) ==
  CASE op[c] \in {"create", "createOne"} /\ answer[c].code = "busy" /\ ~again[c] -> "byPort"
    [] op[c] = "delete" /\ answer[c].code = "otherNotFound" -> "byPort"
    [] op[c] = "targets" /\ answer[c].value # {} -> "deregister"
    [] OTHER -> "none"

\* The caller receives its answer and goes on with it.
Resume(c) ==
  IF NextOp(c) = "none"
  THEN pc' = [pc EXCEPT ![c] = "done"] /\ UNCHANGED <<op, arg, again>>
  ELSE /\ Issue(c, NextOp(c))
       /\ arg' = [arg EXCEPT ![c] = answer[c].value]
       /\ UNCHANGED again

-----------------------------------------------------------------------------
(* The processors.                                                         *)

OfOneLb(C) == \A c, d \in C : Lb[c] = Lb[d]

\* What may become one batch.
Blocks(T, n) == {C \in SUBSET T : C # {} /\ OfOneLb(C) /\ Cardinality(C) <= n}

\* Mutant: one batch per load balancer, what is over the limit is forgotten.
OneBlockPerLb(T, n) ==
  {P \in SUBSET Blocks(T, n) :
     \A c \in T : Cardinality({C \in P : \E d \in C : Lb[c] = Lb[d]}) = 1}

\* T split by load balancer and cut into blocks of n, the last of a load balancer may be smaller.
Chunkings(T, n) ==
  {P \in SUBSET Blocks(T, n) :
     /\ UNION P = T
     /\ \A C, D \in P : C # D => C \cap D = {}
     /\ \A C, D \in P : OfOneLb(C \cup D) /\ Cardinality(C) < n /\ Cardinality(D) < n => C = D}

\* batchRequest: a goroutine for each block.
Flush(a, T) ==
  \E P \in Chunkings(T, MaxTaskOneBatch[a]) :
    batches' = batches \cup {NewBatch(a, Lb[CHOOSE c \in C : TRUE], C) : C \in P}

Receive(a, c) ==
  /\ c \in channel[a]
  /\ channel' = [channel EXCEPT ![a] = @ \ {c}]
  /\ IF Cardinality(tasks[a] \cup {c}) >= MaxAccumulatedTask
     THEN Flush(a, tasks[a] \cup {c}) /\ tasks' = [tasks EXCEPT ![a] = {}]
     ELSE tasks' = [tasks EXCEPT ![a] = @ \cup {c}] /\ UNCHANGED batches
  /\ UNCHANGED <<cloudVars, callVars, answer, lock>>

\* The timer of the processor fires.
Timer(a) ==
  /\ tasks[a] # {}
  /\ Flush(a, tasks[a])
  /\ tasks' = [tasks EXCEPT ![a] = {}]
  /\ UNCHANGED <<cloudVars, callVars, answer, channel, lock>>

-----------------------------------------------------------------------------
(* A batch.  A write holds the lock of its load balancer from its first    *)
(* request until its last answer was received.                             *)

Advance(b, new) == batches' = (batches \ {b}) \cup {new}

\* Mutant: every processor has locks of its own.
LockPerApi(b) ==
  /\ b.step = "lock" /\ \A d \in batches : lock[b.lb] = d.calls => d.op # b.op
  /\ lock' = [lock EXCEPT ![b.lb] = b.calls]
  /\ Advance(b, [b EXCEPT !.step = "call"])
  /\ UNCHANGED <<cloudVars, callVars, answer, queueVars>>

LockLb(b) ==
  /\ b.step = "lock" /\ lock[b.lb] = {}
  /\ lock' = [lock EXCEPT ![b.lb] = b.calls]
  /\ Advance(b, [b EXCEPT !.step = "call"])
  /\ UNCHANGED <<cloudVars, callVars, answer, queueVars>>

\* The calls of the next request.  Creations are grouped by what is common to a request, a
\* group is finished before the next, and the number of ports of a request is limited.
InGroup(b, g) == {c \in b.todo : Group[c] = g}

CreateRequests(b) ==
  {R \in SUBSET b.todo :
     \E g \in Groups :
       /\ R # {} /\ R \subseteq InGroup(b, g)
       /\ InGroup(b, b.group) # {} => g = b.group
       /\ \/ Cardinality(R) = MaxPortsPerCreate
          \/ Cardinality(R) < MaxPortsPerCreate /\ R = InGroup(b, g)}

Requests(b) == IF b.op = "create" THEN CreateRequests(b) ELSE {b.todo}

GroupOf(b, R) == IF b.op = "create" THEN Group[CHOOSE c \in R : TRUE] ELSE b.group

\* The request R is over or under way; on "answer", r[c] is what call c will be told.
Requested(b, R, step) ==
  Advance(b, [b EXCEPT !.todo = @ \ R, !.request = R, !.group = GroupOf(b, R), !.step = step,
                       !.retries = 0])

Tell(R, r) == answer' = [c \in Calls |-> IF c \in R THEN r[c] ELSE answer[c]]

TellAll(R, code) == Tell(R, [c \in R |-> Say(code)])

Calling(b, o) == b.step = "call" /\ b.op \in o

\* ApiCall returned another error: all calls of the request get it.
CallFails(b) ==
  /\ b.step = "call"
  /\ \E R \in Requests(b) : Requested(b, R, "answer") /\ TellAll(R, "err")
  /\ UNCHANGED <<cloudVars, callVars, queueVars, lock>>

\* Mutant: a busy load balancer is asked again and again.
InOperatingForEver(b) ==
  /\ Calling(b, Writes \ Single) /\ task[b.lb] # NoTask
  /\ Advance(b, [b EXCEPT !.retries = @ + 1])
  /\ UNCHANGED <<cloudVars, callVars, answer, queueVars, lock>>

\* The load balancer is busy with a task: ApiCall repeats a write a few times, the two
\* unbatched writes do not go through it.
ResourceInOperating(b) ==
  /\ Calling(b, Writes \ Single) /\ task[b.lb] # NoTask /\ b.retries < InOperatingRetryMax
  /\ Advance(b, [b EXCEPT !.retries = @ + 1])
  /\ UNCHANGED <<cloudVars, callVars, answer, queueVars, lock>>

\* Two creations at one place, or one where a listener is: the whole request is refused.
PortTaken(R) ==
  \/ \E c \in R : AtPlace(c) # {}
  \/ \E c, d \in R : c # d /\ Port[c] = Port[d]

PortCheckFails(b) ==
  /\ Calling(b, {"create", "createOne"}) /\ task[b.lb] = NoTask
  /\ \E R \in Requests(b) : PortTaken(R) /\ Requested(b, R, "answer") /\ TellAll(R, "busy")
  /\ UNCHANGED <<cloudVars, callVars, queueVars, lock>>

\* The i-th listener of the response is for the i-th port of the request.
CreateListeners(b) ==
  /\ Calling(b, {"create", "createOne"}) /\ task[b.lb] = NoTask
  /\ \E R \in Requests(b) :
       /\ ~PortTaken(R)
       /\ task' = [task EXCEPT ![b.lb] = [add |-> R, del |-> {}]]
       /\ Requested(b, R, "wait")
       /\ Tell(R, [c \in R |-> [code |-> "ok", value |-> {c}]])
  /\ UNCHANGED <<live, backends, callVars, queueVars, lock>>

\* The answer is lost, or it names another number of listeners than was asked for: an error for all.
CreateMismatch(b) ==
  /\ Calling(b, {"create", "createOne"}) /\ task[b.lb] = NoTask
  /\ \E R \in Requests(b) : \E S \in SUBSET R :
       /\ ~PortTaken(R)
       /\ task' = [task EXCEPT ![b.lb] = [add |-> S, del |-> {}]]
       /\ Requested(b, R, "answer")
       /\ TellAll(R, "err")
  /\ UNCHANGED <<live, backends, callVars, queueVars, lock>>

Doomed(b) == IF b.op = "delete" THEN {Listener[c] : c \in b.todo} ELSE UNION {arg[c] : c \in b.todo}

DeleteListeners(b) ==
  /\ Calling(b, {"delete", "deleteOne"}) /\ task[b.lb] = NoTask
  /\ Doomed(b) \subseteq live
  /\ task' = [task EXCEPT ![b.lb] = [add |-> {}, del |-> Doomed(b)]]
  /\ Requested(b, b.todo, "wait")
  /\ TellAll(b.todo, "ok")
  /\ UNCHANGED <<live, backends, callVars, queueVars, lock>>

\* Mutant: the calls whose listener is named are the ones told to try again.
DeleteSwapped(b) ==
  /\ Calling(b, {"delete"}) /\ task[b.lb] = NoTask
  /\ \E N \in SUBSET (Doomed(b) \ live) :
       /\ N # {}
       /\ Requested(b, b.todo, "answer")
       /\ Tell(b.todo, [c \in b.todo |->
                          Say(IF Listener[c] \in N THEN "otherNotFound" ELSE "notFound")])
  /\ UNCHANGED <<cloudVars, callVars, queueVars, lock>>

\* The load balancer deletes the listeners, but the answer to the request is lost.
DeleteUnanswered(b) ==
  /\ Calling(b, {"delete", "deleteOne"}) /\ task[b.lb] = NoTask
  /\ Doomed(b) \subseteq live
  /\ task' = [task EXCEPT ![b.lb] = [add |-> {}, del |-> Doomed(b)]]
  /\ Requested(b, b.todo, "answer")
  /\ TellAll(b.todo, "err")
  /\ UNCHANGED <<live, backends, callVars, queueVars, lock>>

\* Some listeners do not exist: nothing is deleted, and the error names some that are missing.
DeleteNotFound(b) ==
  /\ Calling(b, {"delete"}) /\ task[b.lb] = NoTask
  /\ \E N \in SUBSET (Doomed(b) \ live) :
       /\ N # {}
       /\ Requested(b, b.todo, "answer")
       /\ Tell(b.todo, [c \in b.todo |->
                          Say(IF Listener[c] \in N THEN "notFound" ELSE "otherNotFound")])
  /\ UNCHANGED <<cloudVars, callVars, queueVars, lock>>

\* DescribeTaskStatus says that the task is done.
WaitSucceeds(b) ==
  /\ b.step = "wait"
  /\ live' = (live \cup task[b.lb].add) \ task[b.lb].del
  /\ backends' = {k \in backends : k.listener \notin task[b.lb].del}
  /\ task' = [task EXCEPT ![b.lb] = NoTask]
  /\ Advance(b, [b EXCEPT !.step = "answer"])
  /\ UNCHANGED <<callVars, answer, queueVars, lock>>

WaitFails(b) ==
  /\ b.step = "wait"
  /\ task' = [task EXCEPT ![b.lb] = NoTask]
  /\ Advance(b, [b EXCEPT !.step = "answer"])
  /\ TellAll(b.request, "err")
  /\ UNCHANGED <<live, backends, callVars, queueVars, lock>>

\* The status cannot be read, or the task takes too long: it goes on without the program.
WaitGivesUp(b) ==
  /\ b.step = "wait"
  /\ Advance(b, [b EXCEPT !.step = "answer"])
  /\ TellAll(b.request, "err")
  /\ UNCHANGED <<cloudVars, callVars, queueVars, lock>>

\* A task nobody waits for ends, with or without effect.
TaskEnds(l) ==
  /\ task[l] # NoTask /\ \A b \in batches : b.lb = l => b.step # "wait"
  /\ \/ /\ live' = (live \cup task[l].add) \ task[l].del
        /\ backends' = {k \in backends : k.listener \notin task[l].del}
     \/ UNCHANGED <<live, backends>>
  /\ task' = [task EXCEPT ![l] = NoTask]
  /\ UNCHANGED <<callVars, answer, queueVars, batches, lock>>

Named(c) == {[listener |-> Listener[c], target |-> t] : t \in arg[c]}

\* Listeners in F are named in FailListenerIdSet, those that do not exist among them; backends
\* of a failed listener may be registered all the same.
RegisterTargets(b) ==
  /\ Calling(b, {"register"}) /\ task[b.lb] = NoTask
  /\ \E F \in SUBSET {Listener[c] : c \in b.todo} :
       \E G \in SUBSET {c \in b.todo : Listener[c] \in F \cap live} :
         /\ \A c \in b.todo : Listener[c] \notin live => Listener[c] \in F
         /\ backends' = backends \cup
              UNION {Named(c) : c \in G \cup {d \in b.todo : Listener[d] \notin F}}
         /\ Requested(b, b.todo, "answer")
         /\ Tell(b.todo, [c \in b.todo |-> Say(IF Listener[c] \in F THEN "err" ELSE "ok")])
  /\ UNCHANGED <<live, task, callVars, queueVars, lock>>

DeregisterTargets(b) ==
  /\ Calling(b, {"deregister"}) /\ task[b.lb] = NoTask
  /\ \E F \in SUBSET {Listener[c] : c \in b.todo} :
       \E G \in SUBSET {c \in b.todo : Listener[c] \in F} :
         /\ backends' = backends \
              UNION {Named(c) : c \in G \cup {d \in b.todo : Listener[d] \notin F}}
         /\ Requested(b, b.todo, "answer")
         /\ Tell(b.todo, [c \in b.todo |-> Say(IF Listener[c] \in F THEN "err" ELSE "ok")])
  /\ UNCHANGED <<live, task, callVars, queueVars, lock>>

\* Mutant: only the listeners of the response are answered.
DescribeFound(b) ==
  /\ Calling(b, {"describe"})
  /\ Advance(b, [b EXCEPT !.todo = {}, !.request = {c \in b.todo : Listener[c] \in live},
                          !.step = "answer"])
  /\ Tell(b.todo, [c \in b.todo |-> [code |-> "ok", value |-> {Listener[c]} \cap live]])
  /\ UNCHANGED <<cloudVars, callVars, queueVars, lock>>

\* A call whose listener is not in the response gets an empty answer.
DescribeListeners(b) ==
  /\ Calling(b, {"describe"})
  /\ Requested(b, b.todo, "answer")
  /\ Tell(b.todo, [c \in b.todo |-> [code |-> "ok", value |-> {Listener[c]} \cap live]])
  /\ UNCHANGED <<cloudVars, callVars, queueVars, lock>>

Registered(i) == {k.target : k \in {m \in backends : m.listener = i}}

DescribeTargets(b) ==
  /\ Calling(b, {"targets"})
  /\ Requested(b, b.todo, "answer")
  /\ Tell(b.todo, [c \in b.todo |-> [code |-> "ok", value |-> Registered(Listener[c])]])
  /\ UNCHANGED <<cloudVars, callVars, queueVars, lock>>

\* The goroutine ends: doBatch returns and the deferred Unlock runs.
End(b) ==
  /\ batches' = batches \ {b}
  /\ lock' = IF b.op \in Writes THEN [lock EXCEPT ![b.lb] = {}] ELSE lock

\* The result channel has no buffer: the batch and the caller meet.
Deliver(b, c) ==
  /\ b.step = "answer" /\ c \in b.request /\ pc[c] = "sent"
  /\ Resume(c)
  /\ IF b.request # {c}
     THEN Advance(b, [b EXCEPT !.request = @ \ {c}]) /\ UNCHANGED lock
     ELSE IF b.todo # {}
     THEN Advance(b, [b EXCEPT !.request = {}, !.step = "call"]) /\ UNCHANGED lock
     ELSE End(b)
  /\ UNCHANGED <<cloudVars, answer, queueVars>>

-----------------------------------------------------------------------------
Caller(c) == Send(c) \/ CallDirectly(c) \/ FindByPort(c)

Processor(a) == Timer(a) \/ \E c \in channel[a] : Receive(a, c)

CloudCall(b) ==
  \/ CallFails(b) \/ ResourceInOperating(b)
  \/ PortCheckFails(b) \/ CreateListeners(b) \/ CreateMismatch(b)
  \/ DeleteListeners(b) \/ DeleteUnanswered(b) \/ DeleteNotFound(b)
  \/ RegisterTargets(b) \/ DeregisterTargets(b)
  \/ DescribeListeners(b) \/ DescribeTargets(b)

Batch(b) ==
  \/ LockLb(b) \/ CloudCall(b)
  \/ WaitSucceeds(b) \/ WaitFails(b) \/ WaitGivesUp(b)
  \/ \E c \in b.request : Deliver(b, c)

Next ==
  \/ \E c \in Calls : Caller(c)
  \/ \E a \in Apis : Processor(a)
  \/ \E b \in batches : Batch(b)
  \/ \E l \in LBs : TaskEnds(l)

Spec == Init /\ [][Next]_vars

\* Goroutines that can run are run.  The cloud answers a request in one way or another, and not
\* with RequestLimitExceeded for ever (ApiCall repeats such a request without a limit).
Fairness ==
  /\ \A c \in Calls : WF_vars(Caller(c))
  /\ \A a \in Apis : WF_vars(Processor(a))
  /\ WF_vars(\E b \in batches : Batch(b))

FairSpec == Spec /\ Fairness
-----------------------------------------------------------------------------
(* Safety.                                                                 *)

Unanswered(b) == b.todo \cup b.request

Places(c) ==
  {<<"channel", a>> : a \in {x \in Apis : c \in channel[x]}}
    \cup {<<"tasks", a>> : a \in {x \in Apis : c \in tasks[x]}}
    \cup {<<"batch", b>> : b \in {x \in batches : c \in Unanswered(x)}}

\* A call that waits is in one place and is expected to wait: it is never lost between channel,
\* processor and batch, and never answered twice (the second send would block with the lock held).
Placed ==
  \A c \in Calls : IF pc[c] = "sent" THEN Cardinality(Places(c)) = 1 ELSE Places(c) = {}

\* A batch that writes to a load balancer is alone at it, until its last answer is received.
OneWriter ==
  \A b, d \in batches :
    b.lb = d.lb /\ b.op \in Writes /\ d.op \in Writes /\ b.step # "lock" /\ d.step # "lock" => b = d

-----------------------------------------------------------------------------
(* The package implements calls that are true when they return.            *)

Returned(c) ==
  IF pc[c] # "done" THEN "none"
  ELSE IF answer[c].code \in {"ok", "notFound"} THEN "ok" ELSE "err"

Cloud == INSTANCE CloudCalls WITH returned <- [c \in Calls |-> Returned(c)]

\* Every behaviour of the package is one CloudCalls allows: a call that reports success has taken
\* effect and takes none later, and nothing changes at the cloud that no call asked for.
ImplementsCalls == Cloud!Spec

-----------------------------------------------------------------------------
(* Liveness.                                                               *)

\* Every call that is made returns, whatever the cloud answers and whoever else wants the load
\* balancer: no call waits for ever for its batch, its answer or the lock.
EveryCallReturns == <>(\A c \in Calls : pc[c] \in {"off", "done"})
=============================================================================
