----------------------------- MODULE CloudCalls -----------------------------
(***************************************************************************)
(* What a caller of package clb may rely on, with queues, batches, locks   *)
(* and the tasks of the cloud left out.  A call that returned success has  *)
(* taken effect when it returns and has no effect later; a call that       *)
(* returned an error may have taken effect, or may take effect yet; the    *)
(* cloud changes on behalf of calls only.                                  *)
(***************************************************************************)
CONSTANTS
  Calls,      \* the calls, one element per invocation
  Kind,       \* Kind[c]: what call c asks for
  Old,        \* listeners that exist at the start
  Targets,    \* backends
  Lb, Port,   \* the place of a listener or of a call: its load balancer, its port
  Listener,   \* Listener[c]: the listener call c names
  Target      \* Target[c]: the backend call c registers or deregisters

CreateKinds == {"create", "createRange"}
CleanupKinds == {"cleanup", "cleanupPort"}

\* A call creates one listener at most, the call stands for the listener it creates.
Ids == Old \cup Calls

Backend == [listener: Ids, target: Targets]

VARIABLES
  live,       \* the listeners that exist
  backends,   \* the backends registered to listeners
  returned    \* returned[c]: "none", or what the call came back with

Outcomes == {"none", "ok", "err"}

At(i, c) == Lb[i] = Lb[c] /\ Port[i] = Port[c]

Named(c) == [listener |-> Listener[c], target |-> Target[c]]

\* What success of call c says.  The answer to a query may be out of date when it is used.
Holds(c) ==
  /\ Kind[c] \in CreateKinds => \E i \in live : At(i, c)
  /\ Kind[c] = "cleanup" => Listener[c] \notin live
  /\ Kind[c] = "cleanupPort" => ~\E i \in live : At(i, c)
  /\ Kind[c] = "register" => Named(c) \in backends
  /\ Kind[c] = "deregister" => Named(c) \notin backends

\* Call c can still change the cloud.
Pending(c) == returned[c] # "ok"

Init ==
  /\ live \subseteq Old
  /\ backends \subseteq [listener: live, target: Targets]
  /\ returned = [c \in Calls |-> "none"]

Appears(i) == i \in Calls /\ Kind[i] \in CreateKinds /\ Pending(i)

Vanishes(i) == \E c \in Calls : Kind[c] \in CleanupKinds /\ At(i, c) /\ Pending(c)

Registers(k) ==
  \E c \in Calls : Kind[c] = "register" /\ Pending(c) /\ k = Named(c)

Deregisters(k) ==
  \/ k.listener \notin live'
  \/ \E c \in Calls :
       /\ \/ Kind[c] = "unbind" /\ Listener[c] = k.listener
          \/ Kind[c] = "deregister" /\ k = Named(c)
       /\ Pending(c)

Change ==
  /\ \A i \in live' \ live : Appears(i)
  /\ \A i \in live \ live' : Vanishes(i)
  /\ \A k \in backends' \ backends : Registers(k)
  /\ \A k \in backends \ backends' : Deregisters(k)
  /\ UNCHANGED returned

Return(c) ==
  /\ returned[c] = "none"
  /\ \E r \in {"ok", "err"} : returned' = [returned EXCEPT ![c] = r]
  /\ returned'[c] = "ok" => Holds(c)
  /\ UNCHANGED <<live, backends>>

Next == Change \/ \E c \in Calls : Return(c)

Spec == Init /\ [][Next]_<<live, backends, returned>>
=============================================================================
