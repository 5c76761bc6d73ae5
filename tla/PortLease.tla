----------------------------- MODULE PortLease -----------------------------
(***************************************************************************)
(* What the allocator and the binding reconciler promise together, with    *)
(* the locking, the roll back and the caches left out: a slot (a port and  *)
(* layer-4 protocol of one load balancer) is leased to at most one         *)
(* binding, a binding gets slots only while nobody holds them, and gives   *)
(* back only its own.                                                      *)
(***************************************************************************)
CONSTANTS
  Bindings,  \* the CLBPodBinding and CLBNodeBinding objects
  Slots      \* everything a binding can be given

VARIABLE lease   \* lease[b]: the slots recorded in the status of binding b

LeaseTypeOK == lease \in [Bindings -> SUBSET Slots]

Leased == UNION {lease[b] : b \in Bindings}

Init == lease = [b \in Bindings |-> {}]

\* Only b's slots change, whatever they become.
Only(b) == lease' = [lease EXCEPT ![b] = lease'[b]]

Acquire(b) ==
  /\ Only(b)
  /\ lease[b] \subseteq lease'[b]
  /\ lease'[b] \ lease[b] \subseteq Slots \ Leased

GiveBack(b) ==
  /\ Only(b)
  /\ lease'[b] \subseteq lease[b]

Next == \E b \in Bindings : Acquire(b) \/ GiveBack(b)

Spec == Init /\ [][Next]_lease

Exclusive == \A b, c \in Bindings : b # c => lease[b] \cap lease[c] = {}
=============================================================================
