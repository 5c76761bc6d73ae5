----------------------------- MODULE MCPortPool -----------------------------
(* Small instances of PortPool.                                            *)
EXTENDS PortPool, TLC

CONSTANTS b1, b2, p1, p2, l1, l2

MCMembers == p1 :> {l1} @@ p2 :> {l2}

Ask1(P, proto, same) == [pools |-> P, protocol |-> proto, samePort |-> same]

\* p1 has pre-created listeners, UDP up to port 2, and no end port: its own walk goes round for
\* ever once port 1 is taken.  Entries for p1 alone use its segments 1-2 and 3-4, entries across
\* both pools 2-3 and 4-5.
MCPoolSpec ==
  p1 :> [startPort |-> 1, endPort |-> MaxUint16, segmentLength |-> 2, quota |-> 3,
         precreate |-> TRUE, tcp |-> 4, udp |-> 2] @@
  p2 :> [startPort |-> 2, endPort |-> 4, segmentLength |-> 2, quota |-> 3,
         precreate |-> FALSE, tcp |-> 0, udp |-> 0]

MCPortSpec ==
  b1 :> <<Ask1({p1}, "UDP", FALSE), Ask1({p1, p2}, "TCP", TRUE)>> @@
  b2 :> <<Ask1({p2}, "QUIC", FALSE), Ask1({p1}, "UDP", TRUE),
          Ask1({p1, p2}, "TCPUDP", FALSE)>>

\* Without pre-created listeners; an entry across both uses segments 3-4 and 5-6.
From(start) == [startPort |-> start, endPort |-> 6, segmentLength |-> 2, quota |-> 3,
                precreate |-> FALSE, tcp |-> 0, udp |-> 0]

PlainPoolSpec == p1 :> From(3) @@ p2 :> From(1)

PlainPortSpec ==
  b1 :> <<Ask1({p1, p2}, "UDP", TRUE)>> @@
  b2 :> <<Ask1({p1}, "TCP_SSL", FALSE), Ask1({p1, p2}, "TCPUDP", FALSE)>>

\* Two requests for p1 alone, which has one pre-created listener on their walk.
EndlessPortSpec == [b \in Bindings |-> <<Ask1({p1}, "UDP", TRUE)>>]

\* Segments that leave out the end port, as in docs/clb-port-pool.md.
OpenPoolSpec ==
  [p \in Pools |-> [startPort |-> 3, endPort |-> MaxUint16, segmentLength |-> 3, quota |-> 5,
                    precreate |-> FALSE, tcp |-> 0, udp |-> 0]]

OpenPortSpec ==
  b1 :> <<Ask1({p1}, "TCP", FALSE), Ask1({p1}, "TCP", FALSE)>> @@
  b2 :> <<Ask1({p1}, "TCP", FALSE)>>

\* The changes for the worse a behaviour contains: a pool that is deleted, a load balancer out
\* of its pool or out of the cloud, a port of p1 given up without a release (one of p2 counts
\* twice).
Disturbances ==
  Cardinality({p \in Pools : phase[p] = "Deleting"})
    + Cardinality(LBs \ cloud)
    + Cardinality(UNION {gone[p] : p \in Pools})
    + Cardinality(abandoned) + Cardinality({a \in abandoned : a.pool = p2})

OneDisturbance == Disturbances <= 1

\* p1 comes up before the first reconcile and stays; what is given up is b1's UDP port.
OnlyP2Disturbed ==
  /\ OneDisturbance
  /\ phase[p1] # "Deleting" /\ gone[p1] = {} /\ l1 \in cloud
  /\ (phase[p1] = "Active" /\ lbs[p1] # {}) \/ \A b \in Bindings : pc[b] = "idle"
  /\ \A a \in abandoned : a.pool = p1 /\ a.entry = 1
=============================================================================
