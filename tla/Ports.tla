------------------------------- MODULE Ports -------------------------------
(***************************************************************************)
(* The data of the port allocator (internal/portpool): protocol ports, the *)
(* key they are recorded under, the ports a request stands for, the walk   *)
(* over a pool's range in uint16 arithmetic, and the test whether a port   *)
(* of a load balancer can be taken.  There is no state here.               *)
(***************************************************************************)
EXTENDS Integers, FiniteSets

CONSTANT
  MaxUint16   \* the largest port number; 65535 in the code, small in a model

ASSUME MaxUint16Assumption == MaxUint16 \in Nat

Uint16 == 0 .. MaxUint16

\* Addition of uint16 values discards the carry.
Wrap(n) == n % (MaxUint16 + 1)

L4Protocols == {"TCP", "UDP"}
ListenerProtocols == L4Protocols \cup {"TCP_SSL", "QUIC"}
Protocols == ListenerProtocols \cup {"TCPUDP"}

\* endPort is 0 for a listener that is not a port segment.
ProtocolPort == [port: Uint16, endPort: Uint16, protocol: ListenerProtocols]

(***************************************************************************)
(* TCP_SSL listens on TCP and QUIC on UDP: a port is recorded under its    *)
(* layer-4 protocol so that a load balancer never gets both.               *)
(***************************************************************************)
L4Protocol(protocol) ==
  CASE protocol = "TCP_SSL" -> "TCP"
    [] protocol = "QUIC"    -> "UDP"
    [] OTHER                -> protocol

Key(port) == [port EXCEPT !.protocol = L4Protocol(@)]

\* For a mutant: the key that forgets the layer-4 protocol.
RawKey(port) == port

(***************************************************************************)
(* A TCPUDP request takes the same number for TCP and for UDP, every other *)
(* request takes one port of its own protocol.                             *)
(***************************************************************************)
ListenersOf(protocol) == IF protocol = "TCPUDP" THEN L4Protocols ELSE {protocol}

PortsToAllocate(port, endPort, protocol) ==
  {[port |-> port, endPort |-> endPort, protocol |-> l] : l \in ListenersOf(protocol)}

\* Mutant: the segment has a port too many.
LongSegmentEnd(port, segmentLength) == IF segmentLength > 1 THEN Wrap(port + segmentLength) ELSE 0

SegmentEnd(port, segmentLength) ==
  IF segmentLength > 1 THEN Wrap(port + segmentLength - 1) ELSE 0

(***************************************************************************)
(* for port := startPort; port <= endPort; port += segmentLength           *)
(* The k-th port of the walk, and the k the walk reaches.  The walk is     *)
(* periodic with a period that divides MaxUint16 + 1, so it never ends     *)
(* when its first MaxUint16 + 1 ports all satisfy the loop's condition.    *)
(***************************************************************************)
WalkPort(start, segmentLength, k) == Wrap(start + k * segmentLength)

Walk(start, end, segmentLength) ==
  {k \in Uint16 : \A j \in 0 .. k : WalkPort(start, segmentLength, j) <= end}

Endless(start, end, segmentLength) == Walk(start, end, segmentLength) = Uint16

(***************************************************************************)
(* Listener pre-creation restricts TCP and UDP to the ports that have a    *)
(* pre-created listener.  A maximum of 0 means that no listener of that    *)
(* protocol is pre-created, and restricts nothing here: requests for such  *)
(* a protocol are refused before they get here (IsProtocolPrecreated).     *)
(***************************************************************************)
NoPrecreation == [enabled |-> FALSE, tcp |-> 0, udp |-> 0]

MaxPortOf(startPort, number) == IF number > 0 THEN Wrap(startPort + number - 1) ELSE 0

PrecreatedUpTo(maxPort, protocol) == IF protocol = "TCP" THEN maxPort.tcp ELSE maxPort.udp

WithinPrecreated(maxPort, port) ==
  maxPort.enabled =>
    \/ PrecreatedUpTo(maxPort, port.protocol) = 0
    \/ port.port <= PrecreatedUpTo(maxPort, port.protocol)

IsProtocolPrecreated(maxPort, protocol) ==
  maxPort.enabled =>
    /\ ListenersOf(protocol) \subseteq L4Protocols
    /\ \A l \in ListenersOf(protocol) : PrecreatedUpTo(maxPort, l) > 0

\* The ports can be taken from a load balancer whose recorded keys are allocated.
CanTake(allocated, maxPort, ports) ==
  \A port \in ports : Key(port) \notin allocated /\ WithinPrecreated(maxPort, port)

\* The walk over the range stops at its first index whose ports can be taken.
TakeableAt(allocated, maxPort, start, end, segmentLength, protocol) ==
  {k \in Walk(start, end, segmentLength) :
     LET port == WalkPort(start, segmentLength, k)
     IN  CanTake(allocated, maxPort,
                 PortsToAllocate(port, SegmentEnd(port, segmentLength), protocol))}

First(K) == {k \in K : \A j \in K : k <= j}

\* Mutant: every request counts as one listener.
UnderQuotaByOne(allocated, quota, protocol) == Cardinality(allocated) + 1 <= quota

\* A listener count that leaves room for the request under the quota.
UnderQuota(allocated, quota, protocol) ==
  Cardinality(allocated) + Cardinality(ListenersOf(protocol)) <= quota
=============================================================================
