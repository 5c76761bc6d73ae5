----------------------- MODULE PortPoolSegmentProofs -----------------------
(***************************************************************************)
(* Proofs about the port segments PortPool hands out: two segments of a    *)
(* load balancer overlap only where their requests walk different grids of *)
(* port numbers.  The allocator records a segment under its first port and *)
(* its last one and never compares it with another segment; what keeps the *)
(* segments of one grid apart is the walk and Exclusive.                   *)
(***************************************************************************)
EXTENDS PortPoolRequestProofs

-----------------------------------------------------------------------------
(* The grid of a walk.                                                     *)

\* A port of the walk of the request it was taken for, with the end of its segment.
OnWalk(b, a) ==
  LET P == PortSpec[b][a.entry].pools
  IN  /\ a.entry \in DOMAIN PortSpec[b] /\ a.pool \in P
      /\ \E k \in Nat : a.port.port = StartPort(P) + k * SegmentLength(P)
      /\ a.port.port <= EndPort(P)
      /\ a.port.endPort = SegmentEnd(a.port.port, SegmentLength(P))

\* Everything a binding or its worker has is on the walk of the entry it was taken for.
OnWalks == \A b \in Bindings : \A a \in Owned(b) : OnWalk(b, a)

\* A request needs segments that start at the port it found.
LEMMA NeededEnds ==
  ASSUME NEW r \in PortSpecs, NEW port, NEW q \in Needed(r, port)
  PROVE  q.port = port /\ q.endPort = SegmentEnd(port, SegmentLength(r.pools))
<1> DEFINE e == SegmentEnd(port, SegmentLength(r.pools))
<1>1. PICK m \in ListenersOf(r.protocol) : q = [port |-> port, endPort |-> e, protocol |-> m]
  BY DEF Needed, PortsToAllocate
<1> HIDE DEF e
<1>2. q.port = port /\ q.endPort = e
  BY <1>1
<1> QED
  BY <1>2 DEF e

\* A search takes ports of its walk, and every other step keeps what there is.
LEMMA OnWalksStep ==
  ASSUME NoWrap, EntriesInv, Walks, OnWalks, [Next]_vars
  PROVE  OnWalks'
<1> SUFFICES ASSUME NEW b \in Bindings, NEW a \in Owned(b)'
             PROVE  OnWalk(b, a)
  BY DEF OnWalks, OnWalk
<1>1. Typed /\ Asking(b) /\ WalkInv(b)
  BY DEF EntriesInv, EntryInv, Walks
<1>2. CASE a \in Owned(b)
  BY <1>2 DEF OnWalks
<1>3. CASE a \notin Owned(b)
  <2>1. PICK p \in Pools :
          /\ RangeTake(b, p) \/ SameTake(b, p)
          /\ \A l, ports : Take(b, p, l, ports) =>
               a.entry = entry[b] /\ a.pool = p /\ a.lb = l /\ a.port \in ports
    BY <1>1, <1>3, OwnedGrows
  <2>2. PICK l \in lbs[p], port \in Uint16 :
          /\ Take(b, p, l, Needed(Request(b), port))
          /\ port <= EndPort(Request(b).pools)
          /\ \E k \in Nat : port = StartPort(Request(b).pools) + k * SegmentLength(Request(b).pools)
    BY <1>1, <2>1, FoundInRange
  <2>3. Request(b) \in PortSpecs /\ p \in left[b] /\ pc[b] \in {"range", "same"}
    BY <1>1, <2>1, Found
  <2>4. p \in Request(b).pools
    BY <1>1, <2>3 DEF Asking, Searching
  <2>5. a.entry = entry[b] /\ a.pool = p /\ a.port \in Needed(Request(b), port)
    BY <2>1, <2>2
  <2>6. a.port.port = port /\ a.port.endPort = SegmentEnd(port, SegmentLength(Request(b).pools))
    BY <2>3, <2>5, NeededEnds
  <2>7. Request(b) = PortSpec[b][a.entry]
    BY <2>5 DEF Request
  <2>8. a.entry \in DOMAIN PortSpec[b]
    <3>1. entry[b] \in Nat \ {0} /\ entry[b] <= Len(PortSpec[b])
      BY <1>1, <2>3 DEF Typed, TypeOK, AskingOK
    <3>2. DOMAIN PortSpec[b] = 1 .. Len(PortSpec[b]) /\ Len(PortSpec[b]) \in Nat
      BY PortSpecAssumption
    <3> QED
      BY <2>5, <3>1, <3>2
  <2> QED
    BY <2>2, <2>4, <2>5, <2>6, <2>7, <2>8 DEF OnWalk
<1> QED
  BY <1>2, <1>3

-----------------------------------------------------------------------------
(* The arithmetic of segments.                                             *)

\* A multiple of a length that is smaller than the length is 0.
LEMMA SmallMultiple ==
  ASSUME NEW length \in Nat \ {0}, NEW m \in Int, m * length < length, - length < m * length
  PROVE  m = 0
<1>1. CASE m > 0
  <2>1. m \in Nat /\ m - 1 \in Nat /\ (m - 1) + 1 = m
    BY <1>1
  <2>2. 0 + ((m - 1) + 1) * length = (0 + (m - 1) * length) + length
    BY <2>1, NextOfWalk
  <2>3. (m - 1) * length \in Nat
    BY <2>1
  <2>4. m * length = (m - 1) * length + length
    BY <2>1, <2>2, <2>3
  <2> QED
    BY <2>3, <2>4
<1>2. CASE m < 0
  <2> DEFINE n == - m
  <2>1. n \in Nat /\ n - 1 \in Nat /\ (n - 1) + 1 = n /\ m = - n
    BY <1>2
  <2>2. 0 + ((n - 1) + 1) * length = (0 + (n - 1) * length) + length
    BY <2>1, NextOfWalk
  <2>3. (n - 1) * length \in Nat
    BY <2>1
  <2>4. n * length = (n - 1) * length + length
    BY <2>1, <2>2, <2>3
  <2>5. m * length = - (n * length)
    BY <2>1
  <2> HIDE DEF n
  <2> QED
    BY <2>3, <2>4, <2>5
<1> QED
  BY <1>1, <1>2

\* A whole number of lengths.
Multiple(x, length) == \E m \in Int : x = m * length

\* Two ports of one grid that are less than a length apart are the same.
LEMMA SameGrid ==
  ASSUME NEW length \in Nat \ {0}, NEW s \in Int, NEW t \in Int, NEW u \in Int, NEW v \in Int,
         Multiple(s - t, length), Multiple(u - s, length), Multiple(v - t, length),
         u <= v + length - 1, v <= u + length - 1
  PROVE  u = v
<1>1. PICK n \in Int : s - t = n * length
  BY DEF Multiple
<1>2. PICK k \in Int : u - s = k * length
  BY DEF Multiple
<1>3. PICK j \in Int : v - t = j * length
  BY DEF Multiple
<1> DEFINE m == n + k - j
<1>4. m \in Int
  OBVIOUS
<1>5. n * length \in Int /\ k * length \in Int /\ j * length \in Int
  OBVIOUS
<1>6. m * length = n * length + k * length - j * length
  OBVIOUS
<1>7. u - v = m * length
  BY <1>1, <1>2, <1>3, <1>5, <1>6
<1> HIDE DEF m
<1>8. m * length < length /\ - length < m * length
  BY <1>4, <1>7
<1>9. m = 0
  BY <1>4, <1>8, SmallMultiple
<1>10. m * length = 0
  BY <1>9
<1> QED
  BY <1>7, <1>10

\* Below the top a segment is as long as it is meant to be.
LEMMA SegmentLast ==
  ASSUME NEW port \in Nat, NEW length \in Nat \ {0}, port + length <= MaxUint16, NEW a,
         a.port = port, a.endPort = SegmentEnd(port, length)
  PROVE  LastPort(a) = port + length - 1
<1>1. CASE length > 1
  <2>1. port + length - 1 \in Nat /\ port + length - 1 <= MaxUint16 /\ port + length - 1 # 0
    BY <1>1, MaxUint16Assumption
  <2>2. Wrap(port + length - 1) = port + length - 1
    BY <2>1, NoCarry
  <2> QED
    BY <1>1, <2>1, <2>2 DEF LastPort, SegmentEnd
<1>2. CASE ~(length > 1)
  <2>1. length = 1
    BY <1>2
  <2> QED
    BY <2>1 DEF LastPort, SegmentEnd
<1> QED
  BY <1>1, <1>2

\* What is on a walk starts on the grid of that walk and ends below the top.
LEMMA SegmentOf ==
  ASSUME NoWrap, NEW b \in Bindings, NEW a, OnWalk(b, a)
  PROVE  LET P == PortSpec[b][a.entry].pools
         IN  /\ P \in (SUBSET Pools) \ {{}}
             /\ StartPort(P) \in Nat /\ SegmentLength(P) \in Nat \ {0}
             /\ a.port.port \in Nat
             /\ LastPort(a.port) = a.port.port + SegmentLength(P) - 1
<1> DEFINE P == PortSpec[b][a.entry].pools
           length == SegmentLength(P)
<1>1. P \in (SUBSET Pools) \ {{}}
  <2>1. PortSpec[b][a.entry] \in PortSpecs
    BY PortSpecAssumption DEF OnWalk
  <2> QED
    BY <2>1 DEF PortSpecs
<1>2. /\ StartPort(P) \in Nat /\ EndPort(P) \in Nat /\ length \in Nat \ {0}
      /\ EndPort(P) + length <= MaxUint16
  BY <1>1, RangeBounds DEF NoWrap, OnWalk
<1>3. PICK k \in Nat : a.port.port = StartPort(P) + k * length
  BY DEF OnWalk
<1>4. k * length \in Nat
  BY <1>2, WalkAdvances
<1>5. a.port.port \in Nat
  BY <1>2, <1>3, <1>4
<1>6. a.port.port <= EndPort(P) /\ a.port.endPort = SegmentEnd(a.port.port, length)
  BY DEF OnWalk
<1>7. a.port.port + length <= MaxUint16
  BY <1>2, <1>5, <1>6, MaxUint16Assumption
<1> HIDE DEF length
<1>8. LastPort(a.port) = a.port.port + length - 1
  BY <1>2, <1>5, <1>6, <1>7, SegmentLast
<1> QED
  BY <1>1, <1>2, <1>5, <1>8 DEF length

-----------------------------------------------------------------------------
(* Disjoint segments.                                                      *)

\* On one grid segments overlap only where they are the same, and the same segment of a load
\* balancer is with one binding only.
LEMMA GridDisjoint ==
  ASSUME NoWrap, Inv, OnWalks
  PROVE  SegmentsDisjoint
<1> SUFFICES ASSUME NEW b \in Bindings, NEW c \in Bindings, NEW a \in Owned(b), NEW d \in Owned(c),
                    a.lb = d.lb, Overlap(a.port, d.port), OneGrid(AskedOf(b, a), AskedOf(c, d))
             PROVE  a = d
  BY DEF SegmentsDisjoint
<1> DEFINE P == PortSpec[b][a.entry].pools
           Q == PortSpec[c][d.entry].pools
           length == SegmentLength(P)
<1>1. OnWalk(b, a) /\ OnWalk(c, d)
  BY DEF OnWalks
<1>2. a \in Allocation /\ d \in Allocation
  BY DEF Owned, Inv, Typed, TypeOK
<1>3. OneGrid(P, Q)
  BY DEF AskedOf
<1>4. length = SegmentLength(Q) /\ \E n \in Int : StartPort(P) - StartPort(Q) = n * length
  BY <1>3, MaxUint16Assumption DEF OneGrid
<1>5. /\ StartPort(P) \in Nat /\ length \in Nat \ {0} /\ a.port.port \in Nat
      /\ LastPort(a.port) = a.port.port + length - 1
  BY <1>1, SegmentOf
<1>6. /\ StartPort(Q) \in Nat /\ d.port.port \in Nat
      /\ LastPort(d.port) = d.port.port + length - 1
  BY <1>1, <1>4, SegmentOf
<1>7. Multiple(a.port.port - StartPort(P), length)
  <2>1. PICK k \in Nat : a.port.port = StartPort(P) + k * length
    BY <1>1 DEF OnWalk
  <2>2. k \in Int /\ k * length \in Int
    BY <1>5
  <2> QED
    BY <1>5, <2>1, <2>2 DEF Multiple
<1>8. Multiple(d.port.port - StartPort(Q), length)
  <2>1. PICK k \in Nat : d.port.port = StartPort(Q) + k * length
    BY <1>1, <1>4 DEF OnWalk
  <2>2. k \in Int /\ k * length \in Int
    BY <1>5
  <2> QED
    BY <1>6, <2>1, <2>2 DEF Multiple
<1>9. Multiple(StartPort(P) - StartPort(Q), length)
  BY <1>4 DEF Multiple
<1>10. a.port.port <= d.port.port + length - 1 /\ d.port.port <= a.port.port + length - 1
  BY <1>5, <1>6 DEF Overlap
<1>11. a.port.port = d.port.port
  <2>1. StartPort(P) \in Int /\ StartPort(Q) \in Int /\ a.port.port \in Int /\ d.port.port \in Int
    BY <1>5, <1>6
  <2> HIDE DEF P, Q, length
  <2> QED
    BY <1>5, <1>7, <1>8, <1>9, <1>10, <2>1, SameGrid, Zenon
<1>12. a.port.endPort = d.port.endPort
  BY <1>1, <1>4, <1>11 DEF OnWalk
<1>13. Key(a.port) = Key(d.port)
  <2>1. a.port \in ProtocolPort /\ d.port \in ProtocolPort
    BY <1>2 DEF Allocation
  <2>2. L4Protocol(a.port.protocol) = L4Protocol(d.port.protocol)
    BY DEF Overlap
  <2> QED
    BY <1>11, <1>12, <2>1, <2>2 DEF Key, ProtocolPort
<1> QED
  BY <1>13 DEF Slot, Inv, Exclusive

\* Port segments of one load balancer overlap only where their requests walk different grids
\* (PortPool!SegmentsDisjoint), for every choice of start ports, lengths and pools, as long as
\* no walk wraps around and no load balancer comes back to a pool it left:
\* AllocatePortFromRange and AllocatePort look for the first port and the last port of a segment
\* as one key only.
THEOREM SegmentsDisjointCorrect ==
  ASSUME ~LbsReturn, NoWrap
  PROVE  Spec => []SegmentsDisjoint
<1>1. Init => Walks /\ OnWalks
  BY DEF Init, Owned, Walks, WalkInv, Searching, OnWalks
<1>2. EntriesInv /\ Walks /\ OnWalks /\ [Next]_vars => (Walks /\ OnWalks)'
  BY WalksStep, OnWalksStep
<1>3. Inv /\ OnWalks => SegmentsDisjoint
  BY GridDisjoint
<1> QED
  BY <1>1, <1>2, <1>3, EntriesCorrect, InvCorrect, PTL DEF Spec
=============================================================================
