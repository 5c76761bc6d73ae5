---------------------------- MODULE MCBatchCalls ----------------------------
(* Small instances of BatchCalls. *)
EXTENDS BatchCalls, TLC

CONSTANTS l1, l2, o1, o2, o3, t1

\* The calls: two creations at free places (one a port range), one at the place of o1, cleanups
\* with and without a listener id, calls about backends of o1 and o2.
MCCalls == {"c1", "c2", "c3", "r1", "d1", "d2", "d3", "p1", "q1", "g1", "u1", "v1"}

MCKind ==
  "c1" :> "create" @@ "c2" :> "create" @@ "c3" :> "create" @@ "r1" :> "createRange" @@
  "d1" :> "cleanup" @@ "d2" :> "cleanup" @@ "d3" :> "cleanup" @@ "p1" :> "cleanupPort" @@
  "q1" :> "describe" @@ "g1" :> "register" @@ "u1" :> "deregister" @@ "v1" :> "unbind"

MCLb == [i \in Ids |-> IF i \in {"d3", o3} THEN l2 ELSE l1]

MCPort ==
  o1 :> 1 @@ o2 :> 2 @@ o3 :> 1 @@ "c1" :> 1 @@ "c2" :> 3 @@ "c3" :> 4 @@ "r1" :> 3 @@
  "d1" :> 1 @@ "d2" :> 2 @@ "d3" :> 1 @@ "p1" :> 1 @@
  "q1" :> 1 @@ "g1" :> 1 @@ "u1" :> 1 @@ "v1" :> 1

MCListener == [c \in Calls |-> CASE c = "d2" -> o2 [] c = "d3" -> o3 [] OTHER -> o1]

MCTarget == [c \in Calls |-> t1]

MCGroup == [c \in Calls |-> IF c = "c1" THEN "udp" ELSE "tcp"]

MCMixes ==
  {{"c1", "c2", "c3"}, {"c1", "c2", "d1"}, {"d1", "d2", "p1"}, {"d1", "d2", "d3"}, {"c1", "r1", "p1"},
   {"d1", "d2", "g1"}, {"g1", "u1", "v1"}, {"d1", "q1", "v1"}}

Two == [a \in Apis |-> 2]
One == [a \in Apis |-> 1]
=============================================================================
