---------------------------- MODULE MCArchiveStore ----------------------------
(* ArchiveStore on small instances: two processes, two bodies.              *)
EXTENDS ArchiveStore, TLC

CONSTANTS p1, p2, b1, b2, k1, k2

(* Two tool results with the same body, which an expand freezes together.   *)
SameContent == (k1 :> b1) @@ (k2 :> b1)
(* One tool result.                                                         *)
OneContent == k1 :> b1

(* One process runs everything and every failure happens to it.             *)
SerialPlan == [role |-> (p1 :> Operations) @@ (p2 :> {}), faults |-> FaultKinds]
(* Both work on the live zone, the second one is also the one that purges.  *)
ZonePlan == [role |-> (p1 :> {"rewrite", "call", "expand"}) @@ (p2 :> {"rewrite", "purge"}),
             faults |-> {"insert"}]
StorePlans == {SerialPlan, ZonePlan}
(* One rewrites, the other records calls and purges them.                   *)
RacePlans == {[role |-> (p1 :> {"rewrite"}) @@ (p2 :> {"call", "purge"}), faults |-> {}]}

(* Calls, and the shapes of a pointer, are interchangeable.                 *)
Symmetry == Permutations(Call) \cup Permutations(Turn)
=============================================================================
