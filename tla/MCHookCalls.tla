----------------------------- MODULE MCHookCalls -----------------------------
(* HookCalls on small instances: three messages, two clients.               *)
EXTENDS HookCalls

(* Against a cap of 5 and a "more" line of 1: a message that waits before   *)
(* one that would fit, one over the cap, and two that the budget cuts.      *)
Mixes == {<<2, 3, 1>>, <<2, 6>>, <<2, 2>>}
BudgetOf == [l \in Mixes |-> IF l = <<2, 2>> THEN {3} ELSE {9}]
=============================================================================
