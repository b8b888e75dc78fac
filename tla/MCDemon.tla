------------------------------- MODULE MCDemon -------------------------------
(* Demon on small instances: the pids are interchangeable.                  *)
EXTENDS Demon, TLC

CONSTANTS c1, c2

(* What each command line gives, and what happens to the processes.         *)
Starts  == [ops |-> [c \in Cmd |-> {"start", "status"}], faults |-> {"exit", "reboot"}]
Signals == [ops |-> (c1 :> {"start", "stop"}) @@ (c2 :> {"restart", "kill", "upgrade"}),
            faults |-> {"exit", "killed", "io", "interrupt"}]
CommandPlans == {Starts, Signals}

Fair == {[ops |-> [c \in Cmd |-> Operations], faults |-> {"exit", "interrupt"}]}
AfterBoot == {[ops |-> [c \in Cmd |-> {"start", "stop"}], faults |-> {"reboot"}]}

Symmetry == Permutations(Pid)
=============================================================================
