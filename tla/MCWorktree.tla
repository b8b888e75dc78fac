------------------------------ MODULE MCWorktree ------------------------------
(* Worktree on small instances: two agents of one owner.                    *)
EXTENDS Worktree, TLC

CONSTANTS o1

SharedOwner == [a \in Agent |-> o1]
EveryOperation == [a \in Agent |-> Operations]
(* Adoption only, in a pool or not.                                         *)
Adopts == [a \in Agent |-> {"adopt"}]

Symmetry == Permutations(Agent)
=============================================================================
