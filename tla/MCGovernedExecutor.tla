-------------------------- MODULE MCGovernedExecutor --------------------------
(* A small feed for the executor: two packages of different market sequences *)
(* and a third of the same sequence as the second, under a UUID of its own.  *)
EXTENDS GovernedExecutor

MCPackages == {[uuid |-> "u1", seq |-> 1], [uuid |-> "u2", seq |-> 2], [uuid |-> "u3", seq |-> 2]}
MCTwoPackages == {[uuid |-> "u1", seq |-> 1], [uuid |-> "u2", seq |-> 2]}
=============================================================================
