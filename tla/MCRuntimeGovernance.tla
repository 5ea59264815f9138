------------------------ MODULE MCRuntimeGovernance ------------------------
(* Two releases of one runtime instance, that is of one generation. *)
EXTENDS RuntimeGovernance, TLC

CONSTANTS q1, q2, n1, n2

MCSame == (q1 :> 1) @@ (q2 :> 1)

MCNonces == {n1, n2}
MCSymmetry == Permutations({q1, q2}) \union Permutations({n1, n2})
=============================================================================
