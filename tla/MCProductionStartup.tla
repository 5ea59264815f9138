------------------------- MODULE MCProductionStartup -------------------------
(* Any intelligence on record may be approved, and approved once. *)
EXTENDS ProductionStartup, TLC

MCApprovals == {[intelligence |-> i, at |-> "t"] : i \in Intelligences}

\* Commands are interchangeable, and so are healthy captures.
MCSymmetry == Permutations(Starts) \union Permutations(Healthy)
=============================================================================
