-------------------------- MODULE MCPackageAssembler --------------------------
(* Two decisions of one market sequence, a newer one and one not authorized.  *)
EXTENDS PackageAssembler

Decided(uuid, seq, authorized) == [uuid |-> uuid, seq |-> seq, authorized |-> authorized]
MCDecisions == {Decided("d1", 1, TRUE), Decided("d2", 2, TRUE), Decided("d3", 2, TRUE),
                Decided("d4", 3, FALSE)}
=============================================================================
