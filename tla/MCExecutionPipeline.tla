-------------------------- MODULE MCExecutionPipeline --------------------------
(* One decision to assemble again, and one the runtime did not authorize.      *)
EXTENDS ExecutionPipeline

Decided(uuid, seq, authorized) == [uuid |-> uuid, seq |-> seq, authorized |-> authorized]
MCReassembly == {Decided("d1", 1, TRUE), Decided("d2", 2, FALSE)}
=============================================================================
