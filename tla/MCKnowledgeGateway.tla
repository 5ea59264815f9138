-------------------------- MODULE MCKnowledgeGateway --------------------------
(* Two activations of an identity, the supersession and the retirement of the   *)
(* first, and an identity beside it that wants the sequence of these, too.      *)
EXTENDS KnowledgeGateway, TLC

MCReceipt(uuid, kind, knowledge, identity, seq, previous, activation) ==
  [uuid |-> uuid, kind |-> kind, knowledge |-> knowledge, identity |-> identity,
   seq |-> seq, previous |-> previous, activation |-> activation]
MCContested ==
  {MCReceipt("r1", "ACTIVATION", "k1", "i1", 1, "", ""),
   MCReceipt("r4", "ACTIVATION", "k4", "i1", 2, "", ""),
   MCReceipt("r2", "ACTIVATION", "k2", "i2", 2, "", ""),
   MCReceipt("r3", "SUPERSESSION", "k3", "i1", 2, "k1", "r1"),
   MCReceipt("r5", "RETIREMENT", "k1", "i1", 2, "", "r1")}

\* Processes and threads are interchangeable.
MCSymmetry == Permutations(Processes) \union Permutations(Readers)
=============================================================================
