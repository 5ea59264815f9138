------------------------- MODULE MCKnowledgePromotion -------------------------
(* One decision, tried again and again, among other transitions of its knowledge. *)
EXTENDS KnowledgePromotion
CONSTANTS p1, p2, d1, k1, s1
MCKnowledgeOf == [d \in Decisions |-> k1]
MCOthers == {<<"DRAFT", "VERIFIED">>, <<"VERIFIED", "ACTIVE">>, <<"ACTIVE", "RETIRED">>}
MCSlotOf == [d \in Decisions |-> s1]
=============================================================================
