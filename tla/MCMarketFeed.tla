----------------------------- MODULE MCMarketFeed -----------------------------
(* MarketFeed on a few charts. *)
EXTENDS MarketFeed

FairSpec == Spec /\ Fairness

=============================================================================
