-------------------------- MODULE MCDecisionDispatch --------------------------
(* Two executable packages, one without a volume, a wait, and one inconsistent. *)
EXTENDS DecisionDispatch

Decided(decision, direction, permission, state, action, instruction) ==
  [decision |-> decision, direction |-> direction, permission |-> permission,
   state |-> state, action |-> action, instruction |-> instruction]
MCPackages ==
  {Decided("TRADE", "BUY", TRUE, "ENTRY_ALLOWED", "ALLOW_START", "good"),
   Decided("SELL", "SELL", TRUE, "ENTRY_ALLOWED", "ALLOW_SCALE", "bad_stops"),
   Decided("BUY", "BUY", TRUE, "ENTRY_ALLOWED", "ALLOW_START", "zero"),
   Decided("WAIT", "SELL", FALSE, "WAIT_PULLBACK", "WAIT_LOCATION", "none"),
   Decided("BUY", "SELL", TRUE, "ENTRY_ALLOWED", "ALLOW_START", "good")}
=============================================================================
