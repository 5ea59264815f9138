----------------------------- MODULE MCSignalCycle -----------------------------
(* A trend that weakens in different ways, recovers, walks its band and turns. *)
EXTENDS SignalCycle

Rise == [mode |-> "TREND", bb |-> "NORMAL", extreme |-> "NONE", gap |-> 3, rsi |-> 52,
         macd |-> 10, above |-> TRUE, stack |-> "UP"]
Fall == [mode |-> "TREND", bb |-> "NORMAL", extreme |-> "NONE", gap |-> -3, rsi |-> 50,
         macd |-> 10, above |-> FALSE, stack |-> "DOWN"]
MCMarkets ==
  {Rise, [Rise EXCEPT !.rsi = 50], [Rise EXCEPT !.rsi = 49, !.macd = -10],
   [Rise EXCEPT !.bb = "WALK_UP", !.rsi = 56, !.gap = 5],
   [Rise EXCEPT !.mode = "RANGE", !.gap = 0], [Rise EXCEPT !.mode = "TRANSITION", !.bb = "COMPRESSION"],
   Fall, [Fall EXCEPT !.bb = "WALK_DOWN", !.rsi = 44, !.macd = -10]}
=============================================================================
