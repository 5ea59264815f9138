---------------------------- MODULE MCDecisionWrite ----------------------------
(* Candidates that differ in one fact from a plain one or from one of those vetoed. *)
EXTENDS DecisionWrite

Trade ==
  [trade |-> TRUE, bias |-> TRUE, hard |-> FALSE, confidence |-> "EXECUTE", location |-> "GOOD",
   window |-> "OPEN", gap |-> 4, chop |-> FALSE, late |-> 0, exhausted |-> 0,
   daily |-> "NORMAL", losses |-> 0, streak |-> 0, strong |-> FALSE, specific |-> FALSE,
   rsi |-> FALSE, cooldown |-> FALSE, decay |-> FALSE, dominant |-> FALSE, stop |-> "VALID",
   target |-> "VALID", priced |-> TRUE, tpOnly |-> FALSE, marketClose |-> TRUE, key |-> 1]
NoTrade == [Trade EXCEPT !.trade = FALSE, !.stop = "NONE", !.target = "NONE"]
\* Blocked after build_decision had made a TRADE of it.
Hard == [Trade EXCEPT !.trade = FALSE, !.hard = TRUE]

\* One fact at a time; a poor location keeps the confidence at WAIT.
Vary(f) ==
  {f, [f EXCEPT !.confidence = "WAIT"], [f EXCEPT !.confidence = "WAIT", !.location = "POOR"],
   [f EXCEPT !.gap = 3], [f EXCEPT !.gap = 2], [f EXCEPT !.gap = 1],
   [f EXCEPT !.gap = 1, !.dominant = ~f.hard], [f EXCEPT !.decay = TRUE],
   [f EXCEPT !.window = "CLOSED"], [f EXCEPT !.window = "BYPASS"], [f EXCEPT !.chop = TRUE],
   [f EXCEPT !.late = 1], [f EXCEPT !.late = 2], [f EXCEPT !.exhausted = 1], [f EXCEPT !.exhausted = 2],
   [f EXCEPT !.daily = "STOP"], [f EXCEPT !.losses = 2],
   [f EXCEPT !.losses = 3, !.streak = 2], [f EXCEPT !.losses = 3, !.streak = 3],
   [f EXCEPT !.strong = TRUE, !.confidence = "NONE"]}
\* Stops and targets, under each kind of profile.
Levelled(f, levels) ==
  {[f EXCEPT !.stop = l[1], !.target = l[2], !.tpOnly = t, !.marketClose = c] :
     l \in levels, t \in BOOLEAN, c \in BOOLEAN}
Crossed == {<<"CROSSED", "VALID">>, <<"VALID", "CROSSED">>, <<"CROSSED", "CROSSED">>}
Missing == {<<"NONE", "NONE">>}
Late == [Trade EXCEPT !.late = 2]
Poor == [Trade EXCEPT !.confidence = "WAIT", !.location = "POOR"]
Strong == [Trade EXCEPT !.strong = TRUE, !.confidence = "NONE"]
Cluster == [Trade EXCEPT !.losses = 3, !.streak = 2]

MCCases ==
  Vary(Trade) \union Vary(Late) \union Vary(Poor) \union Vary(Strong) \union Vary(Cluster)
  \union Levelled(Trade, Crossed \union {<<"VALID", "NONE">>}) \union Levelled(Poor, Missing)
  \union Levelled(NoTrade, Missing) \union Levelled(Hard, Missing)
  \union Vary([NoTrade EXCEPT !.cooldown = TRUE, !.specific = TRUE])
  \union Vary([Hard EXCEPT !.confidence = "NONE"]) \union Vary([Hard EXCEPT !.location = "POOR"])
  \union {NoFacts, [NoTrade EXCEPT !.priced = FALSE], [NoTrade EXCEPT !.confidence = "NONE", !.rsi = TRUE, !.key = 2],
          [Trade EXCEPT !.confidence = "WAIT", !.key = 2]}
=============================================================================
