---------------------------- MODULE DecisionWrite ----------------------------
(***************************************************************************)
(* write_decision of the V26 engine: one identified decision of a cycle is  *)
(* carried through some thirty stages, each of which may turn TRADE into    *)
(* NO_TRADE or back, and written to decision.json; on any failure the whole *)
(* pipeline is run again over the dictionary the failed attempt left, up to *)
(* MaxAttempts times.                                                       *)
(*                                                                         *)
(* What the stages compute from the market (scores, windows, loss streaks) *)
(* is a record of facts that stays the same for all attempts of a cycle;   *)
(* what they change in the dictionary is the record doc.  Sizes are left    *)
(* out, with the stages that only report and those the confidence engine    *)
(* decides over again.                                                     *)
(***************************************************************************)
EXTENDS Integers, Sequences

CONSTANTS Cases,        \* the facts of the candidates that build_decision may produce
          MaxAttempts, WaitTimeoutCycles, MaxRestarts,
  Idle            \* no cycle, nothing written

ASSUME WaitsAssumption == WaitTimeoutCycles \in Nat

VARIABLES
  facts,    \* the facts of the cycle at hand, or Idle
  doc,      \* the dictionary being written
  attempt,  \* attempts of this cycle so far
  memory,   \* module globals: the wait counter and its key, the protection
            \* in force and its cycles
  written,  \* what this cycle has put in decision.json, or Idle
  restarts

wvars == <<facts, doc, attempt, memory, written, restarts>>

-----------------------------------------------------------------------------
\* What the scoring functions may find.  An entry location is poor below 50.
LocationGrades == {"POOR", "GOOD"}
\* The entry window, and whether the cooldown gate's emergency bypass applies.
Windows == {"OPEN", "BYPASS", "CLOSED"}
\* Late entry: below 60, from 60, from 80 on.  Exhaustion: below 65, from 65, from 80
\* on in a mature move.
LateGrades == 0..2
ExhaustionGrades == 0..2
\* The state selected from the confidence score; a weak score with a direction in a
\* live market counts as WAIT.
ConfidenceStates == {"EXECUTE", "WAIT", "NONE"}
\* The trade memory: the day's net result, consecutive losses, and those of them in
\* the direction now proposed.  Drawdown caution begins at the -5.00 of the daily stop,
\* which is asked for first: there is no such day.
DailyResults == {"NORMAL", "STOP"}
LossStreaks == 0..3
\* A stop or a target: none, on the wrong side of the entry, or on its side.
Levels == {"NONE", "CROSSED", "VALID"}

FactSpace ==
  [trade : BOOLEAN, bias : BOOLEAN, hard : BOOLEAN, confidence : ConfidenceStates,
   location : LocationGrades, window : Windows, gap : 0..4, chop : BOOLEAN, late : LateGrades,
   exhausted : ExhaustionGrades, daily : DailyResults, losses : LossStreaks,
   streak : LossStreaks, strong : BOOLEAN, specific : BOOLEAN, rsi : BOOLEAN, cooldown : BOOLEAN,
   decay : BOOLEAN, dominant : BOOLEAN, stop : Levels, target : Levels, priced : BOOLEAN,
   tpOnly : BOOLEAN, marketClose : BOOLEAN, key : Nat]

\* A candidate's facts agree with each other: the location caps the confidence, a
\* blocked decision is never a TRADE of build_decision and never asked for dominance, a
\* TRADE has a direction and a price.  Its levels may be missing, as the target of a
\* HOLD_TRAIL is, and a NO_TRADE made of a TRADE keeps those it had.
ASSUME CasesAssumption ==
  /\ Cases \subseteq FactSpace
  /\ \A f \in Cases :
       /\ f.location = "POOR" /\ ~f.hard => f.confidence # "EXECUTE"
       /\ f.trade => f.bias /\ ~f.hard /\ f.priced
       /\ f.dominant => ~f.hard
       /\ f.window = "BYPASS" => f.gap >= 2
       /\ f.streak <= f.losses

NoFacts ==
  [trade |-> FALSE, bias |-> FALSE, hard |-> FALSE, confidence |-> "NONE", location |-> "GOOD",
   window |-> "OPEN", gap |-> 0, chop |-> FALSE, late |-> 0, exhausted |-> 0, daily |-> "NORMAL",
   losses |-> 0, streak |-> 0, strong |-> FALSE, specific |-> TRUE, rsi |-> FALSE,
   cooldown |-> FALSE, decay |-> FALSE, dominant |-> FALSE, stop |-> "NONE", target |-> "NONE",
   priced |-> FALSE, tpOnly |-> FALSE, marketClose |-> TRUE, key |-> 0]

-----------------------------------------------------------------------------
\* run and final_decision_publication: the decision of this cycle gets its identity,
\* whose direction is BUY or SELL for a trade and NONE for anything else.
Candidate(f) ==
  [trade |-> f.trade, identity |-> IF f.trade THEN "trade" ELSE "none",
   managed |-> f.trade, wait |-> "", blocked |-> FALSE, marks |-> {}, veto |-> "", hardBlock |-> FALSE,
   gap2 |-> FALSE, stop |-> f.stop, target |-> f.target, allowed |-> f.trade, send |-> FALSE]

\* A dictionary that validate_final_decision_payload puts in place of the candidate:
\* it has neither the identity nor the scores.
Fallback == [Candidate(NoFacts) EXCEPT !.identity = "absent"]

\* What a stage sees: the facts, unless the dictionary that held them is gone.
Seen(d, f) == IF d.identity = "absent" THEN NoFacts ELSE f

\* A stage that makes a TRADE gives it one of the managements SCALP_TP, HOLD_TRAIL and
\* TREND_RUNNER ("managed"); one that takes it away leaves NO_TRADE.
Enter(d) == [d EXCEPT !.trade = TRUE, !.managed = TRUE]
Leave(d) == [d EXCEPT !.trade = FALSE, !.managed = FALSE]
WaitFor(d, w) == [Leave(d) EXCEPT !.wait = w]

-----------------------------------------------------------------------------
\* apply_execution_quality_core_v26_5
PoorLocation(d, f) == f.location = "POOR" /\ f.bias /\ ~d.hardBlock
Location(d, f) ==
  IF ~PoorLocation(d, f) THEN [d EXCEPT !.blocked = FALSE]
  ELSE LET marked == [d EXCEPT !.marks = @ \union {"LOCATION"}] IN
    IF d.trade /\ ~f.hard /\ f.gap > 0
    THEN [marked EXCEPT !.blocked = FALSE, !.wait = ""]
    ELSE [WaitFor(marked, "LOCATION") EXCEPT !.blocked = TRUE]

\* apply_wait_valid_timeout_recovery: its counter, of one directional setup at a time,
\* counted no further than the limit it is compared with.
Waits(m, f) ==
  IF m.key # f.key THEN 1 ELSE IF m.waits < WaitTimeoutCycles THEN m.waits + 1 ELSE WaitTimeoutCycles + 1
Forget(m) == [m EXCEPT !.key = 0, !.waits = 0]

\* apply_v26_execution_confidence_engine
Confidence(d, m, f) ==
  IF f.hard THEN <<[Leave(d) EXCEPT !.hardBlock = TRUE], Forget(m)>>
  ELSE LET e == [d EXCEPT !.hardBlock = FALSE] IN
    CASE f.confidence = "EXECUTE" /\ f.bias -> <<Enter(e), Forget(m)>>
      [] f.confidence = "WAIT" /\ f.bias ->
           <<IF Waits(m, f) > WaitTimeoutCycles THEN [Enter(e) EXCEPT !.wait = "RELEASED"]
                                                ELSE WaitFor(e, "VALID"),
             [m EXCEPT !.key = f.key, !.waits = Waits(m, f)]>>
      [] f.confidence = "WAIT" /\ ~f.bias -> <<WaitFor(e, "VALID"), Forget(m)>>
      [] OTHER -> <<Leave(e), Forget(m)>>

\* A mistake: what a counter or a protection released is not asked for its window.
Timing_released(d, f) ==
  IF ~f.bias \/ ~d.trade \/ f.hard \/ f.window = "OPEN" \/ d.wait = "RELEASED" THEN d
  ELSE IF f.window = "BYPASS" THEN [d EXCEPT !.wait = "BYPASSED", !.veto = "NONE", !.allowed = TRUE]
  ELSE [WaitFor(d, "WINDOW") EXCEPT !.allowed = FALSE]

\* apply_execution_timing_layer_v26_6_5, with its cooldown gate bypass
Timing(d, f) ==
  IF ~f.bias \/ ~d.trade \/ f.hard \/ f.window = "OPEN" THEN d
  ELSE IF f.window = "BYPASS" THEN [d EXCEPT !.wait = "BYPASSED", !.veto = "NONE", !.allowed = TRUE]
  ELSE [WaitFor(d, "WINDOW") EXCEPT !.allowed = FALSE]

\* apply_v25_3_rsi_soft_penalty_recovery, then apply_final_decision_gate_trace_v25_2
RsiRecovery(d, f) == IF f.rsi THEN Enter(d) ELSE d
FinalGate(d, f) ==
  IF f.strong /\ ~f.specific /\ d.marks \subseteq {"LOCATION"} THEN Enter(d) ELSE d

\* apply_late_entry_guard_v26_6
LateEntry(d, f) ==
  IF f.late = 2 /\ f.bias THEN [WaitFor(d, "LOCATION") EXCEPT !.marks = @ \union {"LATE"}] ELSE d

\* apply_exhaustion_protection_v26_6_6
Exhaustion(d, f) ==
  IF d.trade /\ f.bias /\ f.exhausted = 2
  THEN [WaitFor(d, "WINDOW") EXCEPT !.marks = @ \union {"EXHAUSTION"}] ELSE d

-----------------------------------------------------------------------------
\* _v26_6_2_block_trade: a veto that stands already is recorded as a duplicate and
\* nothing else is done.
Block(d, code) == IF d.veto = code THEN d ELSE [Leave(d) EXCEPT !.veto = code]

\* apply_expectancy_entry_filters_v26_6_2
Expectancy(d, f) ==
  IF ~d.trade THEN d
  ELSE IF d.gap2 /\ ~f.hard THEN [d EXCEPT !.veto = "NONE"]
  ELSE IF f.gap = 2 /\ ~f.hard /\ f.priced /\ f.late = 0 /\ f.exhausted = 0 /\ ~f.chop
  THEN [d EXCEPT !.gap2 = TRUE, !.allowed = TRUE, !.veto = "NONE"]
  ELSE IF f.gap < 3 THEN Block(d, "WEAK_GAP")
  ELSE IF f.chop THEN Block(d, "CHOP") ELSE d

\* The thesis that apply_thesis_revalidation_after_loss_v26_6_2 asks for
ThesisValid(f) == f.bias /\ f.gap >= 3 /\ f.location # "POOR" /\ f.exhausted < 2

\* A mistake: the second loss in a row does not count yet.
Revalidate_afterThree(d, f) ==
  LET e == IF f.streak < 3 \/ ThesisValid(f) THEN d ELSE WaitFor(d, "LOCATION")
  IN IF f.streak >= 3 /\ f.bias /\ e.trade THEN WaitFor(e, "WINDOW") ELSE e

\* apply_thesis_revalidation_after_loss_v26_6_2
Revalidate(d, f) ==
  LET e == IF f.streak < 2 \/ ThesisValid(f) THEN d ELSE WaitFor(d, "LOCATION")
  IN IF f.streak >= 3 /\ f.bias /\ e.trade THEN WaitFor(e, "WINDOW") ELSE e

\* apply_session_loss_governor_v26_6_2
Governor(d, f) ==
  IF f.daily = "STOP" THEN IF d.trade THEN Block(d, "DAILY_STOP") ELSE d
  ELSE IF f.losses > 0 THEN Revalidate(d, f) ELSE d

-----------------------------------------------------------------------------
\* PROTECTION_RELEASE_CONDITIONS in the order of their priority, with maximum_cycles.
\* The first two, of session profit and of drawdown, are left out: nothing sets the flags
\* that call for them.  The durations stand for the same limits: a cycle lasts a second,
\* not a minute.
Protections == <<"THESIS", "DECAY", "COOLDOWN", "LOCATION">>
MaximumCycles == [THESIS |-> 3, DECAY |-> 10, COOLDOWN |-> 8, LOCATION |-> 6, NONE |-> 0]

\* _detect_protection_candidates
Wanted(d, f, p) ==
  CASE p = "THESIS" -> f.streak >= 2
    [] p = "DECAY" -> d.wait = "VALID" \/ f.decay
    [] p = "COOLDOWN" -> f.cooldown
    [] OTHER -> d.wait = "LOCATION" \/ d.blocked \/ "LOCATION" \in d.marks
Selected(d, f) ==
  LET wanted == {i \in DOMAIN Protections : Wanted(d, f, Protections[i])}
  IN IF wanted = {} THEN "NONE" ELSE Protections[CHOOSE i \in wanted : \A j \in wanted : i <= j]

\* _protection_directional_recovery, and the recovered conditions that use it
Directional(f) == f.bias /\ (f.dominant \/ f.gap >= 2)
Recovered(p, f, n) ==
  CASE p = "THESIS" -> Directional(f)
    [] p = "DECAY" -> Directional(f) /\ n > WaitTimeoutCycles
    [] p = "LOCATION" -> f.location # "POOR" /\ f.late < 2
    [] OTHER -> FALSE

\* A mistake: a protection that is let go keeps counting where it stood.
Protection_keptCount(d, m, f) ==
  LET p == Selected(d, f)
      n == IF p = "NONE" THEN 0 ELSE m.cycles + 1
      release == p # "NONE" /\ (n > MaximumCycles[p] \/ Recovered(p, f, n))
  IN <<IF release /\ p \in {"LOCATION", "DECAY"} /\ Directional(f)
       THEN [Enter(d) EXCEPT !.wait = "RELEASED"] ELSE d,
       [m EXCEPT !.protection = IF release THEN "NONE" ELSE p, !.cycles = n]>>

\* apply_protection_authority_manager_v26_6_1 as called after the governor; the second
\* call neither releases nor counts, and only reports.
Protection(d, m, f) ==
  LET p == Selected(d, f)
      n == IF p = "NONE" THEN 0 ELSE IF p = m.protection THEN m.cycles + 1 ELSE 1
      release == p # "NONE" /\ (n > MaximumCycles[p] \/ Recovered(p, f, n))
  IN <<IF release /\ p \in {"LOCATION", "DECAY"} /\ Directional(f)
       THEN [Enter(d) EXCEPT !.wait = "RELEASED"] ELSE d,
       [m EXCEPT !.protection = IF release THEN "NONE" ELSE p, !.cycles = IF release THEN 0 ELSE n]>>

-----------------------------------------------------------------------------
\* The profile TP_ONLY_1USD_TEST leaves stop and target to the dashboard, which must then
\* close at the market.  The loader bars it by its own name, not inside another profile.
SuppressionApproved(f) == f.tpOnly /\ f.marketClose

\* construct_risk_payload_before_validation
Construct(d, f) ==
  IF ~(d.trade /\ f.bias /\ ~f.hard) THEN d
  ELSE IF SuppressionApproved(f) THEN [d EXCEPT !.stop = "NONE", !.target = "NONE", !.managed = TRUE]
  ELSE LET built(level) == IF level = "NONE" /\ f.priced THEN "VALID" ELSE level
           e == [d EXCEPT !.stop = built(@), !.target = built(@)]
       IN [e EXCEPT !.managed = @ \/ "NONE" \notin {e.stop, e.target}]

\* enforce_expectancy_rr_structure: a target too near the entry for the stop, or behind
\* it, is moved away.
RewardRatio(d, f) ==
  IF d.trade /\ f.bias /\ f.priced /\ d.stop # "NONE" THEN [d EXCEPT !.target = "VALID"] ELSE d

\* validate_final_decision_payload
Payload(d, f) ==
  IF \/ d.trade /\ d.stop = "NONE" /\ ~f.tpOnly
     \/ d.trade /\ d.target = "NONE" /\ ~f.tpOnly /\ ~f.marketClose
  THEN Fallback ELSE d

\* A mistake: a hard block does not count against sending.
Contract_hard(d, f) ==
  LET send == d.trade /\ d.allowed /\ f.gap > 0
  IN [d EXCEPT !.send = send, !.allowed = d.trade]

\* apply_executor_authority_contract_v26_6_1
Contract(d, f) ==
  LET send == d.trade /\ d.allowed /\ ~f.hard /\ f.gap > 0
  IN [d EXCEPT !.send = send, !.allowed = d.trade]

\* A mistake: a stop is looked for, not at.
StopWrong_presence(d, f) == d.stop = "NONE" /\ ~SuppressionApproved(f)

\* _risk_geometry_valid and the checks before it: no stop is demanded of TP_ONLY_1USD_TEST,
\* but leaving it out must be approved; a target the dashboard closes at is not looked at.
StopWrong(d, f) == IF f.tpOnly THEN d.stop = "NONE" /\ ~SuppressionApproved(f) ELSE d.stop # "VALID"
TargetWrong(d, f) == ~f.marketClose /\ d.target # "VALID"

\* enforce_risk_payload_invariant_before_publication: the direction is that of the
\* identity; wrong levels of a managed decision are built anew, and all else is downgraded.
RiskInvariant(d, f) ==
  LET executable == d.identity = "trade" /\ f.priced
      wrong == StopWrong(d, f) \/ TargetWrong(d, f)
  IN IF ~d.trade \/ (executable /\ ~wrong) THEN d
     ELSE IF executable /\ d.managed /\ ~SuppressionApproved(f)
     THEN [d EXCEPT !.stop = "VALID", !.target = "VALID"]
     ELSE [d EXCEPT !.trade = FALSE, !.allowed = FALSE]

\* attach_no_trade_explainability, and the clearing of the veto of a trade
Explain(d) == [d EXCEPT !.veto = IF d.trade THEN "NONE" ELSE IF d.veto = "" THEN "EXPLAINED" ELSE d.veto]

-----------------------------------------------------------------------------
\* The stages that change nothing but the dictionary,
Rewritten(name, d, f) ==
  CASE name = "location" -> Location(d, f)
    [] name = "timing" -> Timing(d, f)
    [] name = "gate" -> FinalGate(RsiRecovery(d, f), f)
    [] name = "late" -> LateEntry(d, f)
    [] name = "exhaustion" -> Exhaustion(d, f)
    [] name = "expectancy" -> Expectancy(d, f)
    [] name = "governor" -> Governor(d, f)
    [] name = "construct" -> Construct(d, f)
    [] name = "ratio" -> RewardRatio(d, f)
    [] name = "payload" -> Payload(d, f)
    [] name = "contract" -> Contract(d, f)
    [] name = "risk" -> RiskInvariant(d, f)
    [] name = "explain" -> Explain(d)

\* and any stage, over <<doc, memory>>.
Stage(s, name, f) ==
  CASE name = "confidence" -> Confidence(s[1], s[2], Seen(s[1], f))
    [] name = "protection" -> Protection(s[1], s[2], Seen(s[1], f))
    [] OTHER -> <<Rewritten(name, s[1], Seen(s[1], f)), s[2]>>

After(S, name, f) == {Stage(s, name, f) : s \in S}

\* The stages of write_decision in their order, over the one state they start from: what
\* the scores make of the candidate,
Score(S, f) ==
  LET S1 == After(S, "location", f)
      S2 == After(S1, "confidence", f)
      S3 == After(S2, "timing", f)
      S4 == After(S3, "location", f)
      S5 == After(S4, "gate", f)
      S6 == After(S5, "late", f)
      S7 == After(S6, "exhaustion", f)
  IN After(S7, "expectancy", f)

\* what the losses and the protections do to it, and the window again,
Guard(S, f) ==
  LET S1 == After(S, "governor", f)
      S2 == After(S1, "protection", f)
      S3 == After(S2, "timing", f)
      S4 == After(S3, "expectancy", f)
  IN After(S4, "governor", f)

\* and what is published of it.
Publish(S, f) ==
  LET S1 == After(S, "construct", f)
      S2 == After(S1, "ratio", f)
      S3 == After(S2, "payload", f)
      S4 == After(S3, "contract", f)
      S5 == After(S4, "timing", f)
      S6 == After(S5, "contract", f)
      S7 == After(S6, "risk", f)
  IN After(S7, "explain", f)

Pipeline(d, m, f) == Publish(Guard(Score({<<d, m>>}, f), f), f)

\* validate_existing_decision_identity: the decision must still be the one identified.
Identified(d) == d.identity = "absent" \/ (d.trade <=> d.identity = "trade")

-----------------------------------------------------------------------------
Begin(f) ==
  /\ facts = Idle
  /\ facts' = f /\ doc' = Candidate(f) /\ attempt' = 0 /\ written' = Idle
  /\ UNCHANGED <<memory, restarts>>

\* decision.tmp cannot be opened: no stage is run.
OpenFails ==
  /\ facts # Idle /\ attempt < MaxAttempts /\ attempt' = attempt + 1
  /\ UNCHANGED <<facts, doc, memory, written, restarts>>

\* The identity check fails, or, after it, the write or the replacement does.
Refuse(d) == doc' = d /\ attempt' = attempt + 1 /\ UNCHANGED <<facts, written>>

\* decision.json is replaced.
Replace(d) ==
  /\ Identified(d) /\ written' = [doc |-> d, facts |-> facts]
  /\ facts' = Idle /\ doc' = Idle /\ attempt' = 0

Attempt ==
  /\ facts # Idle /\ attempt < MaxAttempts
  /\ \E s \in Pipeline(doc, memory, facts) : memory' = s[2] /\ (Refuse(s[1]) \/ Replace(s[1]))
  /\ UNCHANGED restarts

\* write_decision returns FALSE, and decision.json is what it was.
GiveUp ==
  /\ facts # Idle /\ attempt = MaxAttempts
  /\ facts' = Idle /\ doc' = Idle /\ attempt' = 0 /\ UNCHANGED <<memory, written, restarts>>

Fresh == [key |-> 0, waits |-> 0, protection |-> "NONE", cycles |-> 0]
RestartWriter ==
  /\ restarts < MaxRestarts /\ restarts' = restarts + 1
  /\ facts' = Idle /\ doc' = Idle /\ attempt' = 0 /\ memory' = Fresh /\ UNCHANGED written

WriteInit ==
  /\ facts = Idle /\ doc = Idle /\ attempt = 0 /\ memory = Fresh /\ written = Idle /\ restarts = 0

WriteNext ==
  \/ \E f \in Cases : Begin(f)
  \/ OpenFails \/ Attempt \/ GiveUp
  \/ RestartWriter

WriteSpec == WriteInit /\ [][WriteNext]_wvars

-----------------------------------------------------------------------------
PublishedTrade == written # Idle /\ written.doc.trade

\* executor_order_send_required is never published under a hard block, although the
\* final gate and a released protection make a TRADE of a blocked decision, and the
\* downgrade that follows leaves the flag as it is.
SendNeedsSafety == written # Idle /\ written.doc.send => ~written.facts.hard

\* Whatever made it a TRADE, what is published carries both levels or, where the profile
\* approved leaves them to the dashboard, neither: no retry, release or repair leaves half
\* of them.  The target is on its side of the entry even where it is not looked at, and so
\* is the stop wherever the broker must hold one.
RiskPublishedValid ==
  PublishedTrade =>
    LET d == written.doc  f == written.facts
    IN IF SuppressionApproved(f) THEN d.stop = "NONE" /\ d.target = "NONE"
       ELSE /\ d.stop # "NONE" /\ d.target = "VALID"
            /\ d.stop = "VALID" \/ f.tpOnly

\* No release, override or retry publishes a TRADE while the entry window is closed.
ClosedWindowHolds == PublishedTrade => written.facts.window # "CLOSED"

\* Nor after two losses in its direction without a valid thesis, nor after three: the
\* thesis protection goes before those whose end makes a TRADE of the decision again, and
\* the governor has the last word.  On a day of the stop it does not ask for the thesis.
LossGovernorHolds ==
  PublishedTrade /\ written.facts.daily # "STOP" /\ written.facts.streak >= 2 =>
    ThesisValid(written.facts) /\ written.facts.streak = 2

\* The governor's daily_kill_switch_policy, "if net daily loss <= -$5.00 disable new
\* entries only": no TRADE is published on a day of the stop.
DailyStopHolds == PublishedTrade => written.facts.daily # "STOP"

\* PROTECTION_RELEASE_CONDITIONS: no protection is in force for more counted runs in a
\* row than its maximum_cycles, retries included.
ProtectionBounded == memory.cycles <= MaximumCycles[memory.protection]
=============================================================================
