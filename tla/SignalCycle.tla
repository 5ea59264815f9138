----------------------------- MODULE SignalCycle -----------------------------
(***************************************************************************)
(* One cycle of run in the V26 engine, up to the decision that write_decision *)
(* is given: build_decision reads a direction off the market, the soft      *)
(* direction lock counts how long a trend has been weakening, and the signal *)
(* gate lets a bar have a few signals, apart in time.                       *)
(* Everything these remember from one cycle to the next is in module globals *)
(* that a restart of the process clears.                                    *)
(*                                                                         *)
(* The filters between the lock and the gate change neither, and are left   *)
(* out.  Time passes in units of which Cooldown and Expire are multiples;   *)
(* any number of cycles fits into one.                                      *)
(***************************************************************************)
EXTENDS Integers, Sequences, FiniteSets

CONSTANTS
  Markets,     \* the market states the engine may read
  None,        \* no value
  MaxBars,     \* bound: bars
  Required, MaxCycles, MaxKeep,  \* TRANSITION_DECAY_REQUIRED_COUNT, TRANSITION_WAIT_MAX_CYCLES, SOFT_LOCK_COUNTER_MAX_KEEP
  Expire,      \* SOFT_LOCK_COUNTER_EXPIRE_SECONDS
  MaxSignals, Cooldown           \* MAX_SIGNALS_PER_BAR, COOLDOWN_SECONDS

Directions == {"BUY", "SELL"}
Modes == {"TREND", "RANGE", "TRANSITION", "SPIKE"}
Bands == {"WALK_UP", "WALK_DOWN", "REVERSAL_UP", "REVERSAL_DOWN", "NORMAL", "COMPRESSION", "UNKNOWN"}

\* gap is buyScore - sellScore, macd the histogram in hundredths; above tells the side
\* of MA50 the bid is on (taken not to lie on it), stack the order of the averages.
MarketSpace ==
  [mode : Modes, bb : Bands, extreme : {"NONE", "UPPER", "LOWER"}, gap : Int, rsi : Int,
   macd : Int, above : BOOLEAN, stack : {"UP", "DOWN", "MIXED"}]

\* What classify_bb_state and classify_market make of a market: a walk along a band
\* has the score, the momentum and the side of MA50 with it.
Classified(m) ==
  /\ m.bb = "WALK_UP" => m.mode = "TREND" /\ m.gap > 0 /\ m.above /\ m.rsi >= 55 /\ m.macd >= 0
  /\ m.bb = "WALK_DOWN" => m.mode = "TREND" /\ m.gap < 0 /\ ~m.above /\ m.rsi <= 45 /\ m.macd <= 0
  /\ m.bb = "COMPRESSION" => m.mode = "TRANSITION"

ASSUME MarketsAssumption == Markets \subseteq MarketSpace /\ \A m \in Markets : Classified(m)
ASSUME LimitsAssumption ==
  /\ Required \in Nat \ {0, 1} /\ MaxCycles \in Nat /\ MaxKeep \in Nat
  /\ Required <= MaxCycles /\ MaxCycles <= MaxKeep
  /\ Expire \in Nat /\ Cooldown \in Nat /\ MaxSignals \in Nat /\ MaxBars \in Nat
ASSUME NoneAssumption == None \notin Directions \union {"NO_TRADE"}

VARIABLES
  bar,      \* the bar of the market state on disk
  decay,    \* transition_decay_state, _meta and fresh_state_snapshot: of the last evaluation
  gate,     \* bar_signal_count, last_signal_key and last_signal_time
  outcome,  \* what the last cycle made of the lock and of the gate
  weak,     \* history: evaluations in a row that found the same trend weakening, up to Required
  waits,    \* history: evaluations in a row that ended in TRANSITION_WAIT
  fires     \* history: this bar's normal signals, with their age

vars == <<bar, decay, gate, outcome, weak, waits, fires>>

Older(age, limit) == IF age < limit THEN age + 1 ELSE age

-----------------------------------------------------------------------------
\* The direction build_decision finds: the score decides, and of equal scores a reversal
\* at the band or a dominance, either way.
Toward(m) == IF m.gap > 0 THEN {"BUY"} ELSE IF m.gap < 0 THEN {"SELL"} ELSE Directions

\* With a direction the mode may have become TREND by a pullback, RANGE by a reversal.
Proposals(m) ==
  {[action |-> "NO_TRADE", mode |-> m.mode]}
  \union {[action |-> a, mode |-> m.mode] : a \in Toward(m)}
  \union (IF m.bb \in {"WALK_UP", "WALK_DOWN"} THEN {}
          ELSE {[action |-> a, mode |-> "TREND"] : a \in Toward(m)})
  \union (IF m.bb \in {"REVERSAL_UP", "REVERSAL_DOWN"}
          THEN {[action |-> a, mode |-> "RANGE"] : a \in Toward(m)} ELSE {})

\* A mistake: the order of the averages is a trend whatever the score says.
Locked_anyScore(m, mode) ==
  CASE m.bb = "WALK_UP" -> "BUY"
    [] m.bb = "WALK_DOWN" -> "SELL"
    [] mode = "TREND" /\ m.gap > 0 /\ m.above -> "BUY"
    [] mode = "TREND" /\ m.gap < 0 /\ ~m.above -> "SELL"
    [] m.stack = "UP" -> "BUY"
    [] m.stack = "DOWN" -> "SELL"
    [] OTHER -> None

\* infer_soft_trend_direction
Locked(m, mode) ==
  CASE m.bb = "WALK_UP" -> "BUY"
    [] m.bb = "WALK_DOWN" -> "SELL"
    [] mode = "TREND" /\ m.gap > 0 /\ m.above -> "BUY"
    [] mode = "TREND" /\ m.gap < 0 /\ ~m.above -> "SELL"
    [] m.gap > 0 /\ m.stack = "UP" -> "BUY"
    [] m.gap < 0 /\ m.stack = "DOWN" -> "SELL"
    [] OTHER -> None

\* is_soft_reversal_confirmed: its location condition follows from the edge it demands.
Reversal(m, locked) ==
  IF locked = "SELL"
  THEN m.gap >= 0 /\ (m.bb = "REVERSAL_DOWN" \/ m.extreme = "LOWER") /\ m.rsi >= 50 /\ m.macd >= 0
  ELSE m.gap <= 0 /\ (m.bb = "REVERSAL_UP" \/ m.extreme = "UPPER") /\ m.rsi <= 50 /\ m.macd <= 0

\* is_soft_trend_weakening
Weakening(m, locked) ==
  IF locked = "BUY"
  THEN m.bb \in {"REVERSAL_UP", "COMPRESSION"} \/ m.gap < 0 \/ m.rsi < 51 \/ m.macd < -8
  ELSE m.bb \in {"REVERSAL_DOWN", "COMPRESSION"} \/ m.gap > 0 \/ m.rsi > 49 \/ m.macd > 8

\* is_recovery_from_weakening
Recovery(m, locked) ==
  IF locked = "BUY" THEN m.gap >= 4 \/ (m.rsi >= 53 /\ m.macd >= 25 /\ m.gap >= 0)
                    ELSE m.gap <= -4 \/ (m.rsi <= 47 /\ m.macd <= -25 /\ m.gap <= 0)

-----------------------------------------------------------------------------
\* make_fresh_state_signature: mode, band and, the lock following the score, the score's
\* direction are in the key.
RsiSide(m) == IF m.rsi >= 50 THEN "BUY" ELSE "SELL"
MacdSide(m) == IF m.macd > 5 THEN "BUY" ELSE IF m.macd < -5 THEN "SELL" ELSE "NEUTRAL"

\* fresh_state_reset_check: the current data do not match the lock.
Mismatch(m, locked) ==
  LET other == IF locked = "BUY" THEN "SELL" ELSE "BUY"
  IN (IF locked = "BUY" THEN m.gap < 0 ELSE m.gap > 0) \/ (RsiSide(m) = other /\ MacdSide(m) = other)

\* The evaluation before was one of the same trend, in the same bar, not too long ago.
SameTrend(key) == decay.key = key /\ decay.bar = bar /\ decay.age < Expire

\* A mistake: a count is kept into the next bar and for any time.
Kept_forever(m, key) ==
  IF decay.key # key \/ Mismatch(m, key[1]) \/ decay.sides # <<RsiSide(m), MacdSide(m)>> THEN 0
  ELSE IF decay.count > MaxKeep THEN Required ELSE decay.count

\* A mistake: the cap takes effect before the release does.
Kept_cappedEarly(m, key) ==
  IF ~SameTrend(key) \/ Mismatch(m, key[1]) \/ decay.sides # <<RsiSide(m), MacdSide(m)>> THEN 0
  ELSE IF decay.count > Required THEN Required ELSE decay.count

\* reset_stale_transition_decay_keys: what is left of the count.
Kept(m, key) ==
  IF ~SameTrend(key) \/ Mismatch(m, key[1]) \/ decay.sides # <<RsiSide(m), MacdSide(m)>> THEN 0
  ELSE IF decay.count > MaxKeep THEN Required ELSE decay.count

\* apply_transition_decay
Counted(m, key) ==
  IF Weakening(m, key[1]) /\ ~Recovery(m, key[1]) THEN Kept(m, key) + 1 ELSE 0

\* soft_direction_lock_v2 for a proposal in the locked direction.
Evaluate(m, key) ==
  LET count == Counted(m, key)
      waiting == count \in Required..MaxCycles
  IN /\ decay' = [key |-> key, bar |-> bar, age |-> 0, count |-> count,
                  sides |-> <<RsiSide(m), MacdSide(m)>>]
     /\ waits' = IF waiting THEN waits + 1 ELSE 0
     /\ weak' = IF Weakening(m, key[1]) /\ ~Recovery(m, key[1])
                THEN IF SameTrend(key) THEN Older(weak, Required) ELSE 1
                ELSE 0

\* soft_direction_lock_v2: what it answers.  NO_TRADE is a proposal like any other, and
\* not one in the locked direction.  OPPOSED is a TREND_LOCK that does not allow.
SoftState(m, p) ==
  LET locked == Locked(m, p.mode) IN
  CASE locked = None -> "UNLOCKED"
    [] locked \notin {None, p.action} ->
         IF Reversal(m, locked) THEN "REVERSAL_ALLOW" ELSE "OPPOSED"
    [] locked = p.action ->
         IF Counted(m, <<locked, p.mode, m.bb>>) \in Required..MaxCycles
         THEN "TRANSITION_WAIT" ELSE "TREND_LOCK"

Lock(m, p) ==
  IF p.action = Locked(m, p.mode) THEN Evaluate(m, <<p.action, p.mode, m.bb>>)
                                  ELSE UNCHANGED <<decay, weak, waits>>

-----------------------------------------------------------------------------
\* A mistake: a bar may have as many signals as it likes.
NormalFire_anyNumber(key) == key # gate.key \/ gate.age > Cooldown

\* can_fire
Fired == IF gate.bar = bar THEN gate.count ELSE 0
NormalFire(key) == Fired < MaxSignals /\ (key # gate.key \/ gate.age > Cooldown)

\* can_fire for a decision with this key.  What it refuses, can_fire_or_strong_override
\* may let through all the same; that is remembered apart from what can_fire counts.
Signal(key, soft, directed) ==
  LET normal == NormalFire(key)
      fresh == IF gate.bar = bar THEN fires ELSE <<>>
  IN /\ gate' = IF normal THEN [bar |-> bar, count |-> Fired + 1, key |-> key, age |-> 0]
                          ELSE [gate EXCEPT !.bar = bar, !.count = Fired]
     /\ fires' = IF normal THEN Append(fresh, [key |-> key, age |-> 0]) ELSE fresh
     /\ outcome' = [soft |-> soft, directed |-> directed,
                    repeats |-> normal /\ \E i \in DOMAIN fresh :
                                             fresh[i].key = key /\ fresh[i].age <= Cooldown]
     /\ UNCHANGED bar

\* Returns of build_decision before the lock is asked: a stale or unusable market state,
\* equal scores, the end of a band in the direction of the score, a compression.
EarlyReturn(m) ==
  /\ \E key \in {<<bar, "STALE">>, <<bar, "BASE">>, <<bar, m.mode, m.bb>>} :
       Signal(key, "NONE", FALSE)
  /\ UNCHANGED <<decay, weak, waits>>

GoesOn(m) ==
  /\ ~(m.extreme = "UPPER" /\ m.gap > 0) /\ ~(m.extreme = "LOWER" /\ m.gap < 0)
  /\ m.bb # "COMPRESSION"

\* The rest of build_decision, and the gate.
Decide(m) ==
  /\ GoesOn(m)
  /\ \E p \in Proposals(m) :
       /\ Lock(m, p)
       /\ Signal(<<bar, m.mode, m.bb>>, SoftState(m, p), p.action # "NO_TRADE")

\* An exception after the lock: the cycle ends with a rejection of its own.
LogicError(m) ==
  /\ GoesOn(m)
  /\ \E p \in Proposals(m) :
       /\ Lock(m, p)
       /\ outcome' = [soft |-> SoftState(m, p), directed |-> p.action # "NO_TRADE", repeats |-> FALSE]
  /\ UNCHANGED <<bar, gate, fires>>

Tick ==
  /\ decay' = [decay EXCEPT !.age = Older(@, Expire)]
  /\ gate' = [gate EXCEPT !.age = Older(@, Cooldown + 1)]
  /\ fires' = [i \in DOMAIN fires |-> [fires[i] EXCEPT !.age = Older(@, Cooldown + 1)]]
  /\ UNCHANGED <<bar, outcome, weak, waits>>

NewBar == bar < MaxBars /\ bar' = bar + 1 /\ UNCHANGED <<decay, gate, outcome, weak, waits, fires>>

NoEvaluation == [key |-> None, bar |-> 0, age |-> Expire, count |-> 0, sides |-> None]
NoSignal == [bar |-> 0, count |-> 0, key |-> None, age |-> Cooldown + 1]
NoOutcome == [soft |-> "NONE", directed |-> FALSE, repeats |-> FALSE]

Init ==
  /\ bar = 1 /\ decay = NoEvaluation /\ gate = NoSignal /\ outcome = NoOutcome
  /\ weak = 0 /\ waits = 0 /\ fires = <<>>

\* Death and restart of the engine: the globals are as at the start.
Restart ==
  /\ decay' = NoEvaluation /\ gate' = NoSignal /\ outcome' = NoOutcome
  /\ weak' = 0 /\ waits' = 0 /\ fires' = <<>>
  /\ UNCHANGED bar

Next ==
  \/ \E m \in Markets : EarlyReturn(m)
  \/ \E m \in Markets : Decide(m)
  \/ \E m \in Markets : LogicError(m)
  \/ Tick \/ NewBar \/ Restart

Spec == Init /\ [][Next]_vars

-----------------------------------------------------------------------------
\* "Soft Lock should not flip to TRANSITION_WAIT on one weak tick/candle": whatever
\* comes between, the lock waits only after as many evaluations of one trend as
\* demanded found it weakening, in a row, within a bar, none of them out of date.
WaitEarned == outcome.soft = "TRANSITION_WAIT" => weak >= Required

\* "TRANSITION_WAIT is finite" (CURRENT_SYSTEM_STATE.md): a trend that keeps weakening
\* is let go after a few evaluations, although the count that says so is capped and
\* begins again above Required.
WaitBounded == waits <= MaxCycles - Required + 1

\* No direction ever comes up against a lock: the lock only follows the score, as every
\* direction does.  It never blocks one, and no reversal is ever allowed against it.
LockAgrees == outcome.soft # "REVERSAL_ALLOW" /\ (outcome.soft = "OPPOSED" => ~outcome.directed)

\* can_fire remembers the last key only; still no signal is repeated within the
\* cooldown, since a bar has no room for another one between the two.
CooldownHolds == ~outcome.repeats
=============================================================================
