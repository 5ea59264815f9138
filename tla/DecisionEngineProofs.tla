------------------------ MODULE DecisionEngineProofs ------------------------
(***************************************************************************)
(* Proofs about SignalCycle and DecisionWrite, the two halves of a cycle of *)
(* the V26 engine.                                                          *)
(*                                                                         *)
(* SignalCycle, for any market states, any limits of its counters in their  *)
(* order and any number of bars: the lock waits only when that is earned,   *)
(* not longer than it may, and never against a direction; and with two      *)
(* signals to a bar none is repeated within the cooldown.                   *)
(*                                                                         *)
(* DecisionWrite, for any candidates whose facts agree with each other, any *)
(* number of attempts and restarts: what is published of a decision obeys   *)
(* the hard block, the entry window and the governor's count of losses and  *)
(* carries the levels its profile asks for, in whatever order the stages    *)
(* took and gave the TRADE; and no protection outlives its limit.           *)
(***************************************************************************)
EXTENDS SignalCycle, DecisionWrite, SequenceTheorems, TLAPS

LockKeys == Directions \X Modes \X Bands
Sides == Directions \X (Directions \union {"NEUTRAL"})
Keys == (Nat \X {"STALE", "BASE"}) \union (Nat \X Modes \X Bands)
States == {"NONE", "UNLOCKED", "REVERSAL_ALLOW", "OPPOSED", "TRANSITION_WAIT", "TREND_LOCK"}

SignalTypeOK ==
  /\ bar \in Nat \ {0}
  /\ decay \in [key : LockKeys \union {None}, bar : Nat, age : Nat, count : Nat,
                sides : Sides \union {None}]
  /\ gate \in [bar : Nat, count : Nat, key : Keys \union {None}, age : Nat]
  /\ outcome \in [soft : States, directed : BOOLEAN, repeats : BOOLEAN]
  /\ weak \in Nat /\ waits \in Nat
  /\ fires \in Seq([key : Keys, age : Nat])

\* While the lock waits, the count is between its limits and the waits so far are those
\* the count has passed since Required.
WaitsCounted ==
  waits > 0 => decay.count \in Required..MaxCycles /\ waits <= decay.count - Required + 1

\* The count never runs ahead of the evaluations that found the trend weakening.
CountEarned == weak >= decay.count \/ weak >= Required

\* Of this bar's signals the gate knows how many there were and which was the last.
GateKnows ==
  /\ gate.bar <= bar
  /\ gate.bar = bar =>
       /\ gate.count = Len(fires)
       /\ Len(fires) > 0 => fires[Len(fires)] = [key |-> gate.key, age |-> gate.age]

LockInv == WaitsCounted /\ CountEarned /\ WaitEarned /\ LockAgrees

-----------------------------------------------------------------------------
\* What a proposal is.
LEMMA ProposalType ==
  ASSUME NEW m \in Markets, NEW p \in Proposals(m)
  PROVE  /\ p.action \in Directions \union {"NO_TRADE"} /\ p.mode \in Modes
         /\ p.action \in Directions => p.action \in Toward(m)
<1>1. m \in MarketSpace
  BY MarketsAssumption
<1>2. m.mode \in Modes /\ Toward(m) \subseteq Directions
  BY <1>1 DEF MarketSpace, Toward, Directions
<1> QED
  BY <1>2 DEF Proposals, Modes, Directions

\* The lock is in one of the two directions or in none, and only where the score is.
LEMMA LockFollowsScore ==
  ASSUME NEW m \in Markets, NEW mode
  PROVE  /\ Locked(m, mode) \in Directions \union {None}
         /\ Locked(m, mode) = "BUY" => m.gap > 0
         /\ Locked(m, mode) = "SELL" => m.gap < 0
<1>1. Classified(m)
  BY MarketsAssumption
<1> QED
  BY <1>1, NoneAssumption DEF Locked, Classified, Directions

\* A direction never meets a lock against it, and no reversal is confirmed under a lock.
LEMMA NeverOpposed ==
  ASSUME NEW m \in Markets, NEW p \in Proposals(m)
  PROVE  /\ p.action \in Directions => Locked(m, p.mode) \in {None, p.action}
         /\ Locked(m, p.mode) # None => ~Reversal(m, Locked(m, p.mode))
<1>1. m.gap \in Int
  BY MarketsAssumption DEF MarketSpace
<1>2. p.action \in Directions => p.action \in Toward(m)
  BY ProposalType
<1>3. /\ Locked(m, p.mode) \in Directions \union {None}
      /\ Locked(m, p.mode) = "BUY" => m.gap > 0
      /\ Locked(m, p.mode) = "SELL" => m.gap < 0
  BY LockFollowsScore
<1> QED
  BY <1>1, <1>2, <1>3, NoneAssumption DEF Reversal, Toward, Directions

\* What the lock answers to a proposal.
LEMMA Answers ==
  ASSUME NEW m \in Markets, NEW p \in Proposals(m)
  PROVE  /\ SoftState(m, p) \in States /\ SoftState(m, p) # "REVERSAL_ALLOW"
         /\ SoftState(m, p) = "OPPOSED" => p.action = "NO_TRADE"
         /\ SoftState(m, p) = "TRANSITION_WAIT" =>
              /\ p.action = Locked(m, p.mode)
              /\ Counted(m, <<p.action, p.mode, m.bb>>) \in Required..MaxCycles
<1> DEFINE locked == Locked(m, p.mode)
<1>1. /\ p.action \in Directions => locked \in {None, p.action}
      /\ locked # None => ~Reversal(m, locked)
  BY NeverOpposed
<1>2. p.action \in Directions \union {"NO_TRADE"}
  BY ProposalType
<1>3. CASE locked = None
  BY <1>3 DEF SoftState, States
<1>4. CASE locked # None /\ locked # p.action
  <2>1. SoftState(m, p) = "OPPOSED"
    BY <1>1, <1>4 DEF SoftState
  <2> QED
    BY <1>1, <1>2, <1>4, <2>1 DEF States
<1>5. CASE locked # None /\ locked = p.action
  <2>1. SoftState(m, p) = IF Counted(m, <<p.action, p.mode, m.bb>>) \in Required..MaxCycles
                          THEN "TRANSITION_WAIT" ELSE "TREND_LOCK"
    BY <1>5 DEF SoftState
  <2> QED
    BY <1>5, <2>1 DEF States
<1> QED
  BY <1>3, <1>4, <1>5

-----------------------------------------------------------------------------
\* An evaluation moves the count by one, or back to nothing, or from beyond its cap to
\* just above Required.
LEMMA Evaluation ==
  ASSUME SignalTypeOK, WaitsCounted, CountEarned,
         NEW m \in Markets, NEW key \in LockKeys, Evaluate(m, key)
  PROVE  /\ WaitsCounted' /\ CountEarned' /\ weak' \in Nat /\ waits' \in Nat
         /\ decay'.count \in Nat /\ decay'.count = Counted(m, key)
         /\ decay' = [key |-> key, bar |-> bar, age |-> 0, count |-> decay'.count,
                      sides |-> <<RsiSide(m), MacdSide(m)>>]
         /\ Counted(m, key) \in Required..MaxCycles => weak' >= Required
<1> DEFINE losing == Weakening(m, key[1]) /\ ~Recovery(m, key[1])
           count == Counted(m, key)
           waiting == count \in Required..MaxCycles
<1> USE LimitsAssumption
<1>1. decay.count \in Nat /\ weak \in Nat /\ waits \in Nat
  BY DEF SignalTypeOK
<1>2. \/ Kept(m, key) = 0
      \/ SameTrend(key) /\ decay.count > MaxKeep /\ Kept(m, key) = Required
      \/ SameTrend(key) /\ decay.count <= MaxKeep /\ Kept(m, key) = decay.count
  BY <1>1 DEF Kept
<1>3. count = IF losing THEN Kept(m, key) + 1 ELSE 0
  BY DEF Counted
<1>4. /\ decay' = [key |-> key, bar |-> bar, age |-> 0, count |-> count,
                   sides |-> <<RsiSide(m), MacdSide(m)>>]
      /\ waits' = IF waiting THEN waits + 1 ELSE 0
      /\ weak' = IF losing THEN IF SameTrend(key) THEN Older(weak, Required) ELSE 1 ELSE 0
  BY DEF Evaluate
<1>5. count \in Nat /\ weak' \in Nat /\ waits' \in Nat
  BY <1>1, <1>2, <1>3, <1>4 DEF Older
<1>6. decay'.count = count
  BY <1>4
<1> HIDE DEF count, losing
<1>7. WaitsCounted'
  <2> SUFFICES ASSUME waiting PROVE waits + 1 <= count - Required + 1
    BY <1>4, <1>5, <1>6 DEF WaitsCounted
  <2>1. losing /\ Kept(m, key) # 0
    BY <1>2, <1>3
  <2>2. CASE decay.count > MaxKeep
    BY <1>1, <1>2, <1>3, <2>1, <2>2 DEF WaitsCounted
  <2>3. CASE decay.count <= MaxKeep /\ Kept(m, key) = decay.count
    BY <1>1, <1>3, <2>1, <2>3 DEF WaitsCounted
  <2> QED
    BY <1>1, <1>2, <2>1, <2>2, <2>3
<1>8. weak' >= count \/ weak' >= Required
  BY <1>1, <1>2, <1>3, <1>4, <1>5 DEF CountEarned, Older
<1>9. CountEarned'
  BY <1>6, <1>8 DEF CountEarned
<1>10. waiting => weak' >= Required
  BY <1>5, <1>8
<1> QED
  BY <1>4, <1>5, <1>6, <1>7, <1>9, <1>10 DEF count

\* Asking the lock keeps the counts in order, and an answer to wait is earned.
LEMMA Asking ==
  ASSUME SignalTypeOK, WaitsCounted, CountEarned,
         NEW m \in Markets, NEW p \in Proposals(m), Lock(m, p)
  PROVE  /\ WaitsCounted' /\ CountEarned' /\ weak' \in Nat /\ waits' \in Nat
         /\ decay' \in [key : LockKeys \union {None}, bar : Nat, age : Nat, count : Nat,
                        sides : Sides \union {None}]
         /\ SoftState(m, p) = "TRANSITION_WAIT" => weak' >= Required
<1> DEFINE key == <<p.action, p.mode, m.bb>>
<1>1. CASE p.action = Locked(m, p.mode)
  <2>1. p.action \in Directions
    BY <1>1, ProposalType, LockFollowsScore, NoneAssumption DEF Directions
  <2>2. m.bb \in Bands
    BY MarketsAssumption DEF MarketSpace
  <2>3. key \in LockKeys
    BY <2>1, <2>2, ProposalType DEF LockKeys
  <2>4. Evaluate(m, key)
    BY <1>1 DEF Lock
  <2>5. <<RsiSide(m), MacdSide(m)>> \in Sides
    BY DEF RsiSide, MacdSide, Sides, Directions
  <2> HIDE DEF key
  <2>6. /\ WaitsCounted' /\ CountEarned' /\ weak' \in Nat /\ waits' \in Nat
        /\ decay'.count \in Nat
        /\ decay' = [key |-> key, bar |-> bar, age |-> 0, count |-> decay'.count,
                     sides |-> <<RsiSide(m), MacdSide(m)>>]
        /\ Counted(m, key) \in Required..MaxCycles => weak' >= Required
    BY <2>3, <2>4, Evaluation
  <2>7. SoftState(m, p) = "TRANSITION_WAIT" => Counted(m, key) \in Required..MaxCycles
    BY Answers DEF key
  <2>8. bar \in Nat
    BY DEF SignalTypeOK
  <2> QED
    BY <2>3, <2>5, <2>6, <2>7, <2>8
<1>2. CASE p.action # Locked(m, p.mode)
  <2>1. UNCHANGED <<decay, weak, waits>>
    BY <1>2 DEF Lock
  <2>2. SoftState(m, p) # "TRANSITION_WAIT"
    BY <1>2, Answers
  <2> QED
    BY <2>1, <2>2 DEF SignalTypeOK, WaitsCounted, CountEarned
<1> QED
  BY <1>1, <1>2

-----------------------------------------------------------------------------
\* The gate keeps to what it knows of the bar, and of two signals to a bar the second
\* is not the first again within the cooldown.
LEMMA Gating ==
  ASSUME SignalTypeOK, GateKnows, NEW key \in Keys, NEW soft \in States,
         NEW directed \in BOOLEAN, Signal(key, soft, directed)
  PROVE  /\ gate' \in [bar : Nat, count : Nat, key : Keys \union {None}, age : Nat]
         /\ outcome' \in [soft : States, directed : BOOLEAN, repeats : BOOLEAN]
         /\ fires' \in Seq([key : Keys, age : Nat])
         /\ bar' = bar /\ GateKnows'
         /\ outcome'.soft = soft /\ outcome'.directed = directed
         /\ MaxSignals <= 2 => ~outcome'.repeats
<1> DEFINE fresh == IF gate.bar = bar THEN fires ELSE <<>>
           normal == NormalFire(key)
           new == [key |-> key, age |-> 0]
           again == normal /\ \E i \in DOMAIN fresh : fresh[i].key = key /\ fresh[i].age <= Cooldown
<1>1. /\ bar \in Nat /\ gate \in [bar : Nat, count : Nat, key : Keys \union {None}, age : Nat]
      /\ fires \in Seq([key : Keys, age : Nat])
  BY DEF SignalTypeOK
<1>2. /\ fresh \in Seq([key : Keys, age : Nat]) /\ Len(fresh) = Fired
      /\ Len(fresh) > 0 => fresh[Len(fresh)] = [key |-> gate.key, age |-> gate.age]
  BY <1>1 DEF GateKnows, Fired
<1>3. /\ gate' = IF normal THEN [bar |-> bar, count |-> Fired + 1, key |-> key, age |-> 0]
                 ELSE [gate EXCEPT !.bar = bar, !.count = Fired]
      /\ fires' = IF normal THEN Append(fresh, new) ELSE fresh
      /\ outcome' = [soft |-> soft, directed |-> directed, repeats |-> again]
      /\ bar' = bar
  BY DEF Signal
<1>4. again \in BOOLEAN
  OBVIOUS
<1>5. MaxSignals <= 2 => ~again
  <2> SUFFICES ASSUME MaxSignals <= 2, normal, NEW i \in DOMAIN fresh,
                      fresh[i].key = key, fresh[i].age <= Cooldown
               PROVE  FALSE
    OBVIOUS
  <2>1. Fired < 2 /\ (key # gate.key \/ gate.age > Cooldown)
    BY <1>1, <1>2, LimitsAssumption DEF NormalFire
  <2>2. i = Len(fresh)
    BY <1>2, <2>1
  <2>3. fresh[i] = [key |-> gate.key, age |-> gate.age]
    BY <1>2, <2>2
  <2> QED
    BY <1>1, <2>1, <2>3, LimitsAssumption
<1> HIDE DEF fresh, normal, again
<1>6. CASE normal
  <2>1. /\ gate' = [bar |-> bar, count |-> Fired + 1, key |-> key, age |-> 0]
        /\ fires' = Append(fresh, new)
    BY <1>3, <1>6
  <2>2. /\ fires' \in Seq([key : Keys, age : Nat]) /\ Len(fires') = Fired + 1
        /\ fires'[Fired + 1] = new
    BY <1>2, <2>1
  <2>3. GateKnows'
    BY <1>1, <1>2, <1>3, <2>1, <2>2 DEF GateKnows
  <2> QED
    BY <1>1, <1>2, <1>3, <1>4, <1>5, <2>1, <2>2, <2>3
<1>7. CASE ~normal
  <2>1. gate' = [gate EXCEPT !.bar = bar, !.count = Fired] /\ fires' = fresh
    BY <1>3, <1>7
  <2>2. gate'.bar = bar /\ gate'.count = Fired /\ gate'.key = gate.key /\ gate'.age = gate.age
    BY <1>1, <2>1
  <2>3. GateKnows'
    BY <1>1, <1>2, <1>3, <2>1, <2>2 DEF GateKnows
  <2>4. Fired \in Nat
    BY <1>2
  <2>5. gate' \in [bar : Nat, count : Nat, key : Keys \union {None}, age : Nat]
    BY <1>1, <2>1, <2>4
  <2> QED
    BY <1>1, <1>2, <1>3, <1>4, <1>5, <2>1, <2>3, <2>5
<1> QED
  BY <1>6, <1>7

\* Everything that holds of the bar, the counts and the gate between two cycles.
CycleInv == SignalTypeOK /\ GateKnows /\ LockInv

\* A cycle keeps the invariant, given what it does to the lock and to the gate.
LEMMA NextInv == CycleInv /\ [Next]_vars => CycleInv' /\ (MaxSignals <= 2 /\ CooldownHolds => CooldownHolds')
<1> SUFFICES ASSUME CycleInv, [Next]_vars
             PROVE  CycleInv' /\ (MaxSignals <= 2 /\ CooldownHolds => CooldownHolds')
  OBVIOUS
<1> USE DEF CycleInv, LockInv
<1>m. ASSUME NEW m \in Markets PROVE m.mode \in Modes /\ m.bb \in Bands
  BY MarketsAssumption DEF MarketSpace
<1>1. ASSUME NEW m \in Markets, EarlyReturn(m)
      PROVE  CycleInv' /\ (MaxSignals <= 2 => CooldownHolds')
  <2>1. PICK key \in {<<bar, "STALE">>, <<bar, "BASE">>, <<bar, m.mode, m.bb>>} :
          Signal(key, "NONE", FALSE)
    BY <1>1 DEF EarlyReturn
  <2>2. UNCHANGED <<decay, weak, waits>>
    BY <1>1 DEF EarlyReturn
  <2>3. key \in Keys /\ "NONE" \in States
    BY <1>m DEF Keys, States, SignalTypeOK
  <2>4. /\ gate' \in [bar : Nat, count : Nat, key : Keys \union {None}, age : Nat]
        /\ outcome' \in [soft : States, directed : BOOLEAN, repeats : BOOLEAN]
        /\ fires' \in Seq([key : Keys, age : Nat])
        /\ bar' = bar /\ GateKnows' /\ outcome'.soft = "NONE"
        /\ MaxSignals <= 2 => ~outcome'.repeats
    BY <2>1, <2>3, Gating
  <2> QED
    BY <2>2, <2>4 DEF SignalTypeOK, WaitsCounted, CountEarned, WaitEarned, LockAgrees, CooldownHolds
<1>2. ASSUME NEW m \in Markets, Decide(m)
      PROVE  CycleInv' /\ (MaxSignals <= 2 => CooldownHolds')
  <2>1. PICK p \in Proposals(m) :
          Lock(m, p) /\ Signal(<<bar, m.mode, m.bb>>, SoftState(m, p), p.action # "NO_TRADE")
    BY <1>2 DEF Decide
  <2>2. <<bar, m.mode, m.bb>> \in Keys
    BY <1>m DEF Keys, SignalTypeOK
  <2>3. /\ SoftState(m, p) \in States /\ SoftState(m, p) # "REVERSAL_ALLOW"
        /\ SoftState(m, p) = "OPPOSED" => p.action = "NO_TRADE"
    BY Answers
  <2>4. /\ WaitsCounted' /\ CountEarned' /\ weak' \in Nat /\ waits' \in Nat
        /\ decay' \in [key : LockKeys \union {None}, bar : Nat, age : Nat, count : Nat,
                       sides : Sides \union {None}]
        /\ SoftState(m, p) = "TRANSITION_WAIT" => weak' >= Required
    BY <2>1, Asking
  <2>5. /\ gate' \in [bar : Nat, count : Nat, key : Keys \union {None}, age : Nat]
        /\ outcome' \in [soft : States, directed : BOOLEAN, repeats : BOOLEAN]
        /\ fires' \in Seq([key : Keys, age : Nat])
        /\ bar' = bar /\ GateKnows'
        /\ outcome'.soft = SoftState(m, p) /\ outcome'.directed = (p.action # "NO_TRADE")
        /\ MaxSignals <= 2 => ~outcome'.repeats
    BY <2>1, <2>2, <2>3, Gating
  <2> QED
    BY <2>3, <2>4, <2>5 DEF SignalTypeOK, WaitEarned, LockAgrees, CooldownHolds
<1>3. ASSUME NEW m \in Markets, LogicError(m)
      PROVE  CycleInv' /\ CooldownHolds'
  <2>1. PICK p \in Proposals(m) :
          /\ Lock(m, p)
          /\ outcome' = [soft |-> SoftState(m, p), directed |-> p.action # "NO_TRADE",
                         repeats |-> FALSE]
    BY <1>3 DEF LogicError
  <2>2. UNCHANGED <<bar, gate, fires>>
    BY <1>3 DEF LogicError
  <2>3. /\ SoftState(m, p) \in States /\ SoftState(m, p) # "REVERSAL_ALLOW"
        /\ SoftState(m, p) = "OPPOSED" => p.action = "NO_TRADE"
    BY Answers
  <2>4. /\ WaitsCounted' /\ CountEarned' /\ weak' \in Nat /\ waits' \in Nat
        /\ decay' \in [key : LockKeys \union {None}, bar : Nat, age : Nat, count : Nat,
                       sides : Sides \union {None}]
        /\ SoftState(m, p) = "TRANSITION_WAIT" => weak' >= Required
    BY <2>1, Asking
  <2> QED
    BY <2>1, <2>2, <2>3, <2>4
       DEF SignalTypeOK, GateKnows, WaitEarned, LockAgrees, CooldownHolds
<1>4. CASE Tick
  <2>0. /\ \A a, limit \in Nat : Older(a, limit) \in Nat
        /\ Expire \in Nat /\ Cooldown + 1 \in Nat
    BY LimitsAssumption DEF Older
  <2>d. decay' = [decay EXCEPT !.age = Older(decay.age, Expire)]
    BY <1>4 DEF Tick
  <2>g. gate' = [gate EXCEPT !.age = Older(gate.age, Cooldown + 1)]
    BY <1>4 DEF Tick
  <2>f. fires' = [i \in DOMAIN fires |-> [fires[i] EXCEPT !.age = Older(fires[i].age, Cooldown + 1)]]
    BY <1>4 DEF Tick
  <2>u. UNCHANGED <<bar, outcome, weak, waits>>
    BY <1>4 DEF Tick
  <2>1. /\ decay' \in [key : LockKeys \union {None}, bar : Nat, age : Nat, count : Nat,
                       sides : Sides \union {None}]
        /\ decay'.count = decay.count
    BY <2>0, <2>d DEF SignalTypeOK
  <2>2. /\ gate' \in [bar : Nat, count : Nat, key : Keys \union {None}, age : Nat]
        /\ gate'.bar = gate.bar /\ gate'.count = gate.count /\ gate'.key = gate.key
        /\ gate'.age = Older(gate.age, Cooldown + 1)
    BY <2>0, <2>g DEF SignalTypeOK
  <2>3. /\ fires' \in Seq([key : Keys, age : Nat]) /\ Len(fires') = Len(fires)
        /\ \A i \in DOMAIN fires :
             fires'[i] = [fires[i] EXCEPT !.age = Older(fires[i].age, Cooldown + 1)]
    <3>1. fires \in Seq([key : Keys, age : Nat])
      BY DEF SignalTypeOK
    <3>2. /\ DOMAIN fires = 1..Len(fires) /\ Len(fires) \in Nat
          /\ \A i \in 1..Len(fires) : fires[i] \in [key : Keys, age : Nat]
      BY <3>1, ElementOfSeq, LenProperties
    <3>3. ASSUME NEW i \in 1..Len(fires)
          PROVE  [fires[i] EXCEPT !.age = Older(fires[i].age, Cooldown + 1)] \in [key : Keys, age : Nat]
      <4>1. fires[i] \in [key : Keys, age : Nat] /\ fires[i].age \in Nat
        BY <3>2
      <4>2. Older(fires[i].age, Cooldown + 1) \in Nat
        BY <2>0, <4>1
      <4> QED
        BY <4>1, <4>2
    <3> DEFINE older(i) == [fires[i] EXCEPT !.age = Older(fires[i].age, Cooldown + 1)]
    <3>4. fires' = [i \in 1..Len(fires) |-> older(i)]
      BY <2>f, <3>2
    <3>5. \A i \in 1..Len(fires) : older(i) \in [key : Keys, age : Nat]
      BY <3>3
    <3> HIDE DEF older
    <3>6. fires' \in Seq([key : Keys, age : Nat]) /\ Len(fires') = Len(fires)
      BY <3>2, <3>4, <3>5
    <3>7. \A i \in DOMAIN fires : fires'[i] = older(i)
      BY <3>2, <3>4
    <3> QED
      BY <3>6, <3>7 DEF older
  <2>4. GateKnows'
    BY <2>u, <2>2, <2>3 DEF SignalTypeOK, GateKnows
  <2> QED
    BY <2>u, <2>1, <2>2, <2>3, <2>4
       DEF SignalTypeOK, WaitsCounted, CountEarned, WaitEarned, LockAgrees, CooldownHolds
<1>5. CASE NewBar
  BY <1>5 DEF NewBar, SignalTypeOK, GateKnows, WaitsCounted, CountEarned, WaitEarned, LockAgrees,
              CooldownHolds
<1>6. CASE Restart
  <2>1. SignalTypeOK'
    BY <1>6, LimitsAssumption DEF Restart, SignalTypeOK, NoEvaluation, NoSignal, NoOutcome, States
  <2>2. GateKnows'
    BY <1>6 DEF Restart, SignalTypeOK, GateKnows, NoSignal
  <2> QED
    BY <1>6, <2>1, <2>2
       DEF Restart, WaitsCounted, CountEarned, WaitEarned, LockAgrees, CooldownHolds,
           NoEvaluation, NoOutcome
<1>7. CASE UNCHANGED vars
  BY <1>7 DEF vars, SignalTypeOK, GateKnows, WaitsCounted, CountEarned, WaitEarned, LockAgrees,
              CooldownHolds
<1> QED
  BY <1>1, <1>2, <1>3, <1>4, <1>5, <1>6, <1>7 DEF Next

\* The invariant holds initially.
LEMMA InitInv == Init => CycleInv /\ CooldownHolds
<1> SUFFICES ASSUME Init PROVE CycleInv /\ CooldownHolds
  OBVIOUS
<1>1. SignalTypeOK
  BY LimitsAssumption DEF Init, SignalTypeOK, NoEvaluation, NoSignal, NoOutcome, States
<1> QED
  BY <1>1 DEF Init, CycleInv, LockInv, GateKnows, WaitsCounted, CountEarned, WaitEarned, LockAgrees,
              CooldownHolds, NoEvaluation, NoSignal, NoOutcome

-----------------------------------------------------------------------------
\* The soft direction lock answers TRANSITION_WAIT only after Required weakening
\* evaluations of one trend in a row, whatever restarts, bars and failures come between.
THEOREM WaitsAreEarned == Spec => []WaitEarned
<1>1. CycleInv => WaitEarned
  BY DEF CycleInv, LockInv
<1> QED
  BY <1>1, InitInv, NextInv, PTL DEF Spec

\* TRANSITION_WAIT is finite: at most MaxCycles - Required + 1 evaluations in a row wait.
THEOREM WaitsAreBounded == Spec => []WaitBounded
<1>1. CycleInv => WaitBounded
  BY LimitsAssumption DEF CycleInv, LockInv, SignalTypeOK, WaitsCounted, WaitBounded
<1> QED
  BY <1>1, InitInv, NextInv, PTL DEF Spec

\* No direction build_decision proposes ever comes up against the lock, and its state
\* REVERSAL_ALLOW is never reached.
THEOREM LockNeverOpposes == Spec => []LockAgrees
<1>1. CycleInv => LockAgrees
  BY DEF CycleInv, LockInv
<1> QED
  BY <1>1, InitInv, NextInv, PTL DEF Spec

\* With at most two signals to a bar can_fire repeats none within the cooldown, although
\* it remembers the last key only.
THEOREM NoRepeatInCooldown ==
  ASSUME MaxSignals <= 2
  PROVE  Spec => []CooldownHolds
<1>1. CycleInv /\ CooldownHolds /\ [Next]_vars => CycleInv' /\ CooldownHolds'
  BY NextInv
<1>2. Init => CycleInv /\ CooldownHolds
  BY InitInv
<1> QED
  BY <1>1, <1>2, PTL DEF Spec

-----------------------------------------------------------------------------
(* write_decision: what the stages do to the document.                      *)

Marks == {"LOCATION", "LATE", "EXHAUSTION"}
WaitNames == {"", "LOCATION", "VALID", "WINDOW", "BYPASSED", "RELEASED"}
VetoNames == {"", "NONE", "WEAK_GAP", "CHOP", "DAILY_STOP", "EXPLAINED"}
Documents ==
  [trade : BOOLEAN, identity : {"trade", "none", "absent"}, managed : BOOLEAN, wait : WaitNames,
   blocked : BOOLEAN, marks : SUBSET Marks, veto : VetoNames, hardBlock : BOOLEAN, gap2 : BOOLEAN,
   stop : Levels, target : Levels, allowed : BOOLEAN, send : BOOLEAN]
ProtectionNames == {"THESIS", "DECAY", "COOLDOWN", "LOCATION", "NONE"}
Memories == [key : Nat, waits : Nat, protection : ProtectionNames, cycles : Nat]

\* What a failed attempt leaves is a document, and a protection within its limit.
Bounded(m) == m.cycles <= MaximumCycles[m.protection]

\* The verdict of the loss governor, for a TRADE on a day that is not one of the stop.
Governed(f) == f.daily # "STOP" /\ f.streak >= 2 => ThesisValid(f) /\ f.streak = 2

\* What a stage sees is a fact of the cycle, or none.
LEMMA NoFactsType == NoFacts \in FactSpace
BY DEF NoFacts, FactSpace, ConfidenceStates, LocationGrades, Windows, LateGrades,
       ExhaustionGrades, DailyResults, LossStreaks, Levels

\* A protection selected is one of the table, or none.
LEMMA SelectedType ==
  ASSUME NEW d, NEW f
  PROVE  Selected(d, f) \in ProtectionNames
<1> DEFINE wanted == {i \in DOMAIN Protections : Wanted(d, f, Protections[i])}
           i == CHOOSE i \in wanted : \A j \in wanted : i <= j
<1>1. DOMAIN Protections = 1..4
  BY DEF Protections
<1>2. ASSUME wanted # {} PROVE i \in wanted
  <2>1. wanted \subseteq 1..4
    BY <1>1
  <2> HIDE DEF wanted
  <2>2. \E k \in wanted : \A j \in wanted : k <= j
    <3>1. CASE 1 \in wanted
      BY <2>1, <3>1
    <3>2. CASE 1 \notin wanted /\ 2 \in wanted
      BY <2>1, <3>2
    <3>3. CASE 1 \notin wanted /\ 2 \notin wanted /\ 3 \in wanted
      BY <2>1, <3>3
    <3>4. CASE wanted \subseteq {4}
      <4>1. wanted = {4}
        BY <1>2, <3>4
      <4> QED
        BY <4>1
    <3> QED
      BY <2>1, <3>1, <3>2, <3>3, <3>4
  <2> QED
    BY <2>2
<1>3. \A k \in 1..4 : Protections[k] \in ProtectionNames
  BY DEF Protections, ProtectionNames
<1> HIDE DEF i
<1>4. Selected(d, f) = IF wanted = {} THEN "NONE" ELSE Protections[i]
  BY DEF Selected, i
<1> QED
  BY <1>1, <1>2, <1>3, <1>4 DEF ProtectionNames

\* The counter of waits is a number.
LEMMA WaitsType == ASSUME NEW m \in Memories, NEW f PROVE Waits(m, f) \in Nat
BY WaitsAssumption DEF Waits, Memories

\* A document that keeps its identity, one that is besides no TRADE unless it was, and
\* one whose levels are besides what they were.
Named(d) == {e \in Documents : e.identity = d.identity}
Lowered(d) == {e \in Named(d) : e.trade => d.trade}
Preserved(d) == {e \in Lowered(d) : e.stop = d.stop /\ e.target = d.target}

LEMMA EnterType == ASSUME NEW d \in Documents PROVE Enter(d) \in Named(d)
BY DEF Enter, Documents, Named

LEMMA LeaveType == ASSUME NEW d \in Documents PROVE Leave(d) \in Preserved(d) /\ ~Leave(d).trade
BY DEF Leave, Documents, Named, Lowered, Preserved

LEMMA WaitForType ==
  ASSUME NEW d \in Documents, NEW w \in WaitNames
  PROVE  WaitFor(d, w) \in Preserved(d) /\ ~WaitFor(d, w).trade
<1>1. Leave(d) \in Preserved(d) /\ ~Leave(d).trade
  BY LeaveType
<1> QED
  BY <1>1 DEF WaitFor, Documents, Named, Lowered, Preserved

LEMMA LocationType ==
  ASSUME NEW d \in Documents, NEW f \in FactSpace
  PROVE  Location(d, f) \in Lowered(d)
<1> DEFINE marked == [d EXCEPT !.marks = @ \union {"LOCATION"}]
<1>1. [d EXCEPT !.blocked = FALSE] \in Lowered(d)
  BY DEF WaitNames, VetoNames, Documents, Named, Lowered
<1>2. marked \in Lowered(d)
  BY DEF WaitNames, VetoNames, Documents, Named, Lowered, Marks
<1>3. [marked EXCEPT !.blocked = FALSE, !.wait = ""] \in Lowered(d)
  BY <1>2 DEF WaitNames, VetoNames, Documents, Named, Lowered
<1>4. WaitFor(marked, "LOCATION") \in Lowered(marked)
  BY <1>2, WaitForType DEF WaitNames, Named, Lowered, Preserved
<1>5. [WaitFor(marked, "LOCATION") EXCEPT !.blocked = TRUE] \in Lowered(d)
  BY <1>2, <1>4 DEF WaitNames, VetoNames, Documents, Named, Lowered
<1> QED
  BY <1>1, <1>3, <1>5 DEF Location

\* The confidence engine's counter leaves the protection alone.
LEMMA ConfidenceType ==
  ASSUME NEW d \in Documents, NEW m \in Memories, NEW f \in FactSpace
  PROVE  \E e \in Named(d), n \in Memories :
           /\ Confidence(d, m, f) = <<e, n>>
           /\ n.protection = m.protection /\ n.cycles = m.cycles
<1>1. f.key \in Nat /\ Waits(m, f) \in Nat
  BY WaitsType DEF FactSpace
<1>2. Forget(m) \in Memories /\ Forget(m).protection = m.protection /\ Forget(m).cycles = m.cycles
  BY DEF Forget, Memories
<1> DEFINE n == [m EXCEPT !.key = f.key, !.waits = Waits(m, f)]
<1>3. n \in Memories /\ n.protection = m.protection /\ n.cycles = m.cycles
  BY <1>1 DEF Memories
<1> DEFINE e == [d EXCEPT !.hardBlock = FALSE]
<1>4. e \in Named(d) /\ [Leave(d) EXCEPT !.hardBlock = TRUE] \in Named(d)
  BY LeaveType DEF Documents, Named, Lowered, Preserved
<1>5. /\ Enter(e) \in Named(d) /\ Leave(e) \in Named(d)
      /\ [Enter(e) EXCEPT !.wait = "RELEASED"] \in Named(d)
  <2>1. Enter(e) \in Named(d) /\ Leave(e) \in Named(d)
    BY <1>4, EnterType, LeaveType DEF Named, Lowered, Preserved
  <2> QED
    BY <2>1 DEF WaitNames, Documents, Named
<1>6. WaitFor(e, "VALID") \in Named(d)
  BY <1>4, WaitForType DEF WaitNames, Named, Lowered, Preserved
<1> HIDE DEF n, e
<1>7. CASE f.hard
  BY <1>2, <1>4, <1>7 DEF Confidence
<1>8. CASE ~f.hard /\ f.confidence = "EXECUTE" /\ f.bias
  BY <1>2, <1>5, <1>8 DEF Confidence, e
<1>9. CASE ~f.hard /\ f.confidence = "WAIT" /\ f.bias
  <2>1. \/ Confidence(d, m, f) = <<[Enter(e) EXCEPT !.wait = "RELEASED"], n>>
        \/ Confidence(d, m, f) = <<WaitFor(e, "VALID"), n>>
    BY <1>9 DEF Confidence, e, n
  <2> QED
    BY <2>1, <1>3, <1>5, <1>6
<1>10. CASE ~f.hard /\ f.confidence = "WAIT" /\ ~f.bias
  BY <1>2, <1>6, <1>10 DEF Confidence, e
<1>11. CASE ~f.hard /\ ~(f.confidence = "EXECUTE" /\ f.bias) /\ f.confidence # "WAIT"
  BY <1>2, <1>5, <1>11 DEF Confidence, e
<1> QED
  BY <1>7, <1>8, <1>9, <1>10, <1>11

\* The entry window: a TRADE with a direction and without a hard block passes only
\* while the window is not closed.
LEMMA TimingType ==
  ASSUME NEW d \in Documents, NEW f \in FactSpace
  PROVE  /\ Timing(d, f) \in Preserved(d)
         /\ Timing(d, f).trade /\ f.bias /\ ~f.hard => f.window # "CLOSED"
<1>1. d \in Preserved(d) /\ [d EXCEPT !.wait = "BYPASSED", !.veto = "NONE", !.allowed = TRUE] \in Preserved(d)
  BY DEF WaitNames, VetoNames, Documents, Named, Lowered, Preserved
<1>2. WaitFor(d, "WINDOW") \in Preserved(d) /\ ~WaitFor(d, "WINDOW").trade
  BY WaitForType DEF WaitNames
<1>3. /\ [WaitFor(d, "WINDOW") EXCEPT !.allowed = FALSE] \in Preserved(d)
      /\ ~[WaitFor(d, "WINDOW") EXCEPT !.allowed = FALSE].trade
  BY <1>2 DEF Documents, Named, Lowered, Preserved
<1> QED
  BY <1>1, <1>3 DEF Timing

LEMMA GateType ==
  ASSUME NEW d \in Documents, NEW f \in FactSpace
  PROVE  FinalGate(RsiRecovery(d, f), f) \in Named(d)
<1>1. ASSUME NEW e \in Named(d) PROVE e \in Documents /\ Enter(e) \in Named(d)
  BY EnterType DEF Named
<1>2. d \in Named(d)
  BY DEF Named
<1>3. RsiRecovery(d, f) \in Named(d)
  BY <1>1, <1>2 DEF RsiRecovery
<1> QED
  BY <1>1, <1>3 DEF FinalGate

LEMMA LateEntryType ==
  ASSUME NEW d \in Documents, NEW f \in FactSpace PROVE LateEntry(d, f) \in Lowered(d)
<1>1. WaitFor(d, "LOCATION") \in Lowered(d) /\ d \in Lowered(d)
  BY WaitForType DEF WaitNames, Named, Lowered, Preserved
<1>2. [WaitFor(d, "LOCATION") EXCEPT !.marks = @ \union {"LATE"}] \in Lowered(d)
  BY <1>1 DEF WaitNames, VetoNames, Documents, Named, Lowered, Marks
<1> QED
  BY <1>1, <1>2 DEF LateEntry

LEMMA ExhaustionType ==
  ASSUME NEW d \in Documents, NEW f \in FactSpace PROVE Exhaustion(d, f) \in Lowered(d)
<1>1. WaitFor(d, "WINDOW") \in Lowered(d) /\ d \in Lowered(d)
  BY WaitForType DEF WaitNames, Named, Lowered, Preserved
<1>2. [WaitFor(d, "WINDOW") EXCEPT !.marks = @ \union {"EXHAUSTION"}] \in Lowered(d)
  BY <1>1 DEF WaitNames, VetoNames, Documents, Named, Lowered, Marks
<1> QED
  BY <1>1, <1>2 DEF Exhaustion

LEMMA BlockType ==
  ASSUME NEW d \in Documents, NEW c \in VetoNames PROVE Block(d, c) \in Lowered(d)
<1>1. d \in Lowered(d)
  BY DEF Named, Lowered
<1>2. [Leave(d) EXCEPT !.veto = c] \in Lowered(d)
  BY LeaveType DEF Documents, Named, Lowered, Preserved
<1> QED
  BY <1>1, <1>2 DEF Block

LEMMA ExpectancyType ==
  ASSUME NEW d \in Documents, NEW f \in FactSpace PROVE Expectancy(d, f) \in Lowered(d)
<1>1. /\ d \in Lowered(d) /\ [d EXCEPT !.veto = "NONE"] \in Lowered(d)
      /\ [d EXCEPT !.gap2 = TRUE, !.allowed = TRUE, !.veto = "NONE"] \in Lowered(d)
  BY DEF WaitNames, VetoNames, Documents, Named, Lowered
<1>2. Block(d, "WEAK_GAP") \in Lowered(d) /\ Block(d, "CHOP") \in Lowered(d)
  BY BlockType DEF WaitNames, VetoNames
<1> QED
  BY <1>1, <1>2 DEF Expectancy

\* After two losses in its direction a TRADE passes on a valid thesis, after three not.
LEMMA RevalidateType ==
  ASSUME NEW d \in Documents, NEW f \in FactSpace
  PROVE  /\ Revalidate(d, f) \in Lowered(d)
         /\ Revalidate(d, f).trade /\ f.streak >= 2 => ThesisValid(f) /\ f.streak = 2
<1> DEFINE e == IF f.streak < 2 \/ ThesisValid(f) THEN d ELSE WaitFor(d, "LOCATION")
<1>1. e \in Lowered(d) /\ (e.trade => f.streak < 2 \/ ThesisValid(f))
  BY WaitForType DEF WaitNames, Named, Lowered, Preserved
<1>2. WaitFor(e, "WINDOW") \in Lowered(d) /\ ~WaitFor(e, "WINDOW").trade
  BY <1>1, WaitForType DEF WaitNames, Named, Lowered, Preserved
<1>3. f.streak \in 0..3
  BY DEF FactSpace, LossStreaks
<1> HIDE DEF e
<1>4. Revalidate(d, f) = IF f.streak >= 3 /\ f.bias /\ e.trade THEN WaitFor(e, "WINDOW") ELSE e
  BY DEF Revalidate, e
<1>5. CASE f.streak >= 3 /\ f.bias /\ e.trade
  BY <1>2, <1>4, <1>5
<1>6. CASE ~(f.streak >= 3 /\ f.bias /\ e.trade)
  BY <1>1, <1>3, <1>4, <1>6 DEF ThesisValid
<1> QED
  BY <1>5, <1>6

\* The facts a stage may see.
Facts == Cases \union {NoFacts}
LEMMA FactsType ==
  /\ Facts \subseteq FactSpace
  /\ \A f \in Facts : f.streak <= f.losses /\ (f.trade => f.bias /\ ~f.hard /\ f.priced)
  /\ \A d : \A f \in Facts : Seen(d, f) \in Facts
<1>1. NoFacts.streak <= NoFacts.losses /\ ~NoFacts.trade
  BY DEF NoFacts
<1> QED
  BY <1>1, CasesAssumption, NoFactsType DEF Facts, Seen

LEMMA GovernorType ==
  ASSUME NEW d \in Documents, NEW f \in Facts
  PROVE  Governor(d, f) \in Lowered(d) /\ (Governor(d, f).trade => Governed(f))
<1>1. f \in FactSpace /\ f.streak <= f.losses /\ f.streak \in 0..3 /\ f.losses \in 0..3
  BY FactsType DEF FactSpace, LossStreaks
<1>2. /\ Revalidate(d, f) \in Lowered(d)
      /\ Revalidate(d, f).trade /\ f.streak >= 2 => ThesisValid(f) /\ f.streak = 2
  BY <1>1, RevalidateType
<1>3. d \in Lowered(d)
  BY DEF Named, Lowered
<1>4. CASE f.daily = "STOP"
  BY <1>3, <1>4, BlockType DEF VetoNames, Governor, Governed
<1>5. CASE f.daily # "STOP" /\ f.losses > 0
  BY <1>2, <1>5 DEF Governor, Governed
<1>6. CASE f.daily # "STOP" /\ ~(f.losses > 0)
  BY <1>1, <1>3, <1>6 DEF Governor, Governed
<1> QED
  BY <1>4, <1>5, <1>6

\* A protection is let go before its count exceeds the limit of the table.
LEMMA ProtectionType ==
  ASSUME NEW d \in Documents, NEW m \in Memories, NEW f \in FactSpace
  PROVE  \E e \in Named(d), n \in Memories : Protection(d, m, f) = <<e, n>> /\ Bounded(n)
<1> DEFINE p == Selected(d, f)
           n == IF p = "NONE" THEN 0 ELSE IF p = m.protection THEN m.cycles + 1 ELSE 1
           release == p # "NONE" /\ (n > MaximumCycles[p] \/ Recovered(p, f, n))
           e == IF release /\ p \in {"LOCATION", "DECAY"} /\ Directional(f)
                THEN [Enter(d) EXCEPT !.wait = "RELEASED"] ELSE d
           k == [m EXCEPT !.protection = IF release THEN "NONE" ELSE p, !.cycles = IF release THEN 0 ELSE n]
<1>1. p \in ProtectionNames
  BY SelectedType
<1>2. Protection(d, m, f) = <<e, k>>
  BY DEF Protection
<1>3. e \in Named(d)
  <2>1. d \in Named(d) /\ [Enter(d) EXCEPT !.wait = "RELEASED"] \in Named(d)
    BY EnterType DEF Documents, Named, WaitNames
  <2> QED
    BY <2>1
<1>4. n \in Nat
  BY DEF Memories
<1>5. k \in Memories
  <2>1. (IF release THEN "NONE" ELSE p) \in ProtectionNames
    BY <1>1 DEF ProtectionNames
  <2>2. (IF release THEN 0 ELSE n) \in Nat
    BY <1>4
  <2> HIDE DEF p, n, release
  <2> QED
    BY <2>1, <2>2 DEF Memories
<1>6. Bounded(k)
  <2>1. k.protection = (IF release THEN "NONE" ELSE p) /\ k.cycles = (IF release THEN 0 ELSE n)
    BY DEF Memories
  <2>2. CASE release
    BY <2>1, <2>2 DEF Bounded, MaximumCycles
  <2>3. CASE ~release /\ p = "NONE"
    <3>1. n = 0
      BY <2>3
    <3> QED
      BY <2>1, <2>3, <3>1 DEF Bounded, MaximumCycles
  <2>4. CASE ~release /\ p # "NONE"
    <3>1. ~(n > MaximumCycles[p]) /\ MaximumCycles[p] \in Nat
      BY <1>1, <2>4 DEF MaximumCycles, ProtectionNames
    <3> HIDE DEF n, p, release
    <3> QED
      BY <1>4, <2>1, <2>4, <3>1 DEF Bounded
  <2> QED
    BY <2>2, <2>3, <2>4
<1> QED
  BY <1>2, <1>3, <1>5, <1>6

\* The levels a TRADE is given: none where the dashboard manages both, and both elsewhere.
LEMMA ConstructType ==
  ASSUME NEW d \in Documents, NEW f \in FactSpace
  PROVE  /\ Construct(d, f) \in Lowered(d)
         /\ Construct(d, f).trade /\ f.bias /\ ~f.hard /\ f.priced =>
              IF SuppressionApproved(f) THEN Construct(d, f).stop = "NONE" /\ Construct(d, f).target = "NONE"
              ELSE Construct(d, f).stop # "NONE" /\ Construct(d, f).target # "NONE"
<1> DEFINE built(level) == IF level = "NONE" /\ f.priced THEN "VALID" ELSE level
           bare == [d EXCEPT !.stop = "NONE", !.target = "NONE", !.managed = TRUE]
           e == [d EXCEPT !.stop = built(@), !.target = built(@)]
           g == [e EXCEPT !.managed = @ \/ "NONE" \notin {e.stop, e.target}]
<1>1. d \in Lowered(d) /\ d.stop \in Levels /\ d.target \in Levels
  BY DEF Documents, Named, Lowered
<1>2. bare \in Lowered(d) /\ bare.stop = "NONE" /\ bare.target = "NONE"
  BY DEF Documents, Named, Lowered, Levels
<1>3. built(d.stop) \in Levels /\ built(d.target) \in Levels
  BY <1>1 DEF Levels
<1>4. f.priced => built(d.stop) # "NONE" /\ built(d.target) # "NONE"
  OBVIOUS
<1>5. e = [d EXCEPT !.stop = built(d.stop), !.target = built(d.target)]
  BY DEF Documents
<1> HIDE DEF built
<1>6. e \in Lowered(d) /\ e.stop = built(d.stop) /\ e.target = built(d.target)
  BY <1>3, <1>5 DEF Documents, Named, Lowered
<1> HIDE DEF e
<1>7. (e.managed \/ "NONE" \notin {e.stop, e.target}) \in BOOLEAN
  OBVIOUS
<1>8. g \in Lowered(d) /\ g.stop = e.stop /\ g.target = e.target
  BY <1>6, <1>7 DEF Documents, Named, Lowered
<1>9. Construct(d, f) = IF ~(d.trade /\ f.bias /\ ~f.hard) THEN d ELSE IF SuppressionApproved(f) THEN bare ELSE g
  BY DEF Construct, e, built
<1> HIDE DEF bare, g
<1>10. CASE ~(d.trade /\ f.bias /\ ~f.hard)
  BY <1>1, <1>9, <1>10
<1>11. CASE d.trade /\ f.bias /\ ~f.hard /\ SuppressionApproved(f)
  BY <1>2, <1>9, <1>11
<1>12. CASE d.trade /\ f.bias /\ ~f.hard /\ ~SuppressionApproved(f)
  BY <1>4, <1>6, <1>8, <1>9, <1>12
<1> QED
  BY <1>10, <1>11, <1>12

\* Beside a stop the target ends on its side of the entry.
LEMMA RewardRatioType ==
  ASSUME NEW d \in Documents, NEW f \in FactSpace
  PROVE  /\ RewardRatio(d, f) \in Lowered(d)
         /\ RewardRatio(d, f).stop = d.stop
         /\ d.stop = "NONE" => RewardRatio(d, f).target = d.target
         /\ d.trade /\ f.bias /\ f.priced /\ d.stop # "NONE" => RewardRatio(d, f).target = "VALID"
<1>1. d \in Lowered(d)
  BY DEF Named, Lowered
<1>2. /\ [d EXCEPT !.target = "VALID"] \in Lowered(d)
      /\ [d EXCEPT !.target = "VALID"].stop = d.stop /\ [d EXCEPT !.target = "VALID"].target = "VALID"
  BY DEF Documents, Named, Lowered, Levels
<1> QED
  BY <1>1, <1>2 DEF RewardRatio

\* The dictionary put in place of an unfinished candidate is no TRADE.
LEMMA PayloadType ==
  ASSUME NEW d \in Documents, NEW f
  PROVE  \/ Payload(d, f) = d
         \/ Payload(d, f) = Fallback /\ Fallback \in Documents /\ ~Fallback.trade /\ Fallback.identity = "absent"
<1>1. Candidate(NoFacts) \in Documents /\ ~Candidate(NoFacts).trade
  BY NoFactsType DEF Candidate, NoFacts, Documents, WaitNames, VetoNames, Levels
<1>2. Fallback \in Documents /\ ~Fallback.trade /\ Fallback.identity = "absent"
  <2> HIDE DEF Candidate
  <2> QED
    BY <1>1 DEF Fallback, Documents
<1> QED
  BY <1>2 DEF Payload

\* The executor is asked to send only on a gap, and not under a hard block.
LEMMA ContractType ==
  ASSUME NEW d \in Documents, NEW f \in FactSpace
  PROVE  /\ Contract(d, f) \in Preserved(d)
         /\ Contract(d, f).send => ~f.hard /\ f.gap > 0
<1> DEFINE send == d.trade /\ d.allowed /\ ~f.hard /\ f.gap > 0
<1>1. send \in BOOLEAN /\ d.trade \in BOOLEAN
  BY DEF Documents
<1>2. Contract(d, f) = [d EXCEPT !.send = send, !.allowed = d.trade]
  BY DEF Contract
<1>3. send => ~f.hard /\ f.gap > 0
  OBVIOUS
<1> HIDE DEF send
<1>4. /\ [d EXCEPT !.send = send, !.allowed = d.trade] \in Preserved(d)
      /\ [d EXCEPT !.send = send, !.allowed = d.trade].send = send
  BY <1>1 DEF Documents, Named, Lowered, Preserved
<1> QED
  BY <1>2, <1>3, <1>4

\* What passes for a TRADE has the levels it came with, or both built anew where neither
\* may be missing; and a stop on its side wherever one is demanded.
LEMMA RiskInvariantType ==
  ASSUME NEW d \in Documents, NEW f \in FactSpace
  PROVE  /\ RiskInvariant(d, f) \in Lowered(d)
         /\ RiskInvariant(d, f).send = d.send
         /\ RiskInvariant(d, f).trade => d.identity = "trade"
         /\ RiskInvariant(d, f).trade => f.tpOnly \/ RiskInvariant(d, f).stop = "VALID"
         /\ \/ RiskInvariant(d, f) \in Preserved(d)
            \/ ~SuppressionApproved(f) /\ RiskInvariant(d, f).stop = "VALID" /\ RiskInvariant(d, f).target = "VALID"
<1> DEFINE repaired == [d EXCEPT !.stop = "VALID", !.target = "VALID"]
           down == [d EXCEPT !.trade = FALSE, !.allowed = FALSE]
           wrong == StopWrong(d, f) \/ TargetWrong(d, f)
           executable == d.identity = "trade" /\ f.priced
<1>1. d \in Preserved(d) /\ d \in Lowered(d)
  BY DEF Named, Lowered, Preserved
<1>2. repaired \in Lowered(d) /\ repaired.send = d.send /\ repaired.stop = "VALID" /\ repaired.target = "VALID"
  BY DEF Documents, Named, Lowered, Levels
<1>3. down \in Preserved(d) /\ down \in Lowered(d) /\ down.send = d.send /\ ~down.trade
  BY DEF Documents, Named, Lowered, Preserved
<1>4. ~wrong => f.tpOnly \/ d.stop = "VALID"
  BY DEF StopWrong
<1>5. \/ RiskInvariant(d, f) = d /\ (~d.trade \/ (executable /\ ~wrong))
      \/ RiskInvariant(d, f) = repaired /\ executable /\ ~SuppressionApproved(f)
      \/ RiskInvariant(d, f) = down
  BY DEF RiskInvariant
<1>6. executable => d.identity = "trade"
  OBVIOUS
<1> HIDE DEF repaired, down, wrong, executable
<1>7. CASE RiskInvariant(d, f) = d /\ (~d.trade \/ (executable /\ ~wrong))
  BY <1>1, <1>4, <1>6, <1>7
<1>8. CASE RiskInvariant(d, f) = repaired /\ executable /\ ~SuppressionApproved(f)
  BY <1>2, <1>6, <1>8
<1>9. CASE RiskInvariant(d, f) = down
  BY <1>3, <1>9
<1> QED
  BY <1>5, <1>7, <1>8, <1>9

LEMMA ExplainType ==
  ASSUME NEW d \in Documents
  PROVE  Explain(d) \in Preserved(d) /\ Explain(d).send = d.send
<1> DEFINE v == IF d.trade THEN "NONE" ELSE IF d.veto = "" THEN "EXPLAINED" ELSE d.veto
<1>1. v \in VetoNames
  BY DEF Documents, VetoNames
<1> HIDE DEF v
<1>2. [d EXCEPT !.veto = v] \in Preserved(d) /\ [d EXCEPT !.veto = v].send = d.send
  BY <1>1 DEF Documents, Named, Lowered, Preserved
<1> QED
  BY <1>2 DEF Explain, v

-----------------------------------------------------------------------------
(* write_decision: the stages in their order.                               *)

\* What each stage is.
StageOf(s, f) ==
  /\ Stage(s, "location", f) = <<Location(s[1], Seen(s[1], f)), s[2]>>
  /\ Stage(s, "confidence", f) = Confidence(s[1], s[2], Seen(s[1], f))
  /\ Stage(s, "timing", f) = <<Timing(s[1], Seen(s[1], f)), s[2]>>
  /\ Stage(s, "gate", f) = <<FinalGate(RsiRecovery(s[1], Seen(s[1], f)), Seen(s[1], f)), s[2]>>
  /\ Stage(s, "late", f) = <<LateEntry(s[1], Seen(s[1], f)), s[2]>>
  /\ Stage(s, "exhaustion", f) = <<Exhaustion(s[1], Seen(s[1], f)), s[2]>>
  /\ Stage(s, "expectancy", f) = <<Expectancy(s[1], Seen(s[1], f)), s[2]>>
  /\ Stage(s, "governor", f) = <<Governor(s[1], Seen(s[1], f)), s[2]>>
  /\ Stage(s, "protection", f) = Protection(s[1], s[2], Seen(s[1], f))
  /\ Stage(s, "construct", f) = <<Construct(s[1], Seen(s[1], f)), s[2]>>
  /\ Stage(s, "ratio", f) = <<RewardRatio(s[1], Seen(s[1], f)), s[2]>>
  /\ Stage(s, "payload", f) = <<Payload(s[1], Seen(s[1], f)), s[2]>>
  /\ Stage(s, "contract", f) = <<Contract(s[1], Seen(s[1], f)), s[2]>>
  /\ Stage(s, "risk", f) = <<RiskInvariant(s[1], Seen(s[1], f)), s[2]>>
  /\ Stage(s, "explain", f) = <<Explain(s[1]), s[2]>>

LEMMA StageIs == ASSUME NEW s, NEW f PROVE StageOf(s, f)
<1>1. Stage(s, "location", f) = <<Location(s[1], Seen(s[1], f)), s[2]>>
  BY DEF Stage, Rewritten
<1>2. Stage(s, "confidence", f) = Confidence(s[1], s[2], Seen(s[1], f))
  BY DEF Stage, Rewritten
<1>3. Stage(s, "timing", f) = <<Timing(s[1], Seen(s[1], f)), s[2]>>
  BY DEF Stage, Rewritten
<1>4. Stage(s, "gate", f) = <<FinalGate(RsiRecovery(s[1], Seen(s[1], f)), Seen(s[1], f)), s[2]>>
  BY DEF Stage, Rewritten
<1>5. Stage(s, "late", f) = <<LateEntry(s[1], Seen(s[1], f)), s[2]>>
  BY DEF Stage, Rewritten
<1>6. Stage(s, "exhaustion", f) = <<Exhaustion(s[1], Seen(s[1], f)), s[2]>>
  BY DEF Stage, Rewritten
<1>7. Stage(s, "expectancy", f) = <<Expectancy(s[1], Seen(s[1], f)), s[2]>>
  BY DEF Stage, Rewritten
<1>8. Stage(s, "governor", f) = <<Governor(s[1], Seen(s[1], f)), s[2]>>
  BY DEF Stage, Rewritten
<1>9. Stage(s, "protection", f) = Protection(s[1], s[2], Seen(s[1], f))
  BY DEF Stage, Rewritten
<1>10. Stage(s, "construct", f) = <<Construct(s[1], Seen(s[1], f)), s[2]>>
  BY DEF Stage, Rewritten
<1>11. Stage(s, "ratio", f) = <<RewardRatio(s[1], Seen(s[1], f)), s[2]>>
  BY DEF Stage, Rewritten
<1>12. Stage(s, "payload", f) = <<Payload(s[1], Seen(s[1], f)), s[2]>>
  BY DEF Stage, Rewritten
<1>13. Stage(s, "contract", f) = <<Contract(s[1], Seen(s[1], f)), s[2]>>
  BY DEF Stage, Rewritten
<1>14. Stage(s, "risk", f) = <<RiskInvariant(s[1], Seen(s[1], f)), s[2]>>
  BY DEF Stage, Rewritten
<1>15. Stage(s, "explain", f) = <<Explain(s[1]), s[2]>>
  BY DEF Stage, Rewritten
<1> QED
  BY <1>1, <1>2, <1>3, <1>4, <1>5, <1>6, <1>7, <1>8, <1>9, <1>10, <1>11, <1>12, <1>13, <1>14, <1>15 DEF StageOf

\* The states a stage may be in, when the candidate's identity is i.
StatesOf(i) == {s \in Documents \X Memories : Bounded(s[2]) /\ s[1].identity \in {i, "absent"}}

\* A stage that leaves the identity, and no worse a protection.
LEMMA StateType ==
  ASSUME NEW i, NEW s \in StatesOf(i), NEW f \in Facts
  PROVE  /\ s[1] \in Documents /\ s[2] \in Memories /\ Bounded(s[2]) /\ s[1].identity \in {i, "absent"}
         /\ Seen(s[1], f) \in Facts /\ Seen(s[1], f) \in FactSpace
         /\ s[1].identity # "absent" => Seen(s[1], f) = f
         /\ s[1].identity = "absent" => Seen(s[1], f) = NoFacts
         /\ \A e \in Named(s[1]), n \in Memories : Bounded(n) => <<e, n>> \in StatesOf(i)
<1>1. s[1] \in Documents /\ s[2] \in Memories /\ Bounded(s[2]) /\ s[1].identity \in {i, "absent"}
  BY DEF StatesOf
<1> QED
  BY <1>1, FactsType DEF StatesOf, Seen, Named

\* A stage over the document alone, for what it does to a TRADE.
LEMMA LowerStage ==
  ASSUME NEW i, NEW s \in StatesOf(i), NEW e \in Lowered(s[1])
  PROVE  /\ <<e, s[2]>> \in StatesOf(i) /\ <<e, s[2]>>[1] = e
         /\ e.identity = s[1].identity /\ (e.trade => s[1].trade)
BY DEF StatesOf, Named, Lowered

Stages == {"location", "confidence", "timing", "gate", "late", "exhaustion", "expectancy", "governor", "protection"}
LEMMA ScoreStages ==
  ASSUME NEW i, NEW s \in StatesOf(i), NEW f \in Facts,
         NEW name \in Stages
  PROVE  Stage(s, name, f) \in StatesOf(i)
<1> DEFINE d == s[1]  m == s[2]  g == Seen(s[1], f)
<1>1. /\ d \in Documents /\ m \in Memories /\ Bounded(m) /\ g \in Facts /\ g \in FactSpace
      /\ \A e \in Named(d), n \in Memories : Bounded(n) => <<e, n>> \in StatesOf(i)
  BY StateType
<1>2. \A e \in Lowered(d) : <<e, m>> \in StatesOf(i)
  BY <1>1 DEF Lowered
<1> HIDE DEF d, m, g
<1>3. CASE name \in {"location", "timing", "late", "exhaustion", "expectancy", "governor"}
  <2>1. /\ Location(d, g) \in Lowered(d) /\ Timing(d, g) \in Lowered(d) /\ LateEntry(d, g) \in Lowered(d)
        /\ Exhaustion(d, g) \in Lowered(d) /\ Expectancy(d, g) \in Lowered(d) /\ Governor(d, g) \in Lowered(d)
    BY <1>1, LocationType, TimingType, LateEntryType, ExhaustionType, ExpectancyType, GovernorType DEF Preserved
  <2> QED
    BY <1>2, <1>3, <2>1, StageIs DEF StageOf, d, m, g
<1>4. CASE name = "confidence"
  <2>1. Confidence(d, m, g) \in StatesOf(i)
    BY <1>1, ConfidenceType DEF Bounded
  <2> QED
    BY <1>4, <2>1, StageIs DEF StageOf, d, m, g
<1>5. CASE name = "protection"
  <2>1. Protection(d, m, g) \in StatesOf(i)
    BY <1>1, ProtectionType
  <2> QED
    BY <1>5, <2>1, StageIs DEF StageOf, d, m, g
<1>6. CASE name = "gate"
  <2>1. <<FinalGate(RsiRecovery(d, g), g), m>> \in StatesOf(i)
    BY <1>1, GateType
  <2> QED
    BY <1>6, <2>1, StageIs DEF StageOf, d, m, g
<1> QED
  BY <1>3, <1>4, <1>5, <1>6 DEF Stages

LEMMA ScoreAfter ==
  ASSUME NEW i, NEW f \in Facts, NEW T, T \subseteq StatesOf(i), NEW name \in Stages
  PROVE  After(T, name, f) \subseteq StatesOf(i)
<1>1. \A s \in T : Stage(s, name, f) \in StatesOf(i)
  BY ScoreStages
<1> QED
  BY <1>1 DEF After

\* The scores leave the identity as it is.
LEMMA ScoreType ==
  ASSUME NEW i, NEW S, S \subseteq StatesOf(i), NEW f \in Facts
  PROVE  Score(S, f) \subseteq StatesOf(i)
<1>1. \A T : T \subseteq StatesOf(i) => \A name \in Stages : After(T, name, f) \subseteq StatesOf(i)
  BY ScoreAfter
<1> DEFINE S1 == After(S, "location", f)
           S2 == After(S1, "confidence", f)
           S3 == After(S2, "timing", f)
           S4 == After(S3, "location", f)
           S5 == After(S4, "gate", f)
           S6 == After(S5, "late", f)
           S7 == After(S6, "exhaustion", f)
<1>2. S4 \subseteq StatesOf(i)
  BY <1>1 DEF Stages
<1>3. Score(S, f) = After(S7, "expectancy", f)
  BY DEF Score
<1> HIDE DEF S4
<1> QED
  BY <1>1, <1>2, <1>3 DEF Stages

\* The last governor speaks after the last protection: it lets a TRADE pass that it
\* agrees with, unless the dictionary that held its facts is gone.
Agreed(i, f) == {s \in StatesOf(i) : s[1].identity # "absent" /\ s[1].trade => Governed(f)}

LEMMA GuardType ==
  ASSUME NEW i, NEW S, S \subseteq StatesOf(i), NEW f \in Facts
  PROVE  Guard(S, f) \subseteq Agreed(i, f)
<1>1. \A T : T \subseteq StatesOf(i) => \A name \in Stages : After(T, name, f) \subseteq StatesOf(i)
  BY ScoreAfter
<1>2. ASSUME NEW s \in StatesOf(i) PROVE Stage(s, "governor", f) \in Agreed(i, f)
  <2>1. Stage(s, "governor", f) = <<Governor(s[1], Seen(s[1], f)), s[2]>>
    BY StageIs DEF StageOf
  <2>2. /\ Governor(s[1], Seen(s[1], f)) \in Lowered(s[1])
        /\ Governor(s[1], Seen(s[1], f)).trade => Governed(Seen(s[1], f))
    BY StateType, GovernorType
  <2> QED
    BY <2>1, <2>2, StateType, LowerStage DEF Agreed
<1>3. \A T : T \subseteq StatesOf(i) => After(T, "governor", f) \subseteq Agreed(i, f)
  BY <1>2 DEF After
<1> DEFINE S1 == After(S, "governor", f)
           S2 == After(S1, "protection", f)
           S3 == After(S2, "timing", f)
           S4 == After(S3, "expectancy", f)
<1>4. S4 \subseteq StatesOf(i)
  BY <1>1 DEF Stages
<1>5. Guard(S, f) = After(S4, "governor", f)
  BY DEF Guard
<1> HIDE DEF S4
<1> QED
  BY <1>3, <1>4, <1>5

\* From there on no stage makes a TRADE of what is none: each adds its own condition.  A
\* TRADE of the identified decision has the levels its profile asks for, the target at
\* last on its side.
Complete(d, f) ==
  IF SuppressionApproved(f) THEN d.stop = "NONE" /\ d.target = "NONE"
  ELSE d.stop # "NONE" /\ d.target = "VALID"
Levelled(i, f) ==
  {s \in Agreed(i, f) : s[1].identity = "trade" /\ s[1].trade =>
     IF SuppressionApproved(f) THEN s[1].stop = "NONE" /\ s[1].target = "NONE"
     ELSE s[1].stop # "NONE" /\ s[1].target # "NONE"}
Aimed(i, f) == {s \in Agreed(i, f) : s[1].identity = "trade" /\ s[1].trade => Complete(s[1], f)}
Windowed(i, f) ==
  {s \in Aimed(i, f) : s[1].identity # "absent" /\ s[1].trade /\ f.bias /\ ~f.hard => f.window # "CLOSED"}
Contracted(i, f) == {s \in Windowed(i, f) : s[1].send => ~f.hard}
Priced(i, f) ==
  {s \in Contracted(i, f) : s[1].trade => s[1].identity = "trade" /\ (f.tpOnly \/ s[1].stop = "VALID")}

\* A stage that lowers, or keeps the levels besides, keeps what held before.
LEMMA LowerAgreed ==
  ASSUME NEW i, NEW f, NEW s \in StatesOf(i), NEW e \in Lowered(s[1])
  PROVE  s \in Agreed(i, f) => <<e, s[2]>> \in Agreed(i, f)
BY LowerStage DEF Agreed

LEMMA PreservedAimed ==
  ASSUME NEW i, NEW f, NEW s \in StatesOf(i), NEW e \in Preserved(s[1])
  PROVE  /\ s \in Aimed(i, f) => <<e, s[2]>> \in Aimed(i, f)
         /\ s \in Windowed(i, f) => <<e, s[2]>> \in Windowed(i, f)
<1>1. e \in Lowered(s[1]) /\ e.stop = s[1].stop /\ e.target = s[1].target
  BY DEF Preserved
<1>2. s \in Aimed(i, f) => <<e, s[2]>> \in Aimed(i, f)
  BY <1>1, LowerStage, LowerAgreed DEF Aimed, Complete
<1> QED
  BY <1>1, <1>2, LowerStage DEF Windowed

\* An identified TRADE is one of build_decision: it has a direction and a price and is not
\* blocked.
LEMMA Identifiable ==
  ASSUME NEW i, NEW f \in Facts, i = "trade" => f.trade, NEW s \in StatesOf(i), s[1].identity = "trade"
  PROVE  f.bias /\ ~f.hard /\ f.priced /\ Seen(s[1], f) = f
BY StateType, FactsType

LEMMA PublishType ==
  ASSUME NEW i, NEW S, NEW f \in Facts, i = "trade" => f.trade, S \subseteq Agreed(i, f)
  PROVE  Publish(S, f) \subseteq Priced(i, f)
<1> DEFINE S1 == After(S, "construct", f)
           S2 == After(S1, "ratio", f)
           S3 == After(S2, "payload", f)
           S4 == After(S3, "contract", f)
           S5 == After(S4, "timing", f)
           S6 == After(S5, "contract", f)
           S7 == After(S6, "risk", f)
<1>0. Publish(S, f) = After(S7, "explain", f)
  BY DEF Publish
<1>1. S1 \subseteq Levelled(i, f)
  <2>1. ASSUME NEW s \in Agreed(i, f) PROVE Stage(s, "construct", f) \in Levelled(i, f)
    <3> DEFINE e == Construct(s[1], Seen(s[1], f))
    <3>1. s \in StatesOf(i) /\ Stage(s, "construct", f) = <<e, s[2]>>
      BY StageIs DEF StageOf, Agreed
    <3>2. /\ e \in Lowered(s[1])
          /\ e.trade /\ Seen(s[1], f).bias /\ ~Seen(s[1], f).hard /\ Seen(s[1], f).priced =>
               IF SuppressionApproved(Seen(s[1], f)) THEN e.stop = "NONE" /\ e.target = "NONE"
               ELSE e.stop # "NONE" /\ e.target # "NONE"
      BY <3>1, StateType, ConstructType
    <3> HIDE DEF e
    <3>3. <<e, s[2]>> \in Agreed(i, f) /\ <<e, s[2]>>[1] = e /\ e.identity = s[1].identity
      BY <3>1, <3>2, LowerStage, LowerAgreed
    <3> QED
      BY <3>1, <3>2, <3>3, Identifiable DEF Levelled
  <2> QED
    BY <2>1 DEF After
<1> HIDE DEF S1
<1>2. S2 \subseteq Aimed(i, f)
  <2>1. ASSUME NEW s \in Levelled(i, f) PROVE Stage(s, "ratio", f) \in Aimed(i, f)
    <3> DEFINE e == RewardRatio(s[1], Seen(s[1], f))
    <3>1. s \in StatesOf(i) /\ s \in Agreed(i, f) /\ Stage(s, "ratio", f) = <<e, s[2]>>
      BY StageIs DEF StageOf, Agreed, Levelled
    <3>2. /\ e \in Lowered(s[1]) /\ e.stop = s[1].stop
          /\ s[1].stop = "NONE" => e.target = s[1].target
          /\ s[1].trade /\ Seen(s[1], f).bias /\ Seen(s[1], f).priced /\ s[1].stop # "NONE" => e.target = "VALID"
      BY <3>1, StateType, RewardRatioType
    <3> HIDE DEF e
    <3>3. /\ <<e, s[2]>> \in Agreed(i, f) /\ <<e, s[2]>>[1] = e /\ e.identity = s[1].identity
          /\ e.trade => s[1].trade
      BY <3>1, <3>2, LowerStage, LowerAgreed
    <3>4. ASSUME e.identity = "trade", e.trade PROVE Complete(e, f)
      <4>1. f.bias /\ f.priced /\ Seen(s[1], f) = f /\ s[1].identity = "trade" /\ s[1].trade
        BY <3>1, <3>3, <3>4, Identifiable
      <4> QED
        BY <3>2, <4>1 DEF Levelled, Complete
    <3> QED
      BY <3>1, <3>3, <3>4 DEF Aimed
  <2> QED
    BY <1>1, <2>1 DEF After
<1> HIDE DEF S2
<1>3. S3 \subseteq Aimed(i, f)
  <2>1. ASSUME NEW s \in Aimed(i, f) PROVE Stage(s, "payload", f) \in Aimed(i, f)
    <3> DEFINE e == Payload(s[1], Seen(s[1], f))
    <3>1. s \in StatesOf(i) /\ Stage(s, "payload", f) = <<e, s[2]>>
      BY StageIs DEF StageOf, Agreed, Aimed
    <3>2. \/ e = s[1]
          \/ e = Fallback /\ Fallback \in Documents /\ ~Fallback.trade /\ Fallback.identity = "absent"
      BY <3>1, StateType, PayloadType
    <3> HIDE DEF e
    <3>3. CASE e = s[1]
      <4>1. s[1] \in Preserved(s[1])
        BY <3>1, StateType DEF Named, Lowered, Preserved
      <4> QED
        BY <3>1, <3>3, <4>1, PreservedAimed
    <3>4. CASE e = Fallback /\ Fallback \in Documents /\ ~Fallback.trade /\ Fallback.identity = "absent"
      BY <3>1, <3>4, StateType DEF StatesOf, Agreed, Aimed
    <3> QED
      BY <3>2, <3>3, <3>4
  <2> QED
    BY <1>2, <2>1 DEF After
<1> HIDE DEF S3
<1>4. S4 \subseteq Aimed(i, f)
  <2>1. ASSUME NEW s \in Aimed(i, f) PROVE Stage(s, "contract", f) \in Aimed(i, f)
    <3>1. s \in StatesOf(i) /\ Stage(s, "contract", f) = <<Contract(s[1], Seen(s[1], f)), s[2]>>
      BY StageIs DEF StageOf, Agreed, Aimed
    <3>2. Contract(s[1], Seen(s[1], f)) \in Preserved(s[1])
      BY <3>1, StateType, ContractType
    <3> QED
      BY <3>1, <3>2, PreservedAimed
  <2> QED
    BY <1>3, <2>1 DEF After
<1> HIDE DEF S4
<1>5. S5 \subseteq Windowed(i, f)
  <2>1. ASSUME NEW s \in Aimed(i, f) PROVE Stage(s, "timing", f) \in Windowed(i, f)
    <3> DEFINE e == Timing(s[1], Seen(s[1], f))
    <3>1. s \in StatesOf(i) /\ Stage(s, "timing", f) = <<e, s[2]>>
      BY StageIs DEF StageOf, Agreed, Aimed
    <3>2. /\ e \in Preserved(s[1])
          /\ e.trade /\ Seen(s[1], f).bias /\ ~Seen(s[1], f).hard => Seen(s[1], f).window # "CLOSED"
      BY <3>1, StateType, TimingType
    <3>3. s[1].identity # "absent" => Seen(s[1], f) = f
      BY <3>1, StateType
    <3> HIDE DEF e
    <3>4. <<e, s[2]>> \in Aimed(i, f) /\ <<e, s[2]>>[1] = e /\ e.identity = s[1].identity
      BY <3>1, <3>2, PreservedAimed, LowerStage DEF Preserved
    <3> QED
      BY <3>1, <3>2, <3>3, <3>4 DEF Windowed
  <2> QED
    BY <1>4, <2>1 DEF After
<1> HIDE DEF S5
<1>6. S6 \subseteq Contracted(i, f)
  <2>1. ASSUME NEW s \in Windowed(i, f) PROVE Stage(s, "contract", f) \in Contracted(i, f)
    <3> DEFINE e == Contract(s[1], Seen(s[1], f))
    <3>1. s \in StatesOf(i) /\ Stage(s, "contract", f) = <<e, s[2]>>
      BY StageIs DEF StageOf, Agreed, Aimed, Windowed
    <3>2. /\ e \in Preserved(s[1])
          /\ e.send => ~Seen(s[1], f).hard /\ Seen(s[1], f).gap > 0
      BY <3>1, StateType, ContractType
    <3>3. e.send => ~f.hard
      BY <3>1, <3>2, StateType DEF NoFacts
    <3> HIDE DEF e
    <3>4. <<e, s[2]>> \in Windowed(i, f) /\ <<e, s[2]>>[1] = e
      BY <3>1, <3>2, PreservedAimed, LowerStage DEF Preserved
    <3> QED
      BY <3>1, <3>3, <3>4 DEF Contracted
  <2> QED
    BY <1>5, <2>1 DEF After
<1> HIDE DEF S6
<1>7. S7 \subseteq Priced(i, f)
  <2>1. ASSUME NEW s \in Contracted(i, f) PROVE Stage(s, "risk", f) \in Priced(i, f)
    <3> DEFINE g == Seen(s[1], f)
               e == RiskInvariant(s[1], g)
    <3>1. /\ s \in StatesOf(i) /\ s \in Windowed(i, f) /\ s \in Aimed(i, f) /\ s \in Agreed(i, f)
          /\ Stage(s, "risk", f) = <<e, s[2]>>
      BY StageIs DEF StageOf, Agreed, Aimed, Windowed, Contracted
    <3>2. /\ e \in Lowered(s[1]) /\ e.send = s[1].send
          /\ e.trade => s[1].identity = "trade"
          /\ e.trade => g.tpOnly \/ e.stop = "VALID"
          /\ e \in Preserved(s[1]) \/ (~SuppressionApproved(g) /\ e.stop = "VALID" /\ e.target = "VALID")
      BY <3>1, StateType, RiskInvariantType
    <3>3. s[1].identity = "trade" => g = f
      BY <3>1, StateType
    <3> HIDE DEF e, g
    <3>4. /\ <<e, s[2]>> \in Agreed(i, f) /\ <<e, s[2]>>[1] = e /\ e.identity = s[1].identity
          /\ e.trade => s[1].trade
      BY <3>1, <3>2, LowerStage, LowerAgreed
    <3>5. <<e, s[2]>> \in Windowed(i, f)
      <4>1. CASE e \in Preserved(s[1])
        BY <3>1, <4>1, PreservedAimed
      <4>2. CASE ~SuppressionApproved(g) /\ e.stop = "VALID" /\ e.target = "VALID"
        <5>1. <<e, s[2]>> \in Aimed(i, f)
          BY <3>3, <3>4, <4>2 DEF Aimed, Complete
        <5> QED
          BY <3>1, <3>4, <5>1 DEF Windowed
      <4> QED
        BY <3>2, <4>1, <4>2
    <3> QED
      BY <3>1, <3>2, <3>3, <3>4, <3>5 DEF Contracted, Priced
  <2> QED
    BY <1>6, <2>1 DEF After
<1> HIDE DEF S7
<1>8. ASSUME NEW s \in Priced(i, f) PROVE Stage(s, "explain", f) \in Priced(i, f)
  <2> DEFINE e == Explain(s[1])
  <2>1. s \in StatesOf(i) /\ s \in Windowed(i, f) /\ Stage(s, "explain", f) = <<e, s[2]>>
    BY StageIs DEF StageOf, Agreed, Aimed, Windowed, Contracted, Priced
  <2>2. e \in Preserved(s[1]) /\ e.send = s[1].send
    BY <2>1, StateType, ExplainType
  <2> HIDE DEF e
  <2>3. /\ <<e, s[2]>> \in Windowed(i, f) /\ <<e, s[2]>>[1] = e /\ e.identity = s[1].identity
        /\ e.stop = s[1].stop /\ (e.trade => s[1].trade)
    BY <2>1, <2>2, PreservedAimed, LowerStage DEF Preserved
  <2> QED
    BY <2>1, <2>2, <2>3 DEF Contracted, Priced
<1> QED
  BY <1>0, <1>7, <1>8 DEF After

\* An attempt, over the document that another may have left.
LEMMA PipelineType ==
  ASSUME NEW i, NEW d \in Documents, d.identity \in {i, "absent"}, NEW m \in Memories, Bounded(m),
         NEW f \in Facts, i = "trade" => f.trade
  PROVE  Pipeline(d, m, f) \subseteq Priced(i, f)
<1>1. {<<d, m>>} \subseteq StatesOf(i)
  BY DEF StatesOf
<1> QED
  BY <1>1, ScoreType, GuardType, PublishType DEF Pipeline

-----------------------------------------------------------------------------
(* write_decision: the cycle.                                               *)

\* The identity that final_decision_publication gives the candidate of a cycle.
IdentityOf(f) == IF f.trade THEN "trade" ELSE "none"

\* What is in decision.json, of the cycle's facts f.
Sound(d, f) ==
  /\ d.send => ~f.hard
  /\ d.trade => /\ Complete(d, f) /\ (f.tpOnly \/ d.stop = "VALID")
                /\ f.window # "CLOSED" /\ Governed(f)

\* The wait counter and the protection are in their ranges between any two steps, the
\* dictionary of an attempt is the candidate's or one put in its place, and what was
\* published went through all the stages.
WriteInv ==
  /\ memory \in Memories /\ Bounded(memory)
  /\ facts # Idle => facts \in Cases /\ doc \in Documents /\ doc.identity \in {IdentityOf(facts), "absent"}
  /\ written # Idle => Sound(written.doc, written.facts)

LEMMA CandidateType ==
  ASSUME NEW f \in Cases
  PROVE  Candidate(f) \in Documents /\ Candidate(f).identity = IdentityOf(f)
<1>1. f \in FactSpace
  BY CasesAssumption
<1> QED
  BY <1>1 DEF Candidate, Documents, FactSpace, IdentityOf, WaitNames, VetoNames, Levels

LEMMA FreshType == Fresh \in Memories /\ Bounded(Fresh)
BY DEF Fresh, Memories, ProtectionNames, Bounded, MaximumCycles

\* A state the pipeline ends in is fit to be published, or to be tried again.
LEMMA AttemptType ==
  ASSUME WriteInv, facts # Idle, NEW s \in Pipeline(doc, memory, facts)
  PROVE  /\ s[1] \in Documents /\ s[1].identity \in {IdentityOf(facts), "absent"}
         /\ s[2] \in Memories /\ Bounded(s[2])
         /\ Sound(s[1], facts)
<1>1. /\ facts \in Cases /\ facts \in Facts /\ doc \in Documents /\ doc.identity \in {IdentityOf(facts), "absent"}
      /\ memory \in Memories /\ Bounded(memory)
  BY DEF WriteInv, Facts
<1>2. s \in Priced(IdentityOf(facts), facts)
  BY <1>1, PipelineType DEF IdentityOf
<1>3. /\ s \in StatesOf(IdentityOf(facts))
      /\ s[1].send => ~facts.hard
      /\ s[1].trade => s[1].identity = "trade" /\ (facts.tpOnly \/ s[1].stop = "VALID")
      /\ s[1].identity # "absent" /\ s[1].trade => Governed(facts)
      /\ s[1].identity = "trade" /\ s[1].trade => Complete(s[1], facts)
      /\ s[1].identity # "absent" /\ s[1].trade /\ facts.bias /\ ~facts.hard => facts.window # "CLOSED"
  BY <1>2 DEF Priced, Contracted, Windowed, Aimed, Agreed
<1>4. s[1] \in Documents /\ s[1].identity \in {IdentityOf(facts), "absent"} /\ s[2] \in Memories /\ Bounded(s[2])
  BY <1>3 DEF StatesOf
<1>5. ASSUME s[1].trade PROVE facts.window # "CLOSED" /\ Governed(facts)
  <2>1. facts.trade
    BY <1>3, <1>4, <1>5 DEF IdentityOf
  <2>2. facts.bias /\ ~facts.hard
    BY <1>1, <2>1, FactsType
  <2> QED
    BY <1>3, <1>5, <2>2
<1>6. Sound(s[1], facts)
  BY <1>3, <1>5 DEF Sound
<1> QED
  BY <1>4, <1>6

LEMMA WriteStep == WriteInv /\ [WriteNext]_wvars => WriteInv'
<1> SUFFICES ASSUME WriteInv, [WriteNext]_wvars PROVE WriteInv'
  OBVIOUS
<1>1. ASSUME NEW f \in Cases, Begin(f) PROVE WriteInv'
  BY <1>1, CandidateType DEF WriteInv, Begin
<1>2. CASE OpenFails
  BY <1>2 DEF WriteInv, OpenFails
<1>3. CASE Attempt
  <2>1. PICK s \in Pipeline(doc, memory, facts) : memory' = s[2] /\ (Refuse(s[1]) \/ Replace(s[1]))
    BY <1>3 DEF Attempt
  <2>2. facts # Idle
    BY <1>3 DEF Attempt
  <2>3. /\ s[1] \in Documents /\ s[1].identity \in {IdentityOf(facts), "absent"}
        /\ s[2] \in Memories /\ Bounded(s[2]) /\ Sound(s[1], facts)
    BY <2>2, AttemptType
  <2>4. CASE Refuse(s[1])
    BY <2>1, <2>2, <2>3, <2>4 DEF WriteInv, Refuse
  <2>5. CASE Replace(s[1])
    <3>1. written'.doc = s[1] /\ written'.facts = facts
      BY <2>5 DEF Replace
    <3> QED
      BY <2>1, <2>3, <2>5, <3>1 DEF WriteInv, Replace
  <2> QED
    BY <2>1, <2>4, <2>5
<1>4. CASE GiveUp
  BY <1>4 DEF WriteInv, GiveUp
<1>5. CASE RestartWriter
  BY <1>5, FreshType DEF WriteInv, RestartWriter
<1>6. CASE UNCHANGED wvars
  BY <1>6 DEF WriteInv, wvars
<1> QED
  BY <1>1, <1>2, <1>3, <1>4, <1>5, <1>6 DEF WriteNext

LEMMA Writes == WriteSpec => []WriteInv
<1>1. WriteInit => WriteInv
  BY FreshType DEF WriteInit, WriteInv
<1> QED
  BY <1>1, WriteStep, PTL DEF WriteSpec

\* executor_order_send_required is in no published decision of a cycle that is blocked.
THEOREM SendSafety == WriteSpec => []SendNeedsSafety
<1>1. WriteInv => SendNeedsSafety
  BY DEF WriteInv, Sound, SendNeedsSafety
<1> QED
  BY <1>1, Writes, PTL

\* enforce_risk_payload_invariant_before_publication: a published TRADE carries both levels
\* or, where the profile leaves them to the dashboard, neither.
THEOREM RiskValidity == WriteSpec => []RiskPublishedValid
<1>1. WriteInv => RiskPublishedValid
  BY DEF WriteInv, Sound, Complete, RiskPublishedValid, PublishedTrade
<1> QED
  BY <1>1, Writes, PTL

\* apply_execution_timing_layer_v26_6_5: no stage behind it, and no retry, gets a TRADE
\* past a closed entry window.
THEOREM WindowHolds == WriteSpec => []ClosedWindowHolds
<1>1. WriteInv => ClosedWindowHolds
  BY DEF WriteInv, Sound, ClosedWindowHolds, PublishedTrade
<1> QED
  BY <1>1, Writes, PTL

\* apply_session_loss_governor_v26_6_2: what the protections release has its losses counted
\* again, except on a day of the stop.
THEOREM GovernorHolds == WriteSpec => []LossGovernorHolds
<1>1. WriteInv => LossGovernorHolds
  BY DEF WriteInv, Sound, Governed, LossGovernorHolds, PublishedTrade
<1> QED
  BY <1>1, Writes, PTL

\* PROTECTION_RELEASE_CONDITIONS: no protection outlives its maximum_cycles.
THEOREM ProtectionEnds == WriteSpec => []ProtectionBounded
<1>1. WriteInv => ProtectionBounded
  BY DEF WriteInv, Bounded, ProtectionBounded
<1> QED
  BY <1>1, Writes, PTL
=============================================================================
