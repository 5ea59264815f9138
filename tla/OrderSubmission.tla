---------------------------- MODULE OrderSubmission ----------------------------
(***************************************************************************)
(* Executor.execute (runtime/executor.py) behind BrokerSafety               *)
(* (runtime/broker_safety.py), and the broker that answers it.  What has    *)
(* been processed is kept in the memory of the process only.                *)
(*                                                                          *)
(* A snapshot is [seq, pub, payload]: the sequence_id, a number of the      *)
(* publication of which the code knows nothing, and the fields of the       *)
(* document.  An instruction's numbers are abstracted to the verdict        *)
(* BrokerSafety passes on them.                                             *)
(***************************************************************************)
EXTENDS Naturals, Sequences

CONSTANTS None, MaxRetries

Directions   == {"BUY", "SELL"}
AllowActions == {"ALLOW_START", "ALLOW_SCALE"}
\* symbol and volume missing; volume <= 0; stops on the wrong side; in order.
Instructions == {"none", "zero", "bad_stops", "good"}
\* BrokerOutcome; an exception or a malformed result counts as ambiguous.
Outcomes == {"ACCEPTED", "REJECTED_RETRYABLE", "REJECTED_FINAL", "AMBIGUOUS"}

VARIABLES
  processed,   \* _processed_sequences
  pending,     \* the snapshot being submitted and the attempts made, or None
  life,        \* history: how often the process has been started
  orders       \* history: every request the broker received, and its answer

evars == <<processed, pending, life, orders>>

SubmissionInit == processed = {} /\ pending = None /\ life = 1 /\ orders = <<>>

-----------------------------------------------------------------------------
\* _contract_rejection: none of its reasons applies.
InContract(p) ==
  /\ ~p.failSafe /\ p.executable /\ p.permission
  /\ p.direction \in Directions /\ p.action \in AllowActions

\* _instruction and the part of BrokerSafety that depends on the instruction.
Safe(p) == p.instruction = "good"

\* execute up to the first request.  The sequence counts as processed before any
\* check is made; brokerReady says that symbol, market, volume and margin pass.
Execute(s, brokerReady) ==
  /\ pending = None
  /\ processed' = processed \union {s.seq}
  /\ pending' = IF s.seq \notin processed /\ InContract(s.payload) /\ Safe(s.payload) /\ brokerReady
                THEN [snapshot |-> s, attempts |-> 0] ELSE None
  /\ UNCHANGED <<life, orders>>

\* A mistake: an ambiguous answer is tried again.
Retries_ambiguous(outcome, attempts) ==
  outcome \in {"REJECTED_RETRYABLE", "AMBIGUOUS"} /\ attempts <= MaxRetries

Retries(outcome, attempts) == outcome = "REJECTED_RETRYABLE" /\ attempts <= MaxRetries

\* One pass of the loop of _submit.
Send(outcome) ==
  /\ pending # None
  /\ LET n == pending.attempts + 1 IN
     /\ orders' = Append(orders, [snapshot |-> pending.snapshot, life |-> life, outcome |-> outcome])
     /\ pending' = IF Retries(outcome, n) THEN [pending EXCEPT !.attempts = n] ELSE None
  /\ UNCHANGED <<processed, life>>

\* The process ends, between any two steps, and is started again.
RestartExecutor ==
  /\ processed' = {} /\ pending' = None /\ life' = life + 1
  /\ UNCHANGED orders

-----------------------------------------------------------------------------
\* The orders the broker may have opened.
Live == {i \in DOMAIN orders : orders[i].outcome \in {"ACCEPTED", "AMBIGUOUS"}}

\* Within the life of the executor at most one order of a sequence may be open,
\* and nothing but refused requests precedes it: no retry follows an answer that
\* does not exclude that the order was opened.
OneLiveOrderPerSequence ==
  \A i, j \in Live : i # j /\ orders[i].life = orders[j].life =>
                       orders[i].snapshot.seq # orders[j].snapshot.seq
=============================================================================
