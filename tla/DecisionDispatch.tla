--------------------------- MODULE DecisionDispatch ---------------------------
(***************************************************************************)
(* From the Brain's DecisionPackage to an order: WriterAdapter              *)
(* (runtime/writer_adapter.py), DecisionPublisher                           *)
(* (runtime/decision_publication.py), the file decision.json, DecisionWriter *)
(* (bridge/decision_writer.py) and the Executor.  The publisher is one      *)
(* process, the writer and the executor another; each numbers or remembers  *)
(* sequences in memory and finds after a restart only what the file says.   *)
(***************************************************************************)
EXTENDS OrderSubmission

CONSTANTS Packages, MaxPublished, MaxFaults

VARIABLES
  file,       \* decision.json: a document, or None if missing or unreadable
  fresh,      \* the age of its heartbeat is within DecisionWriter's limits
  sequence,   \* _sequence_id of the publisher
  latest,     \* _most_recent_sequence_id of the writer, 0 for None: published
              \* sequences begin with 1
  snapshot,   \* the document read and not yet handed to the executor, or None
  published,  \* history: the number and the package of each publication
  restarted,  \* history: the numbering began anew for want of a readable file
  taken,      \* history: the publications accepted since the writer's start
  faults      \* crashes and losses so far

vars == <<evars, file, fresh, sequence, latest, snapshot, published, restarted, taken, faults>>

-----------------------------------------------------------------------------
\* WriterAdapter: a package is [decision, direction, permission, state, action,
\* instruction], or None for one that is malformed.
RuntimeDecision(p) == IF p.decision = "TRADE" THEN p.direction ELSE p.decision

Executable(p) == RuntimeDecision(p) \in Directions /\ p.permission /\ p.action \in AllowActions

Trades == {"TRADE", "BUY", "SELL"}

\* _validate_consistency, its rules joined: a trading decision, an allowing action and
\* the entry permission go together, and only in the state ENTRY_ALLOWED.
Consistent(p) ==
  /\ p.decision \in Directions => p.decision = p.direction
  /\ p.decision \in Trades => p.action \in AllowActions
  /\ p.action \in AllowActions => p.permission
  /\ p.permission => p.decision \in Trades /\ p.state = "ENTRY_ALLOWED"

FailSafe ==
  [decision |-> "WAIT", direction |-> "NONE", permission |-> FALSE, state |-> "FAIL_SAFE",
   action |-> "NO_ACTION", instruction |-> "none", failSafe |-> TRUE, executable |-> FALSE]

\* An instruction may be missing only where nothing is to be executed.
Adapt(p) ==
  IF p = None \/ ~Consistent(p) \/ (p.instruction = "none" /\ Executable(p)) THEN FailSafe
  ELSE [decision |-> RuntimeDecision(p), direction |-> p.direction, permission |-> p.permission,
        state |-> p.state, action |-> p.action, instruction |-> p.instruction,
        failSafe |-> FALSE, executable |-> Executable(p)]

\* _validate_payload, as far as the adapter's payloads can fail it.
Publishable(y) ==
  y.executable => y.direction = y.decision /\ y.instruction \notin {"none", "zero"}

\* publish writes the payload or, if it is inconsistent, a fail-safe in its place.
PayloadOf(p) == IF Publishable(Adapt(p)) THEN Adapt(p) ELSE FailSafe

-----------------------------------------------------------------------------
\* _next_sequence_id
NextSequence(n) == n + 1

\* The replacement of decision.json.  A failure before it propagates and changes
\* nothing; one after it is a death, and the next start reads the new number.
Publish(p) ==
  /\ Len(published) < MaxPublished
  /\ file' = [seq |-> NextSequence(sequence), pub |-> Len(published) + 1, payload |-> PayloadOf(p)]
  /\ fresh' = TRUE /\ sequence' = NextSequence(sequence) /\ published' = Append(published, [seq |-> NextSequence(sequence), package |-> p])
  /\ UNCHANGED <<evars, latest, snapshot, restarted, taken, faults>>

\* A mistake: every start begins the numbering anew.
ExistingSequence_none(f) == 0

\* _existing_sequence_id
ExistingSequence(f) == IF f = None THEN 0 ELSE f.seq

RestartPublisher ==
  /\ faults < MaxFaults /\ faults' = faults + 1
  /\ sequence' = ExistingSequence(file)
  /\ restarted' = (restarted \/ (file = None /\ published # <<>>))
  /\ UNCHANGED <<evars, file, fresh, latest, snapshot, published, taken>>

\* decision.json is deleted or made unreadable by somebody else.
LoseFile ==
  /\ faults < MaxFaults /\ faults' = faults + 1
  /\ file # None /\ file' = None
  /\ UNCHANGED <<evars, fresh, sequence, latest, snapshot, published, restarted, taken>>

Age == /\ file # None /\ fresh /\ fresh' = FALSE
       /\ UNCHANGED <<evars, file, sequence, latest, snapshot, published, restarted, taken, faults>>

-----------------------------------------------------------------------------
\* A mistake: the sequence expected next is taken for an old one.
Newer_gap(n) == n > latest + 1

\* _validate_sequence: neither DUPLICATE nor STALE_SEQUENCE.
Newer(n) == n > latest

\* _validate_executable_contract
WriterContract(y) ==
  /\ y.failSafe => y = FailSafe
  /\ y.executable => /\ y.decision \in Directions /\ y.direction = y.decision
                     /\ y.permission /\ ~y.failSafe /\ y.state = "ENTRY_ALLOWED"
                     /\ y.action \in AllowActions /\ y.instruction \notin {"none", "zero"}

\* read: what is refused leaves the writer as it was.
Read ==
  /\ snapshot = None /\ pending = None /\ file # None /\ fresh
  /\ Newer(file.seq) /\ WriterContract(file.payload)
  /\ latest' = file.seq /\ snapshot' = file /\ taken' = taken \union {file.pub}
  /\ UNCHANGED <<evars, file, fresh, sequence, published, restarted, faults>>

Deliver(brokerReady) ==
  /\ snapshot # None /\ Execute(snapshot, brokerReady) /\ snapshot' = None
  /\ UNCHANGED <<file, fresh, sequence, latest, published, restarted, taken, faults>>

Submit(outcome) ==
  /\ Send(outcome)
  /\ UNCHANGED <<file, fresh, sequence, latest, snapshot, published, restarted, taken, faults>>

RestartConsumer ==
  /\ faults < MaxFaults /\ faults' = faults + 1
  /\ RestartExecutor /\ latest' = 0 /\ snapshot' = None /\ taken' = {}
  /\ UNCHANGED <<file, fresh, sequence, published, restarted>>

-----------------------------------------------------------------------------
Init ==
  /\ SubmissionInit
  /\ file = None /\ fresh = FALSE /\ sequence = 0 /\ latest = 0 /\ snapshot = None
  /\ published = <<>> /\ restarted = FALSE /\ taken = {} /\ faults = 0

Next ==
  \/ \E p \in Packages \union {None} : Publish(p)
  \/ Read
  \/ \E ready \in BOOLEAN : Deliver(ready)
  \/ \E outcome \in Outcomes : Submit(outcome)
  \/ Age
  \/ RestartPublisher \/ RestartConsumer \/ LoseFile

Spec == Init /\ [][Next]_vars

-----------------------------------------------------------------------------
\* Publications are numbered in increasing order, restarts of the publisher
\* included, unless one found no readable decision.json.
SequencesIncrease ==
  ~restarted => \A i, j \in 1..Len(published) : i < j => published[i].seq < published[j].seq

\* The writer takes nothing for a duplicate or stale that it has not accepted:
\* on the same condition no publication is lost on a consumer that reads it in time.
RefusesOnlyRead ==
  file # None /\ ~restarted /\ ~Newer(file.seq) => file.pub \in taken
=============================================================================
