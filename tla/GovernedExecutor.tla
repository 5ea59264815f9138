--------------------------- MODULE GovernedExecutor ---------------------------
(***************************************************************************)
(* The canonical MT5 executor, mt5/canonical/RP_AI_Governed_Executor.mq5:  *)
(* OnTick reads execution_package.json, checks it against two durable      *)
(* records (executor_journal.log and executor_state.json), writes its      *)
(* intent to both, calls OrderSend and records the outcome.                *)
(*                                                                         *)
(* Every file operation is a step of its own, so that the terminal can     *)
(* crash, a write can fail or tear, and the environment can replace or     *)
(* delete files between any two of them.  The broker is external.          *)
(***************************************************************************)
EXTENDS Integers, Sequences, FiniteSets

CONSTANTS
  None,              \* no file, no package, no value
  Packages,          \* the packages that may appear in execution_package.json
  MaxFaults,         \* bound: crashes, failed operations and torn writes together
  StateDeletable,    \* may executor_state.json be deleted from outside?
  StateUnopenable,   \* may opening an existing executor_state.json report 5004?
  JournalUnopenable  \* may opening an existing executor_journal.log report 5004?

\* A package is assembled once, under a UUID of its own: the UUID determines it.
ASSUME PackagesAssumption ==
  /\ \A p \in Packages : DOMAIN p = {"uuid", "seq"} /\ p.seq \in Nat
  /\ \A p, q \in Packages : p.uuid = q.uuid => p = q

ASSUME FaultsAssumption ==
  /\ MaxFaults \in Nat
  /\ {StateDeletable, StateUnopenable, JournalUnopenable} \subseteq BOOLEAN

VARIABLES
  package,      \* execution_package.json: a package, or None
  expired,      \* packages whose heartbeat is over RP_EXECUTOR_PACKAGE_MAX_AGE_SECONDS old
  disabled,     \* input InpEmergencyDisable
  journal,      \* executor_journal.log: the six-field records written, oldest first
  tail,         \* what a reader makes of the journal: see Tails
  state,        \* executor_state.json: the last published record, or None
  result,       \* execution_result.json: the last published result, or None
  temps,        \* publication temporaries left on disk: <<uuid, publication>>
  sent,         \* requests passed to OrderSend, in order
  inflight,     \* UUIDs of requests the broker has and has not decided
  live,         \* UUIDs of requests the broker executed or placed
  pc,           \* where OnTick is
  pkg,          \* OnTick's copy of the package
  stateSeq,     \* OnTick's state_sequence
  publication,  \* the transition (or "result") being persisted
  reply,        \* the class of OrderSend's return code
  faults        \* faults so far

durable  == <<journal, tail, state, result, temps>>
broker   == <<sent, inflight, live>>
feed     == <<package, expired, disabled>>
volatile == <<pc, pkg, stateSeq, publication, reply>>
vars     == <<feed, durable, broker, volatile, faults>>

Transitions == {"ACCEPTED", "SUBMITTING", "SUBMITTED", "REJECTED", "UNKNOWN_OUTCOME"}
Terminals   == {"SUBMITTED", "REJECTED"}
Replies     == {"DONE", "PLACED", "REFUSED", "AMBIGUOUS"}
Tails       == {"closed",  \* every line has six fields, the last one its terminator
                "open",    \* every line has six fields, the last lacks its terminator
                "bad"}     \* some line has another number of fields
Labels      == {"idle", "load", "inspect", "broker", "append", "temp", "move",
                "send", "await", "fallback"}

Uuids   == {p.uuid : p \in Packages}
Records == [uuid : Uuids, seq : Nat, status : Transitions]

ASSUME NoneAssumption ==
  /\ None \notin Packages
  /\ None \notin Records
  /\ None \notin Transitions \union Replies \union {"result"}

TypeOK ==
  /\ package \in Packages \union {None}
  /\ expired \subseteq Packages
  /\ disabled \in BOOLEAN
  /\ journal \in Seq(Records)
  /\ tail \in Tails
  /\ state \in Records \union {None}
  /\ result \in [uuid : Uuids, reply : Replies] \union {None}
  /\ temps \subseteq Uuids \X (Transitions \union {"result"})
  /\ sent \in Seq(Packages)
  /\ inflight \subseteq Uuids
  /\ live \subseteq Uuids
  /\ pc \in Labels
  /\ pkg \in Packages \union {None}
  /\ stateSeq \in Nat
  /\ publication \in Transitions \union {"result", None}
  /\ reply \in Replies \union {None}
  /\ faults \in Nat

Init ==
  /\ package = None /\ expired = {} /\ disabled = FALSE
  /\ journal = <<>> /\ tail = "closed" /\ state = None /\ result = None /\ temps = {}
  /\ sent = <<>> /\ inflight = {} /\ live = {}
  /\ pc = "idle" /\ pkg = None /\ stateSeq = 0 /\ publication = None /\ reply = None
  /\ faults = 0

-----------------------------------------------------------------------------
(* Control: where a return, a fault or a persisted transition leads.        *)

\* A return from OnTick: its locals are gone.
Return ==
  /\ pc' = "idle" /\ pkg' = None /\ stateSeq' = 0
  /\ publication' = None /\ reply' = None

Goto(label) == pc' = label /\ UNCHANGED <<pkg, stateSeq, publication, reply>>

\* A mistake: the journal is skipped (see "Mutants" in the README).
Persist_stateOnly(status) == pc' = "temp" /\ publication' = status /\ UNCHANGED <<pkg, stateSeq, reply>>

\* PersistTransition(status) starts: the journal first, the state file second.
Persist(status) == pc' = "append" /\ publication' = status /\ UNCHANGED <<pkg, stateSeq, reply>>

\* An operation fails: one of the MaxFaults faults is used up.
Fault == faults < MaxFaults /\ faults' = faults + 1
NoFault == UNCHANGED faults

\* Mistakes the runs are sensitive to: see "Mutants" in the README.
Persisted_sendsAccepted ==
  CASE publication \in {"ACCEPTED", "SUBMITTING"} -> Goto("send")
    [] publication \in Terminals -> pc' = "temp" /\ publication' = "result"
                                    /\ UNCHANGED <<pkg, stateSeq, reply>>
    [] OTHER -> Return
NotPersisted_retries ==
  CASE publication = "SUBMITTING" -> Persist("SUBMITTING")
    [] publication = "result"     -> Persist("UNKNOWN_OUTCOME")
    [] OTHER                      -> Return

\* What follows a transition, or the result, that was persisted.
Persisted ==
  CASE publication = "ACCEPTED"   -> Persist("SUBMITTING")
    [] publication = "SUBMITTING" -> Goto("send")
    [] publication \in Terminals  -> pc' = "temp" /\ publication' = "result"
                                     /\ UNCHANGED <<pkg, stateSeq, reply>>
    [] OTHER                      -> Return

\* What follows one that was not.  UNKNOWN_OUTCOME is tried again, in the
\* journal alone, only when it stands for a failed result publication.
NotPersisted ==
  CASE publication \in {"SUBMITTING", "result"} -> Persist("UNKNOWN_OUTCOME")
    [] publication \in Terminals                -> Goto("fallback")
    [] publication = "UNKNOWN_OUTCOME" /\ reply # None -> Goto("fallback")
    [] OTHER                                    -> Return

-----------------------------------------------------------------------------
(* The journal.                                                             *)

Record(status) == [uuid |-> pkg.uuid, seq |-> pkg.seq, status |-> status]

\* A whole line is appended.  Glued to an unterminated line it makes a line
\* of eleven fields.
WriteLine(r) ==
  /\ journal' = Append(journal, r)
  /\ tail' = IF tail = "closed" THEN "closed" ELSE "bad"

\* Part of a line reaches the file: nothing, fewer than six fields, or all six
\* without the end of the reason and the terminator.
WritePart(r) ==
  \/ UNCHANGED <<journal, tail>>
  \/ journal' = journal /\ tail' = "bad"
  \/ journal' = Append(journal, r) /\ tail' = IF tail = "closed" THEN "open" ELSE "bad"

Entries(u) == {i \in DOMAIN journal : journal[i].uuid = u}

\* The last_status InspectJournal returns for a UUID; None if it has no line.
LastStatus(u) ==
  IF Entries(u) = {} THEN None
  ELSE journal[CHOOSE i \in Entries(u) : \A j \in Entries(u) : j <= i].status

-----------------------------------------------------------------------------
(* OnTick, one action per file operation or external call.                  *)

\* ReadExecutionPackage, its decoding and ParseCanonicalPackage: the file yields
\* a canonical package, or else the tick returns with nothing changed.
Parsed(p) == p # None

\* ValidatePackage, as far as it depends on more than the package's wording.
Valid(p) == p \notin expired /\ p.seq >= 1

\* OnTick up to there.  A disabled tick returns with nothing changed.
ReadPackage ==
  /\ pc = "idle" /\ ~disabled
  /\ Parsed(package) /\ Valid(package)
  /\ pc' = "load" /\ pkg' = package
  /\ UNCHANGED <<stateSeq, publication, reply, feed, durable, broker, faults>>

\* The state_sequence LoadExecutorState returns.
LoadedSequence == IF state = None THEN 0 ELSE state.seq

\* LoadExecutorState: error 5004 means "no state", any other error rejects.
LoadState ==
  /\ pc = "load"
  /\ \/ /\ stateSeq' = LoadedSequence
        /\ pc' = "inspect" /\ NoFault /\ UNCHANGED <<pkg, publication, reply>>
     \/ /\ StateUnopenable /\ Fault
        /\ stateSeq' = 0 /\ pc' = "inspect" /\ UNCHANGED <<pkg, publication, reply>>
     \/ Fault /\ Return
  /\ UNCHANGED <<feed, durable, broker>>

\* Mistakes: the journal's sequences ignored, and an off-by-one.
Newer_stateOnly(lines) == stateSeq < pkg.seq
Newer_orEqual(lines) == stateSeq <= pkg.seq /\ \A i \in DOMAIN lines : lines[i].seq <= pkg.seq

\* market_sequence > authority_sequence, the larger of the sequences on record.
Newer(lines) == stateSeq < pkg.seq /\ \A i \in DOMAIN lines : lines[i].seq < pkg.seq

\* A mistake: an interrupted submission is rejected like any other duplicate.
Dispatch_noRecovery(status, lines) ==
  IF status = None /\ Newer(lines) THEN Goto("broker") ELSE Return

\* The duplicate branch and the sequence check that follow InspectJournal.
Dispatch(status, lines) ==
  CASE status = "SUBMITTING"          -> Goto("fallback")
    [] status = None /\ Newer(lines) -> Goto("broker")
    [] OTHER                          -> Return

\* InspectJournal: an unreadable line rejects, and so does an error other than
\* 5004, which means "no journal", whether or not there is one.
InspectJournal ==
  /\ pc = "inspect"
  /\ \/ tail # "bad" /\ NoFault /\ Dispatch(LastStatus(pkg.uuid), journal)
     \/ tail = "bad" /\ NoFault /\ Return
     \/ JournalUnopenable /\ Fault /\ Dispatch(None, <<>>)
     \/ Fault /\ Return
  /\ UNCHANGED <<feed, durable, broker>>

\* A mistake: the order goes out first and is recorded afterwards.
ValidateAtBroker_sendsFirst ==
  /\ pc = "broker"
  /\ Goto("send") \/ Return
  /\ UNCHANGED <<feed, durable, broker, faults>>

\* BrokerValidation: symbol, permissions, market, volume, margin and stops.
ValidateAtBroker ==
  /\ pc = "broker"
  /\ Persist("ACCEPTED") \/ Return
  /\ UNCHANGED <<feed, durable, broker, faults>>

\* AppendJournal as the first half of PersistTransition.
AppendTransition ==
  /\ pc = "append"
  /\ \/ WriteLine(Record(publication)) /\ NoFault /\ Goto("temp")
     \/ WritePart(Record(publication)) /\ Fault /\ NotPersisted
  /\ UNCHANGED <<state, result, temps, feed, broker>>

\* AppendJournal alone, its outcome ignored: the recovery of an interrupted
\* submission, and the last resort of a tick that could not persist one.
AppendUnknownOutcome ==
  /\ pc = "fallback"
  /\ \/ WriteLine(Record("UNKNOWN_OUTCOME")) /\ NoFault
     \/ WritePart(Record("UNKNOWN_OUTCOME")) /\ Fault
  /\ Return
  /\ UNCHANGED <<state, result, temps, feed, broker>>

\* The name of the temporary: execution UUID and transition.
Temporary == <<pkg.uuid, publication>>

\* ReplaceTextFailClosed up to the temporary file: a stale one is deleted and
\* the publication fails; a failed write deletes what it wrote.
WriteTemporary ==
  /\ pc = "temp"
  /\ \/ Temporary \in temps /\ temps' = temps \ {Temporary} /\ NoFault /\ NotPersisted
     \/ Temporary \notin temps /\ temps' = temps \union {Temporary} /\ NoFault /\ Goto("move")
     \/ Temporary \notin temps /\ UNCHANGED temps /\ Fault /\ NotPersisted
  /\ UNCHANGED <<journal, tail, state, result, feed, broker>>

\* The FileMove that replaces executor_state.json or execution_result.json.
MoveTemporary ==
  /\ pc = "move"
  /\ temps' = temps \ {Temporary}
  /\ \/ /\ IF publication = "result"
           THEN result' = [uuid |-> pkg.uuid, reply |-> reply] /\ UNCHANGED state
           ELSE state' = Record(publication) /\ UNCHANGED result
        /\ NoFault /\ Persisted
     \/ UNCHANGED <<state, result>> /\ Fault /\ NotPersisted
  /\ UNCHANGED <<journal, tail, feed, broker>>

\* OrderSend is called: the request reaches the broker, or is lost on the way.
SendOrder ==
  /\ pc = "send" /\ Goto("await")
  /\ sent' = Append(sent, pkg)
  /\ inflight' \in {inflight, inflight \union {pkg.uuid}}
  /\ UNCHANGED <<live, feed, durable, faults>>

\* OrderSend returns.  Only DONE, DONE_PARTIAL and PLACED count as submitted.
ReceiveReply ==
  /\ pc = "await"
  /\ \E r \in Replies :
       /\ r \in {"DONE", "PLACED"} => pkg.uuid \in live
       /\ r = "REFUSED" => pkg.uuid \notin live \union inflight
       /\ reply' = r
       /\ publication' = IF r \in {"DONE", "PLACED"} THEN "SUBMITTED" ELSE "REJECTED"
  /\ pc' = "append"
  /\ UNCHANGED <<pkg, stateSeq, feed, durable, broker, faults>>

Tick == \/ ReadPackage \/ LoadState \/ InspectJournal \/ ValidateAtBroker
        \/ AppendTransition \/ AppendUnknownOutcome \/ WriteTemporary \/ MoveTemporary
        \/ SendOrder \/ ReceiveReply

-----------------------------------------------------------------------------
(* The environment: the terminal crashes, packages come and expire, files    *)
(* disappear, the broker decides.                                            *)

\* The terminal dies: OnTick's locals are lost, a line being appended may be
\* whole, partial or absent, and a temporary not yet moved stays behind.
Crash ==
  /\ pc # "idle" /\ Fault /\ Return
  /\ CASE pc = "append"   -> WriteLine(Record(publication)) \/ WritePart(Record(publication))
       [] pc = "fallback" -> WriteLine(Record("UNKNOWN_OUTCOME")) \/ WritePart(Record("UNKNOWN_OUTCOME"))
       [] OTHER           -> UNCHANGED <<journal, tail>>
  /\ UNCHANGED <<state, result, temps, feed, broker>>

\* execution_package.json is replaced (by a new package or a replay) or deleted.
ReplacePackage ==
  /\ \E p \in Packages \union {None} : p # package /\ package' = p
  /\ UNCHANGED <<expired, disabled, durable, broker, volatile, faults>>

Expire ==
  /\ \E p \in Packages \ expired : expired' = expired \union {p}
  /\ UNCHANGED <<package, disabled, durable, broker, volatile, faults>>

\* Inputs change between ticks only: the terminal reinitialises the program.
ToggleDisable ==
  /\ pc = "idle" /\ disabled' = ~disabled
  /\ UNCHANGED <<package, expired, durable, broker, volatile, faults>>

DeleteState ==
  /\ StateDeletable /\ state # None /\ Fault /\ state' = None
  /\ UNCHANGED <<feed, journal, tail, result, temps, broker, volatile>>

BrokerDecides ==
  /\ \E u \in inflight : /\ inflight' = inflight \ {u}
                         /\ live' \in {live, live \union {u}}
  /\ UNCHANGED <<sent, feed, durable, volatile, faults>>

Next == \/ Tick \/ Crash \/ ReplacePackage \/ Expire \/ ToggleDisable \/ DeleteState
        \/ BrokerDecides

Spec == Init /\ [][Next]_vars

\* The terminal keeps delivering ticks and OnTick runs to its return; the broker
\* answers.  Nothing is assumed of packages, expiry, crashes or inputs.
Fairness == WF_vars(Tick) /\ WF_vars(BrokerDecides)
FairSpec == Spec /\ Fairness
-----------------------------------------------------------------------------
(* Safety.                                                                  *)

\* No package is handed to OrderSend twice (OnTick lines 518-524), whatever is
\* replayed, crashes or fails in between.
AtMostOneSubmission ==
  \A i, j \in DOMAIN sent : sent[i].uuid = sent[j].uuid => i = j

\* Orders go out in the order of their market sequences, replays included.
SubmissionsMonotonic ==
  \A i, j \in DOMAIN sent : i < j => sent[i].seq < sent[j].seq

\* Write-ahead: a request at the broker has ACCEPTED and, later, SUBMITTING on
\* the journal, so that no crash can leave an order without a trace.
IntentBeforeSend ==
  \A i \in DOMAIN sent : \E j, k \in DOMAIN journal :
    /\ j < k
    /\ journal[j].uuid = sent[i].uuid /\ journal[j].status = "ACCEPTED"
    /\ journal[k].uuid = sent[i].uuid /\ journal[k].status = "SUBMITTING"

\* executor_state.json never runs ahead of the authoritative journal: what it
\* says was journaled first.
StateBackedByJournal ==
  state # None => \E i \in DOMAIN journal : journal[i] = state

\* A published result states an outcome the journal holds: DONE and PLACED only
\* after SUBMITTED, anything else only after REJECTED.
ResultBackedByJournal ==
  result # None =>
    \E i \in DOMAIN journal :
      /\ journal[i].uuid = result.uuid
      /\ journal[i].status =
           IF result.reply \in {"DONE", "PLACED"} THEN "SUBMITTED" ELSE "REJECTED"

\* The statuses that may follow one another on the journal for one UUID.  An
\* outcome is revised by the tick that sent the order, by no later one.
Successors(status) ==
  CASE status = None         -> {"ACCEPTED"}
    [] status = "ACCEPTED"   -> {"SUBMITTING", "UNKNOWN_OUTCOME"}
    [] status = "SUBMITTING" -> {"SUBMITTED", "REJECTED", "UNKNOWN_OUTCOME"}
    [] OTHER                 -> IF reply = None THEN {} ELSE {"UNKNOWN_OUTCOME"}

\* Action property: the journal only grows, and by a legal successor of what it
\* held for that UUID.
JournalFollowsLifecycle ==
  [][ journal' = journal
      \/ /\ Len(journal') = Len(journal) + 1
         /\ SubSeq(journal', 1, Len(journal)) = journal
         /\ LET r == journal'[Len(journal')]
            IN  r.status \in Successors(LastStatus(r.uuid)) ]_vars

-----------------------------------------------------------------------------
(* Liveness.                                                                *)

Recoverable(p) == package = p /\ p \notin expired /\ ~disabled /\ tail # "bad"

\* An interrupted submission is recovered to UNKNOWN_OUTCOME (OnTick line 520)
\* while its package stays in place and fresh and the journal readable.
RecoveredWhileFresh ==
  \A p \in Packages :
    LastStatus(p.uuid) = "SUBMITTING" /\ []Recoverable(p)
      ~> LastStatus(p.uuid) # "SUBMITTING"

-----------------------------------------------------------------------------
(* The promise to the rest of the system.                                   *)

Phase(status) ==
  CASE status = None              -> "unseen"
    [] status = "ACCEPTED"        -> "accepted"
    [] status = "SUBMITTING"      -> "intended"
    [] status \in Terminals       -> "settled"
    [] status = "UNKNOWN_OUTCOME" -> "unknown"

Promise == INSTANCE AtMostOnceSubmission
             WITH phase <- [u \in Uuids |-> Phase(LastStatus(u))], submitted <- sent

\* The executor implements the promise, the journal standing for the phases.
KeepsPromise == Promise!Spec

=============================================================================
