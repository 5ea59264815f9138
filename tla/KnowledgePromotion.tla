-------------------------- MODULE KnowledgePromotion --------------------------
(***************************************************************************)
(* learning/promotion_authority: an approved decision makes its knowledge   *)
(* ACTIVE.  execute writes PREPARED, asks the lifecycle for the transition  *)
(* VERIFIED to ACTIVE and writes COMMITTED, or IN_DOUBT when the lifecycle  *)
(* raises, under a leased lock of the knowledge's semantic identity.        *)
(*                                                                         *)
(* learning/lifecycle: append checks a transition against the history of    *)
(* its knowledge under a lock without a lease and writes it.  Its other     *)
(* callers record any transition the life cycle allows.  The port between   *)
(* the two is external: it hands the transition on and returns the event.   *)
(***************************************************************************)
EXTENDS Integers, Sequences

CONSTANTS
  Processes, Decisions, Knowledge, Slots,
  KnowledgeOf, SlotOf,                 \* what a decision promotes, and its semantic identity
  Others,                              \* the transitions other components ask for
  MaxExecutions, MaxTime, MaxFaults,   \* bounds
  None

VARIABLES
  records,     \* promotion_records: <<decision, status>>, a file each
  log,         \* the lifecycle's events of each knowledge, by time
  locks,       \* promotion_locks: its owner's execution and whether its lease is over
  guards,      \* the lifecycle's lock of each knowledge: the process that made it
  task,        \* where each process stands, and with what
  clock, executions, faults,
  requests,    \* history: how often the lifecycle was asked on behalf of a decision
  granted,     \* history: the decisions whose execution returned a record
  lost         \* history: a power loss took a record back

vars == <<records, log, locks, guards, task, clock, executions, faults, requests, granted, lost>>
world == <<clock, executions, lost>>

-----------------------------------------------------------------------------
Allowed ==
  [DRAFT |-> {"VERIFIED", "ARCHIVED"}, VERIFIED |-> {"ACTIVE", "ARCHIVED"},
   ACTIVE |-> {"SUPERSEDED", "RETIRED"}, SUPERSEDED |-> {"ARCHIVED"}, RETIRED |-> {"ARCHIVED"},
   ARCHIVED |-> {}]
ASSUME PromotionAssumption ==
  /\ KnowledgeOf \in [Decisions -> Knowledge] /\ SlotOf \in [Decisions -> Slots]
  /\ \A o \in Others : o[1] \in DOMAIN Allowed /\ o[2] \in Allowed[o[1]]
  /\ None \notin Decisions \union Processes
  /\ MaxExecutions \in Nat /\ MaxTime \in Nat /\ MaxFaults \in Nat

NoTask ==
  [pc |-> "idle", decision |-> None, knowledge |-> None, from |-> "DRAFT", to |-> "DRAFT", at |-> 0,
   execution |-> 0, tries |-> 0, ok |-> FALSE]

\* A call that is over leaves nothing behind in its process.
Continue(p, call, label) ==
  task' = [task EXCEPT ![p] = IF label = "idle" THEN NoTask ELSE [call EXCEPT !.pc = label]]
Goto(p, label) == Continue(p, task[p], label)
Fault == faults < MaxFaults /\ faults' = faults + 1
NoFault == UNCHANGED faults

EventOf(p) ==
  [decision |-> task[p].decision, from |-> task[p].from, to |-> task[p].to, at |-> task[p].at]

\* LifecycleValidator.validate, on the history of the event's knowledge.
Accepts(history, e) ==
  IF history = <<>> THEN e.from = "DRAFT"
  ELSE e.from = history[Len(history)].to /\ e.at > history[Len(history)].at

\* A transition uuid is the decision's, or new.
Recorded(history, d) == \E i \in 1..Len(history) : history[i].decision = d

-----------------------------------------------------------------------------
\* execute, once validate has accepted the report.
Begin(p, d) ==
  /\ task[p].pc = "idle" /\ executions < MaxExecutions /\ executions' = executions + 1
  /\ Continue(p, [NoTask EXCEPT !.decision = d, !.knowledge = KnowledgeOf[d], !.from = "VERIFIED",
                                 !.to = "ACTIVE", !.execution = executions'], "lookup")
  /\ UNCHANGED <<records, log, locks, guards, clock, faults, requests, granted, lost>>

\* storage.committed, before the lock and again under it.
Return(p, label) ==
  /\ granted' = granted \union {task[p].decision} /\ Goto(p, label)
Lookup(p) ==
  /\ task[p].pc = "lookup"
  /\ \/ <<task[p].decision, "COMMITTED">> \in records /\ Return(p, "idle")
     \/ <<task[p].decision, "COMMITTED">> \notin records /\ Goto(p, "acquire") /\ UNCHANGED granted
  /\ UNCHANGED <<records, log, locks, guards, requests, faults, world>>
Recheck(p) ==
  /\ task[p].pc = "recheck"
  /\ \/ <<task[p].decision, "COMMITTED">> \in records /\ Return(p, "release")
     \/ /\ <<task[p].decision, "COMMITTED">> \notin records /\ UNCHANGED granted
        /\ Continue(p, [task[p] EXCEPT !.at = clock], "prepare")
  /\ UNCHANGED <<records, log, locks, guards, requests, faults, world>>

\* _lock: the file is created empty and written after that.
Free == [owner |-> 0, state |-> "absent"]
Acquire(p) ==
  LET s == SlotOf[task[p].decision] IN
  /\ task[p].pc = "acquire"
  /\ \/ /\ locks[s] = Free /\ Goto(p, "stamp")
        /\ locks' = [locks EXCEPT ![s] = [owner |-> task[p].execution, state |-> "blank"]]
     \/ /\ locks[s] # Free /\ UNCHANGED locks
        /\ Goto(p, IF locks[s].state = "stale" THEN "steal" ELSE "idle")
  /\ UNCHANGED <<records, log, guards, faults, requests, granted, world>>

\* The lock may have been removed by its name in the meantime, and another put in its
\* place.  A write that fails leaves the file as it is.
Stamp(p) ==
  LET s == SlotOf[task[p].decision] IN
  /\ task[p].pc = "stamp"
  /\ \/ /\ locks' = [locks EXCEPT ![s] = IF @.owner = task[p].execution THEN [@ EXCEPT !.state = "held"] ELSE @]
        /\ Goto(p, "recheck") /\ NoFault
     \/ Fault /\ Goto(p, "idle") /\ UNCHANGED locks
  /\ UNCHANGED <<records, log, guards, requests, granted, world>>

\* path.replace moves whatever lock is there by now; the second attempt is the last.
Steal(p) ==
  LET s == SlotOf[task[p].decision] IN
  /\ task[p].pc = "steal" /\ locks' = [locks EXCEPT ![s] = Free]
  /\ Continue(p, [task[p] EXCEPT !.tries = @ + 1], IF task[p].tries = 0 THEN "acquire" ELSE "idle")
  /\ UNCHANGED <<records, log, guards, faults, requests, granted, world>>

\* The owner is read, and the file removed by its name.
Release(p) ==
  /\ task[p].pc = "release"
  /\ Goto(p, IF locks[SlotOf[task[p].decision]].owner = task[p].execution THEN "unlink" ELSE "idle")
  /\ UNCHANGED <<records, log, locks, guards, faults, requests, granted, world>>
Unlink(p) ==
  /\ task[p].pc = "unlink" /\ locks' = [locks EXCEPT ![SlotOf[task[p].decision]] = Free] /\ Goto(p, "idle")
  /\ UNCHANGED <<records, log, guards, faults, requests, granted, world>>

\* PromotionRecordStorage.write: the record's uuid is that of decision and status, and
\* two executions never write the same bytes.  It may raise before the link or after it.
Store(d, status, done) ==
  \/ /\ <<d, status>> \notin records /\ records' = records \union {<<d, status>>}
     /\ IF done THEN NoFault ELSE Fault
  \/ <<d, status>> \in records /\ ~done /\ NoFault /\ UNCHANGED records
  \/ ~done /\ Fault /\ UNCHANGED records

\* A mistake: the PREPARED record of an earlier execution is taken for this one's.
Prepare_again(p) ==
  /\ task[p].pc = "prepare"
  /\ \/ /\ \/ Store(task[p].decision, "PREPARED", TRUE)
           \/ <<task[p].decision, "PREPARED">> \in records /\ NoFault /\ UNCHANGED records
        /\ Goto(p, "guard") /\ requests' = [requests EXCEPT ![task[p].decision] = @ + 1]
     \/ Store(task[p].decision, "PREPARED", FALSE) /\ Goto(p, "release") /\ UNCHANGED requests
  /\ UNCHANGED <<log, locks, guards, granted, world>>

\* A mistake: the transition is asked for although PREPARED could not be written.
Prepare_unrecorded(p) ==
  /\ task[p].pc = "prepare"
  /\ \/ Store(task[p].decision, "PREPARED", TRUE)
     \/ Store(task[p].decision, "PREPARED", FALSE)
  /\ Goto(p, "guard") /\ requests' = [requests EXCEPT ![task[p].decision] = @ + 1]
  /\ UNCHANGED <<log, locks, guards, granted, world>>

\* PREPARED, and the call of the lifecycle.
Prepare(p) ==
  /\ task[p].pc = "prepare"
  /\ \/ /\ Store(task[p].decision, "PREPARED", TRUE)
        /\ Goto(p, "guard") /\ requests' = [requests EXCEPT ![task[p].decision] = @ + 1]
     \/ Store(task[p].decision, "PREPARED", FALSE) /\ Goto(p, "release") /\ UNCHANGED requests
  /\ UNCHANGED <<log, locks, guards, granted, world>>

Commit(p) ==
  /\ task[p].pc = "commit"
  /\ \/ Store(task[p].decision, "COMMITTED", TRUE) /\ Return(p, "release")
     \/ Store(task[p].decision, "COMMITTED", FALSE) /\ Goto(p, "doubt") /\ UNCHANGED granted
  /\ UNCHANGED <<log, locks, guards, requests, world>>

\* The except branch.  FAILED is never written: the lifecycle counts as called.
Doubt(p) ==
  /\ task[p].pc = "doubt" /\ Goto(p, "release")
  /\ \E done \in BOOLEAN : Store(task[p].decision, "IN_DOUBT", done)
  /\ UNCHANGED <<log, locks, guards, requests, granted, world>>

-----------------------------------------------------------------------------
\* lifecycle.transition by any other component: whatever validate_artifact lets pass.
Transition(p, k, from, to) ==
  /\ task[p].pc = "idle" /\ executions < MaxExecutions /\ executions' = executions + 1
  /\ Continue(p, [NoTask EXCEPT !.knowledge = k, !.from = from, !.to = to, !.at = clock,
                                 !.execution = executions'], "guard")
  /\ UNCHANGED <<records, log, locks, guards, clock, faults, requests, granted, lost>>

\* append returns, or raises, to the one who called it.
Reply(p, ok) == IF task[p].decision = None THEN "idle" ELSE IF ok THEN "commit" ELSE "doubt"

Guard(p) ==
  LET k == task[p].knowledge IN
  /\ task[p].pc = "guard" /\ guards[k] = None
  /\ \/ guards' = [guards EXCEPT ![k] = p] /\ Goto(p, "check") /\ NoFault
     \/ Fault /\ Goto(p, Reply(p, FALSE)) /\ UNCHANGED guards
  /\ UNCHANGED <<records, log, locks, requests, granted, world>>

\* A mistake: a lock that does not come free in ten seconds is taken over.
GuardTimeout_takeover(p) ==
  LET k == task[p].knowledge IN
  /\ task[p].pc = "guard" /\ guards[k] # None
  /\ guards' = [guards EXCEPT ![k] = p] /\ Goto(p, "check")
  /\ UNCHANGED <<records, log, locks, requests, granted, faults, world>>

\* A mistake: the wait has no end.
GuardTimeout_never(p) == FALSE /\ UNCHANGED vars

\* LIFECYCLE_LOCK_TIMEOUT after ten seconds.
GuardTimeout(p) ==
  /\ task[p].pc = "guard" /\ guards[task[p].knowledge] # None /\ Goto(p, Reply(p, FALSE))
  /\ UNCHANGED <<records, log, locks, guards, requests, granted, faults, world>>

\* The uuid recorded before is the same event, or LIFECYCLE_IMMUTABLE.
Check(p) ==
  LET history == log[task[p].knowledge]
      again == task[p].decision # None /\ Recorded(history, task[p].decision)
      same == \E i \in 1..Len(history) : history[i] = EventOf(p)
  IN
  /\ task[p].pc = "check"
  /\ Continue(p, [task[p] EXCEPT !.ok = again /\ same],
              IF ~again /\ Accepts(history, EventOf(p)) THEN "write" ELSE "unguard")
  /\ UNCHANGED <<records, log, locks, guards, requests, granted, faults, world>>

\* LifecycleStorage.write: it may raise before the link or after it.
Write(p) ==
  /\ task[p].pc = "write"
  /\ \E written, ok \in BOOLEAN :
       /\ ok => written
       /\ IF ok THEN NoFault ELSE Fault
       /\ Continue(p, [task[p] EXCEPT !.ok = ok], "unguard")
       /\ log' = IF written THEN [log EXCEPT ![task[p].knowledge] = Append(@, EventOf(p))] ELSE log
  /\ UNCHANGED <<records, locks, guards, requests, granted, world>>

\* A mistake: whatever the lifecycle answers counts as done.
Unguard_anyReply(p) ==
  /\ task[p].pc = "unguard" /\ guards' = [guards EXCEPT ![task[p].knowledge] = None] /\ NoFault
  /\ Goto(p, Reply(p, TRUE))
  /\ UNCHANGED <<records, log, locks, requests, granted, world>>

\* The lock file is removed by its name; if that fails append raises.
Unguard(p) ==
  /\ task[p].pc = "unguard"
  /\ \/ /\ guards' = [guards EXCEPT ![task[p].knowledge] = None] /\ NoFault
        /\ Goto(p, Reply(p, task[p].ok))
     \/ Fault /\ Goto(p, Reply(p, FALSE)) /\ UNCHANGED guards
  /\ UNCHANGED <<records, log, locks, requests, granted, world>>

-----------------------------------------------------------------------------
\* The leases of the promotion locks; the lifecycle's have none.
Expire(s) ==
  /\ locks[s].state = "held" /\ locks' = [locks EXCEPT ![s].state = "stale"]
  /\ UNCHANGED <<records, log, guards, task, faults, requests, granted, world>>

Pass ==
  /\ clock < MaxTime /\ clock' = clock + 1
  /\ UNCHANGED <<records, log, locks, guards, task, executions, faults, requests, granted, lost>>

\* A process dies and leaves its lock files.
Crash(p) ==
  /\ task[p].pc # "idle" /\ Fault /\ Goto(p, "idle")
  /\ UNCHANGED <<records, log, locks, guards, requests, granted, world>>

\* Records are linked without synchronising their directory, the lifecycle's are not.
PowerLoss ==
  /\ Fault /\ task' = [p \in Processes |-> NoTask]
  /\ \E taken \in SUBSET records : records' = records \ taken /\ lost' = (lost \/ taken # {})
  /\ UNCHANGED <<log, locks, guards, clock, executions, requests, granted>>

Step(p) ==
  \/ Lookup(p) \/ Acquire(p) \/ Stamp(p) \/ Steal(p) \/ Recheck(p)
  \/ Prepare(p) \/ Commit(p) \/ Doubt(p) \/ Release(p) \/ Unlink(p)
  \/ Guard(p) \/ GuardTimeout(p) \/ Check(p) \/ Write(p) \/ Unguard(p)

\* Knowledge may be of any age when the first decision about it is taken.
Init ==
  /\ records = {} /\ requests = [d \in Decisions |-> 0] /\ granted = {} /\ lost = FALSE
  /\ log \in [Knowledge -> {<<>>, <<[decision |-> None, from |-> "DRAFT", to |-> "VERIFIED", at |-> 0]>>}]
  /\ locks = [s \in Slots |-> Free] /\ guards = [k \in Knowledge |-> None]
  /\ task = [p \in Processes |-> NoTask]
  /\ clock = 1 /\ executions = 0 /\ faults = 0

Next ==
  \/ \E p \in Processes : Step(p) \/ Crash(p) \/ \E d \in Decisions : Begin(p, d)
  \/ \E p \in Processes, k \in Knowledge, o \in Others : Transition(p, k, o[1], o[2])
  \/ \E s \in Slots : Expire(s)
  \/ Pass \/ PowerLoss

Spec == Init /\ [][Next]_vars

\* A call that was made runs on, unless its process dies.
FairSpec == Spec /\ \A p \in Processes : WF_vars(Step(p))

-----------------------------------------------------------------------------
\* The lifecycle is asked for a decision's transition once, whatever becomes of locks,
\* leases and processes and however often execute is tried, until a power loss takes a
\* record back: what keeps executions apart is the record PREPARED, not the lock.
OneRequest == lost \/ \A d \in Decisions : requests[d] <= 1

\* A decision that is COMMITTED, or for which execute returned a record, has its
\* transition in the lifecycle.
CommittedAgrees ==
  \A d \in Decisions : <<d, "COMMITTED">> \in records \/ d \in granted => Recorded(log[KnowledgeOf[d]], d)

\* No transition is made on a decision's behalf without evidence on record before it.
EvidenceFirst ==
  lost \/ \A d \in Decisions : Recorded(log[KnowledgeOf[d]], d) => <<d, "PREPARED">> \in records

\* The history of every knowledge follows the life cycle in the order of its times,
\* though promotions and other transitions contend for it.
LifecycleLegal ==
  \A k \in Knowledge : \A i \in 1..Len(log[k]) :
    /\ log[k][i].to \in Allowed[log[k][i].from]
    /\ IF i = 1 THEN log[k][i].from = "DRAFT"
       ELSE log[k][i].from = log[k][i - 1].to /\ log[k][i].at > log[k][i - 1].at

\* Every call ends, although the lifecycle's lock of a process that died is never
\* removed and the authority's may be stolen.
CallsEnd == \A p \in Processes : task[p].pc # "idle" ~> task[p].pc = "idle"

=============================================================================
