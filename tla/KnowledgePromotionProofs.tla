------------------------ MODULE KnowledgePromotionProofs ------------------------
(***************************************************************************)
(* The promises of the promotion authority and of the lifecycle for any     *)
(* processes, decisions, faults and executions.  The authority's leased     *)
(* locks play no part in the argument, which rests on the record PREPARED:  *)
(* it is written once, before the lifecycle is asked.  The lifecycle's      *)
(* promise rests on its locks, which nobody but their owner removes.        *)
(***************************************************************************)
EXTENDS KnowledgePromotion, TLAPS

States == DOMAIN Allowed
Events == [decision : Decisions \union {None}, from : States, to : States, at : Int]
Authority == {"lookup", "acquire", "stamp", "steal", "recheck", "prepare", "commit", "doubt",
              "release", "unlink"}
Lifecycle == {"guard", "check", "write", "unguard"}
Labels == Authority \union Lifecycle \union {"idle"}
Tasks == [pc : Labels, decision : Decisions \union {None},
          knowledge : Knowledge \union {None}, from : States, to : States, at : Int,
          execution : Int, tries : Int, ok : BOOLEAN]

\* A call knows its knowledge, a promotion its decision, and both a legal transition.
Formed(t) ==
  /\ t.pc \in Authority => t.decision \in Decisions
  /\ t.pc # "idle" => t.knowledge \in Knowledge /\ t.to \in Allowed[t.from]
  /\ t.decision # None => t.knowledge = KnowledgeOf[t.decision]

TasksOK == task \in [Processes -> Tasks] /\ \A p \in Processes : Formed(task[p])
RestOK ==
  /\ log \in [Knowledge -> Seq(Events)]
  /\ guards \in [Knowledge -> Processes \union {None}]
  /\ requests \in [Decisions -> Int]
  /\ granted \subseteq Decisions
  /\ clock \in Int /\ executions \in Int /\ lost \in BOOLEAN

\* Whoever asks the lifecycle for a promotion has PREPARED on record.
Asked(t) ==
  t.decision # None /\ t.pc \in Lifecycle => <<t.decision, "PREPARED">> \in records

\* The lifecycle answers with success once the event is on its log.
Answered(t) ==
  t.decision # None /\ (t.pc = "commit" \/ (t.pc = "unguard" /\ t.ok)) =>
    Recorded(log[KnowledgeOf[t.decision]], t.decision)

\* Whoever holds the lifecycle's lock has made it, and what it will write still fits.
Guarded(p) ==
  /\ task[p].pc \in {"check", "write", "unguard"} => guards[task[p].knowledge] = p
  /\ task[p].pc = "write" => Accepts(log[task[p].knowledge], EventOf(p))

RequestInv == lost \/ \A d \in Decisions : requests[d] <= 1 /\ (requests[d] = 1 => <<d, "PREPARED">> \in records)

Types == TasksOK /\ RestOK

Invariant ==
  /\ \A p \in Processes : Answered(task[p]) /\ Guarded(p)
  /\ lost \/ \A p \in Processes : Asked(task[p])
  /\ RequestInv /\ EvidenceFirst /\ CommittedAgrees /\ LifecycleLegal
-----------------------------------------------------------------------------
USE DEF Authority, Lifecycle, Labels

\* The stages of the life cycle, and that its transitions stay among them.
LEMMA AllowedFacts ==
  /\ States = {"DRAFT", "VERIFIED", "ACTIVE", "SUPERSEDED", "RETIRED", "ARCHIVED"}
  /\ "ACTIVE" \in Allowed["VERIFIED"] /\ "DRAFT" \in States /\ "VERIFIED" \in States /\ "ACTIVE" \in States
  /\ \A s \in States : Allowed[s] \subseteq States
BY DEF States, Allowed

\* A process without a call is well formed and has nothing to show.
LEMMA NoTaskFacts ==
  /\ NoTask \in Tasks /\ Formed(NoTask) /\ Asked(NoTask) /\ Answered(NoTask)
  /\ NoTask.pc = "idle" /\ NoTask.decision = None
BY AllowedFacts DEF NoTask, Tasks, Formed, Asked, Answered

\* A process goes on with a well-formed call at any label the call has what it needs for.
LEMMA ContinueOK ==
  ASSUME TasksOK, NEW p \in Processes, NEW call \in Tasks, Formed(call), call.pc # "idle",
         NEW label \in Labels, Continue(p, call, label),
         label \in Authority => call.decision \in Decisions
  PROVE  TasksOK'
<1>1. PICK t \in Tasks : Formed(t) /\ task' = [task EXCEPT ![p] = t]
  <2>1. CASE label = "idle"
    BY <2>1, NoTaskFacts DEF Continue
  <2>2. CASE label # "idle"
    <3>1. [call EXCEPT !.pc = label] \in Tasks
      BY DEF Tasks
    <3>2. Formed([call EXCEPT !.pc = label])
      BY <3>1 DEF Formed, Tasks
    <3> QED
      BY <2>2, <3>1, <3>2 DEF Continue
  <2> QED
    BY <2>1, <2>2
<1> QED
  BY <1>1 DEF TasksOK

\* The same for a process that keeps its call.
LEMMA GotoOK ==
  ASSUME TasksOK, NEW p \in Processes, task[p].pc # "idle", NEW label \in Labels, Goto(p, label),
         label \in Authority => task[p].decision \in Decisions
  PROVE  TasksOK'
<1>1. task[p] \in Tasks /\ Formed(task[p])
  BY DEF TasksOK
<1> QED
  BY <1>1, ContinueOK DEF Goto

\* The initial states are well typed.
LEMMA TypeInit == Init => Types
<1> SUFFICES ASSUME Init PROVE Types
  OBVIOUS
<1> DEFINE e == [decision |-> None, from |-> "DRAFT", to |-> "VERIFIED", at |-> 0]
<1>1. e \in Events
  BY AllowedFacts DEF Events
<1>2. <<>> \in Seq(Events) /\ <<e>> \in Seq(Events)
  BY <1>1
<1>3. log \in [Knowledge -> Seq(Events)]
  BY <1>2 DEF Init
<1>4. RestOK
  <2>1. guards \in [Knowledge -> Processes \union {None}]
    BY DEF Init
  <2>2. requests \in [Decisions -> Int]
    BY DEF Init
  <2>3. granted = {} /\ clock = 1 /\ executions = 0 /\ lost \in BOOLEAN
    BY Zenon DEF Init
  <2> QED
    BY <1>3, <2>1, <2>2, <2>3 DEF RestOK
<1> QED
  BY <1>4, NoTaskFacts DEF Init, Types, TasksOK

\* Every step keeps the types.
LEMMA TypeStep == Types /\ [Next]_vars => Types'
<1> SUFFICES ASSUME Types, [Next]_vars PROVE Types'
  OBVIOUS
<1> USE DEF Types
<1>1. ASSUME NEW p \in Processes, Lookup(p) PROVE Types'
  <2>0. task[p] \in Tasks /\ Formed(task[p])
    BY DEF TasksOK
  <2>1. TasksOK'
    BY <1>1, <2>0, GotoOK, ContinueOK DEF Lookup, Return, Formed, Tasks
  <2>2. RestOK'
    BY <1>1, <2>0 DEF RestOK, world, Lookup, Return, Tasks, Formed
  <2> QED
    BY <2>1, <2>2
<1>2. ASSUME NEW p \in Processes, Acquire(p) PROVE Types'
  <2>0. task[p] \in Tasks /\ Formed(task[p])
    BY DEF TasksOK
  <2>1. TasksOK'
    BY <1>2, <2>0, GotoOK, ContinueOK DEF Acquire, Formed, Tasks
  <2>2. RestOK'
    BY <1>2, <2>0 DEF RestOK, world, Acquire, Tasks, Formed
  <2> QED
    BY <2>1, <2>2
<1>3. ASSUME NEW p \in Processes, Stamp(p) PROVE Types'
  <2>0. task[p] \in Tasks /\ Formed(task[p])
    BY DEF TasksOK
  <2>1. TasksOK'
    BY <1>3, <2>0, GotoOK, ContinueOK DEF Stamp, Formed, Tasks
  <2>2. RestOK'
    BY <1>3, <2>0 DEF RestOK, world, Stamp, Tasks, Formed
  <2> QED
    BY <2>1, <2>2
<1>4. ASSUME NEW p \in Processes, Steal(p) PROVE Types'
  <2>0. task[p] \in Tasks /\ Formed(task[p])
    BY DEF TasksOK
  <2>1. TasksOK'
    BY <1>4, <2>0, GotoOK, ContinueOK DEF Steal, Formed, Tasks
  <2>2. RestOK'
    BY <1>4, <2>0 DEF RestOK, world, Steal, Tasks, Formed
  <2> QED
    BY <2>1, <2>2
<1>5. ASSUME NEW p \in Processes, Recheck(p) PROVE Types'
  <2>0. task[p] \in Tasks /\ Formed(task[p])
    BY DEF TasksOK
  <2>1. TasksOK'
    <3>1. [task[p] EXCEPT !.at = clock] \in Tasks /\ Formed([task[p] EXCEPT !.at = clock])
      BY <2>0 DEF RestOK, Formed, Tasks
    <3>2. [task[p] EXCEPT !.at = clock].pc = "recheck" /\ [task[p] EXCEPT !.at = clock].decision \in Decisions
      BY <1>5, <2>0 DEF Recheck, Formed, Tasks
    <3>3. CASE Return(p, "release")
      BY <1>5, <2>0, <3>3, GotoOK DEF Recheck, Return, Formed
    <3>4. CASE Continue(p, [task[p] EXCEPT !.at = clock], "prepare")
      BY <3>1, <3>2, <3>4, ContinueOK
    <3> QED
      BY <1>5, <3>3, <3>4 DEF Recheck
  <2>2. RestOK'
    BY <1>5, <2>0 DEF RestOK, world, Recheck, Return, Tasks, Formed
  <2> QED
    BY <2>1, <2>2
<1>6. ASSUME NEW p \in Processes, Prepare(p) PROVE Types'
  <2>0. task[p] \in Tasks /\ Formed(task[p])
    BY DEF TasksOK
  <2>1. TasksOK'
    BY <1>6, <2>0, GotoOK, ContinueOK DEF Prepare, Formed, Tasks
  <2>2. RestOK'
    <3>1. task[p].decision \in Decisions
      BY <1>6, <2>0 DEF Prepare, Formed
    <3>2. requests' \in [Decisions -> Int]
      <4>1. \/ requests' = [requests EXCEPT ![task[p].decision] = @ + 1]
            \/ requests' = requests
        BY <1>6, Zenon DEF Prepare
      <4>2. requests \in [Decisions -> Int]
        BY DEF RestOK
      <4> QED
        BY <3>1, <4>1, <4>2
    <3> QED
      <4>1. UNCHANGED <<log, guards, granted, clock, executions, lost>>
        BY <1>6 DEF Prepare, world
      <4> QED
        BY <3>2, <4>1 DEF RestOK
  <2> QED
    BY <2>1, <2>2
<1>7. ASSUME NEW p \in Processes, Commit(p) PROVE Types'
  <2>0. task[p] \in Tasks /\ Formed(task[p])
    BY DEF TasksOK
  <2>1. TasksOK'
    BY <1>7, <2>0, GotoOK, ContinueOK DEF Commit, Return, Formed, Tasks
  <2>2. RestOK'
    BY <1>7, <2>0 DEF RestOK, world, Commit, Return, Tasks, Formed
  <2> QED
    BY <2>1, <2>2
<1>8. ASSUME NEW p \in Processes, Doubt(p) PROVE Types'
  <2>0. task[p] \in Tasks /\ Formed(task[p])
    BY DEF TasksOK
  <2>1. TasksOK'
    BY <1>8, <2>0, GotoOK, ContinueOK DEF Doubt, Formed, Tasks
  <2>2. RestOK'
    BY <1>8, <2>0 DEF RestOK, world, Doubt, Tasks, Formed
  <2> QED
    BY <2>1, <2>2
<1>9. ASSUME NEW p \in Processes, Release(p) PROVE Types'
  <2>0. task[p] \in Tasks /\ Formed(task[p])
    BY DEF TasksOK
  <2>1. TasksOK'
    BY <1>9, <2>0, GotoOK, ContinueOK DEF Release, Formed, Tasks
  <2>2. RestOK'
    BY <1>9, <2>0 DEF RestOK, world, Release, Tasks, Formed
  <2> QED
    BY <2>1, <2>2
<1>10. ASSUME NEW p \in Processes, Unlink(p) PROVE Types'
  <2>0. task[p] \in Tasks /\ Formed(task[p])
    BY DEF TasksOK
  <2>1. TasksOK'
    BY <1>10, <2>0, GotoOK, ContinueOK DEF Unlink, Formed, Tasks
  <2>2. RestOK'
    BY <1>10, <2>0 DEF RestOK, world, Unlink, Tasks, Formed
  <2> QED
    BY <2>1, <2>2
<1>11. ASSUME NEW p \in Processes, Guard(p) PROVE Types'
  <2>0. task[p] \in Tasks /\ Formed(task[p])
    BY DEF TasksOK
  <2>1. TasksOK'
    BY <1>11, <2>0, GotoOK, ContinueOK DEF Guard, Reply, Formed, Tasks
  <2>2. RestOK'
    BY <1>11, <2>0 DEF RestOK, world, Guard, Reply, Tasks, Formed
  <2> QED
    BY <2>1, <2>2
<1>12. ASSUME NEW p \in Processes, GuardTimeout(p) PROVE Types'
  <2>0. task[p] \in Tasks /\ Formed(task[p])
    BY DEF TasksOK
  <2>1. TasksOK'
    BY <1>12, <2>0, GotoOK, ContinueOK DEF GuardTimeout, Reply, Formed, Tasks
  <2>2. RestOK'
    BY <1>12, <2>0 DEF RestOK, world, GuardTimeout, Reply, Tasks, Formed
  <2> QED
    BY <2>1, <2>2
<1>13. ASSUME NEW p \in Processes, Check(p) PROVE Types'
  <2>0. task[p] \in Tasks /\ Formed(task[p])
    BY DEF TasksOK
  <2>1. TasksOK'
    BY <1>13, <2>0, GotoOK, ContinueOK DEF Check, Formed, Tasks
  <2>2. RestOK'
    BY <1>13, <2>0 DEF RestOK, world, Check, Tasks, Formed
  <2> QED
    BY <2>1, <2>2
<1>14. ASSUME NEW p \in Processes, Write(p) PROVE Types'
  <2>0. task[p] \in Tasks /\ Formed(task[p])
    BY DEF TasksOK
  <2>1. TasksOK'
    BY <1>14, <2>0, GotoOK, ContinueOK DEF Write, Formed, Tasks
  <2>2. RestOK'
    <3>1. EventOf(p) \in Events
      BY <2>0 DEF EventOf, Events, Tasks
    <3>2. task[p].knowledge \in Knowledge
      BY <1>14, <2>0 DEF Write, Formed
    <3>3. Append(log[task[p].knowledge], EventOf(p)) \in Seq(Events)
      BY <3>1, <3>2 DEF RestOK
    <3>4. log' \in [Knowledge -> Seq(Events)]
      BY <1>14, <3>2, <3>3 DEF RestOK, Write
    <3> QED
      BY <1>14, <3>4 DEF RestOK, Write, world
  <2> QED
    BY <2>1, <2>2
<1>15. ASSUME NEW p \in Processes, Unguard(p) PROVE Types'
  <2>0. task[p] \in Tasks /\ Formed(task[p])
    BY DEF TasksOK
  <2>1. TasksOK'
    BY <1>15, <2>0, GotoOK, ContinueOK DEF Unguard, Reply, Formed, Tasks
  <2>2. RestOK'
    BY <1>15, <2>0 DEF RestOK, world, Unguard, Reply, Tasks, Formed
  <2> QED
    BY <2>1, <2>2
<1>16. ASSUME NEW p \in Processes, Crash(p) PROVE Types'
  <2>0. task[p] \in Tasks /\ Formed(task[p])
    BY DEF TasksOK
  <2>1. TasksOK'
    BY <1>16, <2>0, GotoOK, ContinueOK DEF Crash, Formed, Tasks
  <2>2. RestOK'
    BY <1>16, <2>0 DEF RestOK, world, Crash, Tasks, Formed
  <2> QED
    BY <2>1, <2>2
<1>17. ASSUME NEW p \in Processes, NEW d \in Decisions, Begin(p, d) PROVE Types'
  <2> DEFINE t == [NoTask EXCEPT !.decision = d, !.knowledge = KnowledgeOf[d], !.from = "VERIFIED",
                                  !.to = "ACTIVE", !.execution = executions']
             u == [t EXCEPT !.pc = "lookup"]
  <2>1. executions' = executions + 1 /\ UNCHANGED <<log, guards, requests, granted, clock, lost>>
    BY <1>17 DEF Begin
  <2>2. t \in Tasks /\ t.decision = d /\ t.knowledge = KnowledgeOf[d] /\ t.from = "VERIFIED" /\ t.to = "ACTIVE"
    <3>1. KnowledgeOf[d] \in Knowledge /\ executions' \in Int /\ "VERIFIED" \in States /\ "ACTIVE" \in States
      BY <2>1, AllowedFacts, PromotionAssumption DEF RestOK
    <3>2. NoTask \in Tasks
      BY NoTaskFacts
    <3> QED
      BY ONLY <3>1, <3>2, d \in Decisions DEF Tasks
  <2>3. task' = [task EXCEPT ![p] = u]
    <3>1. Continue(p, t, "lookup")
      BY <1>17 DEF Begin
    <3> HIDE DEF t
    <3> QED
      BY <3>1 DEF Continue
  <2> HIDE DEF t
  <2>4. u \in Tasks /\ Formed(u)
    BY <2>2, AllowedFacts, PromotionAssumption DEF Formed, Tasks
  <2>5. TasksOK'
    <3> HIDE DEF u
    <3> QED
      BY <2>3, <2>4 DEF TasksOK
  <2>6. RestOK'
    BY <2>1 DEF RestOK
  <2> QED
    BY <2>5, <2>6
<1>18. ASSUME NEW p \in Processes, NEW j \in Knowledge, NEW o \in Others, Transition(p, j, o[1], o[2]) PROVE Types'
  <2>0. o[1] \in States /\ o[2] \in Allowed[o[1]] /\ o[2] \in States
    BY AllowedFacts, PromotionAssumption DEF States
  <2> DEFINE t == [NoTask EXCEPT !.knowledge = j, !.from = o[1], !.to = o[2], !.at = clock,
                                  !.execution = executions']
             u == [t EXCEPT !.pc = "guard"]
  <2>1. executions' = executions + 1 /\ UNCHANGED <<log, guards, requests, granted, clock, lost>>
    BY <1>18 DEF Transition
  <2>2. t \in Tasks /\ t.decision = None /\ t.knowledge = j /\ t.from = o[1] /\ t.to = o[2]
    <3>1. executions' \in Int /\ clock \in Int
      BY <2>1 DEF RestOK
    <3>2. NoTask \in Tasks /\ NoTask.decision = None
      BY NoTaskFacts
    <3> QED
      BY ONLY <2>0, <3>1, <3>2, j \in Knowledge DEF Tasks
  <2>3. task' = [task EXCEPT ![p] = u]
    <3>1. Continue(p, t, "guard")
      BY <1>18 DEF Transition
    <3> HIDE DEF t
    <3> QED
      BY <3>1 DEF Continue
  <2> HIDE DEF t
  <2>4. u \in Tasks /\ Formed(u)
    BY <2>2, <2>0 DEF Formed, Tasks
  <2>5. TasksOK'
    <3> HIDE DEF u
    <3> QED
      BY <2>3, <2>4 DEF TasksOK
  <2>6. RestOK'
    BY <2>1 DEF RestOK
  <2> QED
    BY <2>5, <2>6
<1>19. ASSUME NEW s \in Slots, Expire(s) PROVE Types'
  BY <1>19 DEF Expire, world, TasksOK, RestOK
<1>20. CASE Pass
  BY <1>20 DEF Pass, TasksOK, RestOK
<1>21. CASE PowerLoss
  BY <1>21, NoTaskFacts DEF PowerLoss, TasksOK, RestOK
<1>22. CASE UNCHANGED vars
  BY <1>22 DEF vars, TasksOK, RestOK
<1> QED
  BY <1>1, <1>2, <1>3, <1>4, <1>5, <1>6, <1>7, <1>8, <1>9, <1>10, <1>11, <1>12, <1>13, <1>14, <1>15, <1>16, <1>17, <1>18, <1>19, <1>20, <1>21, <1>22 DEF Next, Step

-----------------------------------------------------------------------------
\* Where a step leaves its process, and that it leaves every other one alone.
LEMMA Shape ==
  ASSUME TasksOK, NEW p \in Processes, NEW call \in Tasks, NEW label \in Labels, Continue(p, call, label)
  PROVE  /\ \A q \in Processes : q # p => task'[q] = task[q]
         /\ task'[p].pc = label
         /\ label = "idle" => task'[p] = NoTask
         /\ label # "idle" => task'[p] = [call EXCEPT !.pc = label]
<1>1. task'[p] = IF label = "idle" THEN NoTask ELSE [call EXCEPT !.pc = label]
  BY DEF Continue, TasksOK
<1>2. \A q \in Processes : q # p => task'[q] = task[q]
  BY DEF Continue, TasksOK
<1> QED
  BY <1>1, <1>2, NoTaskFacts DEF Tasks

\* The same for a process that keeps its call.
LEMMA GotoShape ==
  ASSUME TasksOK, NEW p \in Processes, NEW label \in Labels, Goto(p, label)
  PROVE  /\ \A q \in Processes : q # p => task'[q] = task[q]
         /\ task'[p].pc = label
         /\ label = "idle" => task'[p] = NoTask
         /\ label # "idle" => task'[p] = [task[p] EXCEPT !.pc = label]
BY Shape DEF Goto, TasksOK

\* An event on a log stays there, and only its own is added.
LEMMA Recording ==
  ASSUME NEW h \in Seq(Events), NEW e \in Events, NEW d
  PROVE  Recorded(Append(h, e), d) <=> Recorded(h, d) \/ e.decision = d
<1> DEFINE g == Append(h, e)
<1>1. Len(g) = Len(h) + 1 /\ g[Len(h) + 1] = e /\ \A i \in 1..Len(h) : g[i] = h[i]
  OBVIOUS
<1>2. Len(h) \in Nat
  OBVIOUS
<1> HIDE DEF g
<1>3. ASSUME Recorded(g, d) PROVE Recorded(h, d) \/ e.decision = d
  BY <1>1, <1>2, <1>3 DEF Recorded
<1>4. ASSUME Recorded(h, d) PROVE Recorded(g, d)
  BY <1>1, <1>2, <1>4 DEF Recorded
<1>5. ASSUME e.decision = d PROVE Recorded(g, d)
  <2>1. Len(h) + 1 \in 1..Len(g)
    BY <1>1, <1>2
  <2> QED
    BY <1>1, <1>5, <2>1 DEF Recorded
<1> QED
  BY <1>3, <1>4, <1>5 DEF g

\* The part of the invariant that speaks of one process, and the part that does not.
Local(p) == Answered(task[p]) /\ Guarded(p) /\ (lost \/ Asked(task[p]))
Shared == RequestInv /\ EvidenceFirst /\ CommittedAgrees /\ LifecycleLegal

\* The invariant is its two parts.
LEMMA Split == Types => (Invariant <=> Shared /\ \A p \in Processes : Local(p))
<1> SUFFICES ASSUME Types PROVE Invariant <=> Shared /\ \A p \in Processes : Local(p)
  OBVIOUS
<1> QED
  BY Zenon DEF Invariant, Shared, Local

\* A process that neither asks the lifecycle nor has its answer is not concerned.
LEMMA Aside ==
  ASSUME NEW p \in Processes, task[p].pc \notin Lifecycle \union {"commit"}
  PROVE  Local(p)
BY DEF Local, Answered, Guarded, Asked

\* Nor is one that stays where it is while logs and locks do.
LEMMA Apart ==
  ASSUME NEW q \in Processes, Local(q), task'[q] = task[q],
         UNCHANGED <<log, guards>>, lost => lost', lost' \/ records \subseteq records'
  PROVE  Local(q)'
BY DEF Local, Answered, Guarded, Asked, EventOf

\* The steps of the authority that neither ask the lifecycle nor take its answer.
Quiet(p) ==
  \/ Lookup(p) \/ Acquire(p) \/ Stamp(p) \/ Steal(p) \/ Recheck(p)
  \/ Doubt(p) \/ Release(p) \/ Unlink(p) \/ Crash(p)

\* What those steps leave as it is, and the one record they may add.
LEMMA QuietMoves ==
  ASSUME TasksOK, RestOK, NEW p \in Processes, Quiet(p)
  PROVE  /\ task'[p].pc \notin Lifecycle \union {"commit"}
         /\ \A q \in Processes : q # p => task'[q] = task[q]
         /\ UNCHANGED <<log, guards, requests, lost>> /\ records \subseteq records'
         /\ records' \subseteq records \union {<<task[p].decision, "IN_DOUBT">>}
         /\ \A d \in granted' : d \in granted \/ <<d, "COMMITTED">> \in records
<1> DEFINE Elsewhere == (Authority \ {"commit"}) \union {"idle"}
<1>0. task[p] \in Tasks
  BY DEF TasksOK
<1>1. \E call \in Tasks, label \in Elsewhere : Continue(p, call, label)
  <2>1. CASE Recheck(p)
    <3>1. [task[p] EXCEPT !.at = clock] \in Tasks
      BY <1>0 DEF Tasks, RestOK
    <3> QED
      BY <1>0, <2>1, <3>1 DEF Recheck, Return, Goto
  <2>2. CASE Steal(p)
    <3>1. [task[p] EXCEPT !.tries = @ + 1] \in Tasks
      BY <1>0 DEF Tasks
    <3> QED
      BY <2>2, <3>1 DEF Steal
  <2>3. CASE Lookup(p)
    BY <1>0, <2>3 DEF Lookup, Return, Goto
  <2>4. CASE Acquire(p)
    BY <1>0, <2>4 DEF Acquire, Goto
  <2>5. CASE Stamp(p)
    BY <1>0, <2>5 DEF Stamp, Goto
  <2>6. CASE Doubt(p)
    BY <1>0, <2>6 DEF Doubt, Goto
  <2>7. CASE Release(p)
    BY <1>0, <2>7 DEF Release, Goto
  <2>8. CASE Unlink(p)
    BY <1>0, <2>8 DEF Unlink, Goto
  <2>9. CASE Crash(p)
    BY <1>0, <2>9 DEF Crash, Goto
  <2> QED
    BY <2>1, <2>2, <2>3, <2>4, <2>5, <2>6, <2>7, <2>8, <2>9 DEF Quiet
<1>2. UNCHANGED <<log, guards, requests, lost>>
  BY DEF Quiet, Lookup, Acquire, Stamp, Steal, Recheck, Doubt, Release, Unlink, Crash, world
<1>3. UNCHANGED records \/ Doubt(p)
  BY DEF Quiet, Lookup, Acquire, Stamp, Steal, Recheck, Release, Unlink, Crash
<1>4. Doubt(p) => /\ records \subseteq records'
                  /\ records' \subseteq records \union {<<task[p].decision, "IN_DOUBT">>}
  BY DEF Doubt, Store
<1>5. UNCHANGED granted \/ (/\ granted' = granted \union {task[p].decision}
                            /\ <<task[p].decision, "COMMITTED">> \in records)
  BY DEF Quiet, Lookup, Acquire, Stamp, Steal, Recheck, Doubt, Release, Unlink, Crash, Return
<1>6. /\ task'[p].pc \notin Lifecycle \union {"commit"}
      /\ \A q \in Processes : q # p => task'[q] = task[q]
  BY <1>1, Shape
<1> QED
  BY <1>2, <1>3, <1>4, <1>5, <1>6

\* They keep the invariant.
LEMMA QuietStep ==
  ASSUME Types, Invariant, NEW p \in Processes, Quiet(p)
  PROVE  Shared' /\ \A q \in Processes : Local(q)'
<1> USE QuietMoves DEF Types
<1>1. \A q \in Processes : Local(q)'
  <2> TAKE q \in Processes
  <2>1. CASE q = p
    BY <2>1 DEF Local, Answered, Guarded, Asked
  <2>2. CASE q # p
    BY <2>2, Split, Apart
  <2> QED
    BY <2>1, <2>2
<1>2. RequestInv' /\ EvidenceFirst'
  BY DEF Invariant, RequestInv, EvidenceFirst
<1>3. CommittedAgrees'
  <2>1. \A d : <<d, "COMMITTED">> \in records' => <<d, "COMMITTED">> \in records
    OBVIOUS
  <2> QED
    BY <2>1 DEF Invariant, CommittedAgrees
<1>4. LifecycleLegal'
  BY DEF Invariant, LifecycleLegal
<1> QED
  BY <1>1, <1>2, <1>3, <1>4 DEF Shared

\* Prepare writes PREPARED for a decision never asked about, before it asks.
LEMMA PrepareStep ==
  ASSUME Types, Invariant, NEW p \in Processes, Prepare(p)
  PROVE  Shared' /\ \A q \in Processes : Local(q)'
<1>0. task[p] \in Tasks /\ Formed(task[p]) /\ task[p].decision \in Decisions
  BY DEF Types, TasksOK, Prepare, Formed
<1>1. UNCHANGED <<log, guards, granted, lost>> /\ records \subseteq records'
      /\ records' \subseteq records \union {<<task[p].decision, "PREPARED">>}
  BY DEF Prepare, Store, world
<1>2. \A q \in Processes : q # p => task'[q] = task[q]
  BY GotoShape DEF Prepare, Types
<1>3. ASSUME /\ Store(task[p].decision, "PREPARED", TRUE) /\ Goto(p, "guard")
             /\ requests' = [requests EXCEPT ![task[p].decision] = @ + 1]
      PROVE  Local(p)' /\ RequestInv'
  <2>1. <<task[p].decision, "PREPARED">> \notin records /\ <<task[p].decision, "PREPARED">> \in records'
    BY <1>3 DEF Store
  <2>2. task'[p] = [task[p] EXCEPT !.pc = "guard"]
    BY <1>3, GotoShape DEF Types
  <2>3. task'[p].pc = "guard" /\ task'[p].decision = task[p].decision
    BY <1>0, <2>2 DEF Tasks
  <2>4. Local(p)'
    BY <2>1, <2>3 DEF Local, Answered, Guarded, Asked
  <2>5. RequestInv'
    <3>1. CASE lost
      BY <1>1, <3>1 DEF RequestInv
    <3>2. CASE ~lost
      <4>1. requests[task[p].decision] \in Int /\ requests[task[p].decision] <= 1 /\ requests[task[p].decision] # 1
        BY <1>0, <2>1, <3>2 DEF Types, RestOK, Invariant, RequestInv
      <4>2. \A d \in Decisions : requests'[d] = IF d = task[p].decision THEN requests[d] + 1 ELSE requests[d]
        BY <1>3, <1>0 DEF Types, RestOK
      <4> QED
        BY <1>1, <2>1, <3>2, <4>1, <4>2 DEF Invariant, RequestInv
    <3> QED
      BY <3>1, <3>2
  <2> QED
    BY <2>4, <2>5
<1>4. ASSUME Goto(p, "release") /\ UNCHANGED requests
      PROVE  Local(p)' /\ RequestInv'
  <2>1. task'[p].pc = "release"
    BY <1>4, GotoShape DEF Types
  <2>2. Local(p)'
    BY <2>1 DEF Local, Answered, Guarded, Asked
  <2>3. RequestInv'
    BY <1>1, <1>4 DEF Invariant, RequestInv
  <2> QED
    BY <2>2, <2>3
<1>5. Local(p)' /\ RequestInv'
  BY <1>3, <1>4, Zenon DEF Prepare
<1>6. \A q \in Processes : Local(q)'
  BY <1>1, <1>2, <1>5, Split, Apart
<1>7. EvidenceFirst' /\ LifecycleLegal'
  BY <1>1 DEF Invariant, EvidenceFirst, LifecycleLegal
<1>8. CommittedAgrees'
  <2>1. \A d : <<d, "COMMITTED">> \in records' => <<d, "COMMITTED">> \in records
    BY <1>1
  <2> QED
    BY <1>1, <2>1 DEF Invariant, CommittedAgrees
<1> QED
  BY <1>5, <1>6, <1>7, <1>8 DEF Shared

\* COMMITTED is written for a transition the lifecycle has.
LEMMA CommitStep ==
  ASSUME Types, Invariant, NEW p \in Processes, Commit(p)
  PROVE  Shared' /\ \A q \in Processes : Local(q)'
<1>0. task[p] \in Tasks /\ task[p].pc = "commit" /\ task[p].decision \in Decisions
  BY DEF Types, TasksOK, Commit, Formed
<1>1. UNCHANGED <<log, guards, requests, lost>> /\ records \subseteq records'
      /\ records' \subseteq records \union {<<task[p].decision, "COMMITTED">>}
      /\ granted' \subseteq granted \union {task[p].decision}
  BY DEF Commit, Store, Return, world
<1>2. task'[p].pc \in {"release", "doubt"} /\ \A q \in Processes : q # p => task'[q] = task[q]
  BY GotoShape DEF Commit, Return, Types
<1>3. \A q \in Processes : Local(q)'
  <2>1. Local(p)'
    BY <1>2 DEF Local, Answered, Guarded, Asked
  <2> QED
    BY <1>1, <1>2, <2>1, Split, Apart
<1>4. Recorded(log[KnowledgeOf[task[p].decision]], task[p].decision)
  <2>1. task[p].decision # None
    BY <1>0, PromotionAssumption
  <2> QED
    BY <1>0, <2>1 DEF Invariant, Answered
<1>5. CommittedAgrees'
  <2>1. \A d : <<d, "COMMITTED">> \in records' => <<d, "COMMITTED">> \in records \/ d = task[p].decision
    BY <1>1
  <2> QED
    BY <1>1, <1>4, <2>1 DEF Invariant, CommittedAgrees
<1>6. RequestInv' /\ EvidenceFirst' /\ LifecycleLegal'
  BY <1>1 DEF Invariant, RequestInv, EvidenceFirst, LifecycleLegal
<1> QED
  BY <1>3, <1>5, <1>6 DEF Shared

-----------------------------------------------------------------------------
\* A process keeps what it has while another one takes or gives up a lock.
LEMMA ApartOfLock ==
  ASSUME TasksOK, NEW q \in Processes, Local(q), task'[q] = task[q], UNCHANGED <<log, lost, records>>,
         NEW k \in Knowledge, \A j \in Knowledge : j # k => guards'[j] = guards[j], guards[k] # q
  PROVE  Local(q)'
<1>1. task[q].pc # "idle" => task[q].knowledge \in Knowledge
  BY DEF TasksOK, Formed
<1> QED
  BY <1>1 DEF Local, Answered, Guarded, Asked, EventOf

\* Steps that change locks alone.
LEMMA SharedKept == ASSUME Invariant, UNCHANGED <<records, log, requests, granted, lost>> PROVE Shared'
BY Zenon DEF Invariant, Shared, RequestInv, EvidenceFirst, CommittedAgrees, LifecycleLegal

\* append answers a promotion with commit or doubt, and with success only if it had it.
LEMMA ReplyFacts ==
  ASSUME NEW p \in Processes
  PROVE  /\ Reply(p, FALSE) \in {"idle", "doubt"} /\ Reply(p, FALSE) \in Labels
         /\ \A ok : Reply(p, ok) \in {"idle", "doubt", "commit"} /\ Reply(p, ok) \in Labels
         /\ \A ok : Reply(p, ok) = "commit" => ok /\ task[p].decision # None
BY DEF Reply

\* The lock of the lifecycle is made by one process.
LEMMA GuardStep ==
  ASSUME Types, Invariant, NEW p \in Processes, Guard(p)
  PROVE  Shared' /\ \A q \in Processes : Local(q)'
<1> DEFINE k == task[p].knowledge
<1>0. task[p] \in Tasks /\ Formed(task[p]) /\ k \in Knowledge /\ task[p].pc = "guard" /\ guards[k] = None
  BY DEF Types, TasksOK, Guard, Formed
<1>1. UNCHANGED <<records, log, requests, granted, lost>>
  BY DEF Guard, world
<1>2. \/ guards' = [guards EXCEPT ![k] = p] /\ Goto(p, "check")
      \/ guards' = guards /\ Goto(p, Reply(p, FALSE))
  BY DEF Guard
<1>3. \A q \in Processes : q # p => task'[q] = task[q]
  BY <1>2, GotoShape, ReplyFacts DEF Types
<1>4. ASSUME NEW q \in Processes, q # p PROVE Local(q)'
  <2>1. \A j \in Knowledge : j # k => guards'[j] = guards[j]
    BY <1>2 DEF Types, RestOK
  <2>2. guards[k] # q
    BY <1>0, PromotionAssumption
  <2>3. Local(q)
    BY Split
  <2> HIDE DEF k
  <2> QED
    BY <1>0, <1>1, <1>3, <1>4, <2>1, <2>2, <2>3, ApartOfLock DEF Types
<1>5. Local(p)'
  <2>1. ASSUME guards' = [guards EXCEPT ![k] = p], Goto(p, "check") PROVE Local(p)'
    <3>1. task'[p] = [task[p] EXCEPT !.pc = "check"]
      BY <2>1, GotoShape DEF Types
    <3>2. task'[p].pc = "check" /\ task'[p].knowledge = k /\ task'[p].decision = task[p].decision
      BY <1>0, <3>1 DEF Tasks
    <3>3. guards'[k] = p
      BY <1>0, <2>1 DEF Types, RestOK
    <3> QED
      BY <1>0, <1>1, <3>2, <3>3 DEF Local, Answered, Guarded, Asked, Invariant
  <2>2. ASSUME Goto(p, Reply(p, FALSE)) PROVE Local(p)'
    <3>1. task'[p].pc \in {"idle", "doubt"}
      BY <2>2, GotoShape, ReplyFacts DEF Types
    <3> QED
      BY <3>1 DEF Local, Answered, Guarded, Asked
  <2> QED
    BY <1>2, <2>1, <2>2
<1> QED
  BY <1>1, <1>4, <1>5, SharedKept

\* A process that waited in vain takes nothing.
LEMMA GuardTimeoutStep ==
  ASSUME Types, Invariant, NEW p \in Processes, GuardTimeout(p)
  PROVE  Shared' /\ \A q \in Processes : Local(q)'
<1>1. UNCHANGED <<records, log, guards, requests, granted, lost>>
  BY DEF GuardTimeout, world
<1>2. task'[p].pc \in {"idle", "doubt"} /\ \A q \in Processes : q # p => task'[q] = task[q]
  BY GotoShape, ReplyFacts DEF GuardTimeout, Types
<1>3. Local(p)'
  BY <1>2 DEF Local, Answered, Guarded, Asked
<1> QED
  BY <1>1, <1>2, <1>3, SharedKept, Split, Apart

\* An event found acceptable under the lock, or found on the log.
LEMMA CheckStep ==
  ASSUME Types, Invariant, NEW p \in Processes, Check(p)
  PROVE  Shared' /\ \A q \in Processes : Local(q)'
<1> DEFINE history == log[task[p].knowledge]
           again == task[p].decision # None /\ Recorded(history, task[p].decision)
           same == \E i \in 1..Len(history) : history[i] = EventOf(p)
           call == [task[p] EXCEPT !.ok = again /\ same]
           label == IF ~again /\ Accepts(history, EventOf(p)) THEN "write" ELSE "unguard"
<1>0. task[p] \in Tasks /\ Formed(task[p]) /\ task[p].pc = "check" /\ task[p].knowledge \in Knowledge
  BY DEF Types, TasksOK, Check, Formed
<1>1. UNCHANGED <<records, log, guards, requests, granted, lost>> /\ Continue(p, call, label)
  BY DEF Check, world
<1>2. call \in Tasks /\ label \in {"write", "unguard"}
  BY <1>0 DEF Tasks
<1>3. (\A q \in Processes : q # p => task'[q] = task[q]) /\ task'[p] = [call EXCEPT !.pc = label]
  <2> HIDE DEF call, label
  <2> QED
    BY <1>1, <1>2, Shape DEF Types
<1>4. /\ task'[p].pc = label /\ task'[p].ok = (again /\ same)
      /\ task'[p].knowledge = task[p].knowledge /\ task'[p].decision = task[p].decision
      /\ task'[p].from = task[p].from /\ task'[p].to = task[p].to /\ task'[p].at = task[p].at
  <2> HIDE DEF label, again, same
  <2> QED
    BY <1>0, <1>3 DEF Tasks
<1>5. EventOf(p)' = EventOf(p)
  BY <1>4 DEF EventOf
<1>6. Guarded(p)'
  <2>1. guards[task[p].knowledge] = p
    BY <1>0 DEF Invariant, Guarded
  <2>2. label = "write" => Accepts(history, EventOf(p))
    OBVIOUS
  <2> HIDE DEF label, again, same
  <2> QED
    BY <1>1, <1>2, <1>4, <1>5, <2>1, <2>2 DEF Guarded
<1>7. Answered(task[p])'
  <2>1. (again /\ same) => Recorded(history, task[p].decision)
    OBVIOUS
  <2>2. task[p].decision # None => task[p].knowledge = KnowledgeOf[task[p].decision]
    BY <1>0 DEF Formed
  <2> HIDE DEF label, again, same
  <2> QED
    BY <1>1, <1>2, <1>4, <2>1, <2>2 DEF Answered
<1>8. (lost \/ Asked(task[p]))'
  <2> HIDE DEF label, again, same
  <2> QED
    BY <1>0, <1>1, <1>2, <1>4 DEF Asked, Invariant
<1>9. Local(p)'
  BY <1>6, <1>7, <1>8 DEF Local
<1> QED
  BY <1>1, <1>3, <1>9, SharedKept, Split, Apart

\* The lock is removed by the process that made it.
LEMMA UnguardStep ==
  ASSUME Types, Invariant, NEW p \in Processes, Unguard(p)
  PROVE  Shared' /\ \A q \in Processes : Local(q)'
<1> DEFINE k == task[p].knowledge
<1>0. task[p] \in Tasks /\ Formed(task[p]) /\ task[p].pc = "unguard" /\ k \in Knowledge /\ guards[k] = p
  BY DEF Types, TasksOK, Unguard, Formed, Invariant, Guarded
<1>1. UNCHANGED <<records, log, requests, granted, lost>>
  BY DEF Unguard, world
<1>2. \/ guards' = [guards EXCEPT ![k] = None] /\ Goto(p, Reply(p, task[p].ok))
      \/ guards' = guards /\ Goto(p, Reply(p, FALSE))
  BY DEF Unguard
<1>3. \A q \in Processes : q # p => task'[q] = task[q]
  BY <1>2, GotoShape, ReplyFacts DEF Types
<1>4. ASSUME NEW q \in Processes, q # p PROVE Local(q)'
  <2>1. \A j \in Knowledge : j # k => guards'[j] = guards[j]
    BY <1>2 DEF Types, RestOK
  <2>2. guards[k] # q /\ Local(q)
    BY <1>0, <1>4, Split
  <2> HIDE DEF k
  <2> QED
    BY <1>0, <1>1, <1>3, <1>4, <2>1, <2>2, ApartOfLock DEF Types
<1>5. Local(p)'
  <2>1. PICK ok \in {task[p].ok, FALSE} : Goto(p, Reply(p, ok))
    BY <1>2
  <2>2. /\ task'[p].pc = Reply(p, ok)
        /\ Reply(p, ok) # "idle" => task'[p] = [task[p] EXCEPT !.pc = Reply(p, ok)]
    BY <2>1, GotoShape, ReplyFacts DEF Types
  <2>3. CASE Reply(p, ok) = "commit"
    <3>1. task[p].ok /\ task[p].decision # None
      <4>1. Reply(p, task[p].ok) = "commit"
        BY <2>3, ReplyFacts
      <4> QED
        BY <4>1, Zenon DEF Reply
    <3>2. Recorded(log[KnowledgeOf[task[p].decision]], task[p].decision)
      BY <1>0, <3>1 DEF Invariant, Answered
    <3>3. task'[p].decision = task[p].decision /\ task'[p].pc = "commit"
      BY <1>0, <2>2, <2>3 DEF Tasks
    <3> QED
      BY <1>1, <3>2, <3>3 DEF Local, Answered, Guarded, Asked
  <2>4. CASE Reply(p, ok) # "commit"
    <3>1. task'[p].pc \in {"idle", "doubt"}
      BY <2>2, <2>4, ReplyFacts
    <3> QED
      BY <3>1 DEF Local, Answered, Guarded, Asked
  <2> QED
    BY <2>3, <2>4
<1> QED
  BY <1>1, <1>4, <1>5, SharedKept

\* The event still fits when it is written, and no other event leaves the log.
LEMMA WriteStep ==
  ASSUME Types, Invariant, NEW p \in Processes, Write(p)
  PROVE  Shared' /\ \A q \in Processes : Local(q)'
<1> DEFINE k == task[p].knowledge
<1>0. task[p] \in Tasks /\ Formed(task[p]) /\ task[p].pc = "write" /\ k \in Knowledge /\ guards[k] = p
      /\ Accepts(log[k], EventOf(p)) /\ Answered(task[p]) /\ (lost \/ Asked(task[p]))
  BY DEF Types, TasksOK, Write, Formed, Invariant, Guarded
<1>1. UNCHANGED <<records, guards, requests, granted, lost>>
  BY DEF Write, world
<1>2. PICK written \in BOOLEAN, ok \in BOOLEAN :
        /\ ok => written
        /\ Continue(p, [task[p] EXCEPT !.ok = ok], "unguard")
        /\ log' = IF written THEN [log EXCEPT ![k] = Append(@, EventOf(p))] ELSE log
  BY DEF Write
<1>3. /\ \A q \in Processes : q # p => task'[q] = task[q]
      /\ task'[p].pc = "unguard" /\ task'[p].ok = ok
      /\ task'[p].knowledge = k /\ task'[p].decision = task[p].decision
  <2> DEFINE call == [task[p] EXCEPT !.ok = ok]
  <2>1. call \in Tasks /\ call.ok = ok /\ call.knowledge = k /\ call.decision = task[p].decision
    BY <1>0 DEF Tasks
  <2>2. Continue(p, call, "unguard")
    BY <1>2
  <2> HIDE DEF call
  <2>3. task'[p] = [call EXCEPT !.pc = "unguard"] /\ \A q \in Processes : q # p => task'[q] = task[q]
    BY <2>1, <2>2, Shape DEF Types
  <2> QED
    BY <2>1, <2>3 DEF Tasks
<1>e. EventOf(p) \in Events /\ EventOf(p).decision = task[p].decision
      /\ EventOf(p).from = task[p].from /\ EventOf(p).to = task[p].to
  BY <1>0 DEF EventOf, Events, Tasks
<1>4. \A j \in Knowledge : log[j] \in Seq(Events) /\ (j # k => log'[j] = log[j])
  BY <1>2 DEF Types, RestOK
<1>5. log'[k] = IF written THEN Append(log[k], EventOf(p)) ELSE log[k]
  BY <1>0, <1>2 DEF Types, RestOK
<1>6. \A j \in Knowledge : \A d : Recorded(log[j], d) => Recorded(log'[j], d)
  BY <1>4, <1>5, <1>e, Recording
<1>7. \A j \in Knowledge : \A d : Recorded(log'[j], d) => Recorded(log[j], d) \/ d = task[p].decision
  BY <1>4, <1>5, <1>e, Recording
<1>8. \A d \in Decisions : KnowledgeOf[d] \in Knowledge /\ d # None
  BY PromotionAssumption
<1>9. ASSUME NEW q \in Processes, q # p PROVE Local(q)'
  <2>1. task'[q] = task[q] /\ task[q] \in Tasks /\ Formed(task[q])
    BY <1>3, <1>9 DEF Types, TasksOK
  <2>2. Local(q)
    BY Split
  <2>3. Answered(task[q])'
    BY <1>6, <1>8, <2>1, <2>2 DEF Answered, Local, Tasks
  <2>4. Guarded(q)'
    <3>1. task[q].pc = "write" => task[q].knowledge # k
      BY <1>0, <1>9, <2>2 DEF Local, Guarded
    <3>2. EventOf(q)' = EventOf(q)
      BY <2>1 DEF EventOf
    <3>3. task[q].pc = "write" => log'[task[q].knowledge] = log[task[q].knowledge]
      BY <1>4, <2>1, <3>1 DEF Formed
    <3> QED
      BY <1>1, <2>1, <2>2, <3>2, <3>3 DEF Guarded, Local
  <2>5. (lost \/ Asked(task[q]))'
    BY <1>1, <2>1, <2>2 DEF Asked, Local
  <2> QED
    BY <2>3, <2>4, <2>5 DEF Local
<1>10. Local(p)'
  <2>1. Guarded(p)'
    BY <1>0, <1>1, <1>3 DEF Guarded
  <2>2. Answered(task[p])'
    <3>1. ASSUME ok, task[p].decision # None PROVE Recorded(log'[KnowledgeOf[task[p].decision]], task[p].decision)
      <4>1. KnowledgeOf[task[p].decision] = k
        BY <1>0, <3>1 DEF Formed
      <4>2. log'[k] = Append(log[k], EventOf(p))
        BY <1>2, <1>5, <3>1
      <4> QED
        BY <1>0, <1>4, <1>e, <4>1, <4>2, Recording
    <3> QED
      BY <1>3, <3>1 DEF Answered
  <2>3. (lost \/ Asked(task[p]))'
    BY <1>0, <1>1, <1>3 DEF Asked
  <2> QED
    BY <2>1, <2>2, <2>3 DEF Local
<1>11. RequestInv'
  BY <1>1 DEF Invariant, RequestInv
<1>12. EvidenceFirst'
  <2>1. lost \/ \A d \in Decisions : d = task[p].decision => <<d, "PREPARED">> \in records
    BY <1>0, <1>8 DEF Asked
  <2> QED
    BY <1>1, <1>7, <1>8, <2>1 DEF Invariant, EvidenceFirst
<1>13. CommittedAgrees'
  BY <1>1, <1>6, <1>8 DEF Invariant, CommittedAgrees
<1>14. LifecycleLegal'
  <2> DEFINE Legal(h) == \A i \in 1..Len(h) :
               /\ h[i].to \in Allowed[h[i].from]
               /\ IF i = 1 THEN h[i].from = "DRAFT" ELSE h[i].from = h[i - 1].to /\ h[i].at > h[i - 1].at
  <2>1. \A j \in Knowledge : Legal(log[j])
    BY DEF Invariant, LifecycleLegal
  <2>2. Legal(Append(log[k], EventOf(p)))
    <3> DEFINE h == log[k]  g == Append(log[k], EventOf(p))  n == Len(h) + 1
    <3>1. h \in Seq(Events) /\ Len(h) \in Nat
      BY <1>0, <1>4
    <3>2. Len(g) = n /\ g[n] = EventOf(p) /\ \A i \in 1..Len(h) : g[i] = h[i]
      BY <1>e, <3>1
    <3>3. EventOf(p).to \in Allowed[EventOf(p).from]
      BY <1>0, <1>e DEF Formed
    <3>4. IF n = 1 THEN EventOf(p).from = "DRAFT"
          ELSE EventOf(p).from = h[n - 1].to /\ EventOf(p).at > h[n - 1].at
      <4>1. CASE h = <<>>
        BY <1>0, <4>1 DEF Accepts
      <4>2. CASE h # <<>>
        <5>1. Len(h) # 0
          BY <3>1, <4>2
        <5> QED
          BY <1>0, <3>1, <4>2, <5>1 DEF Accepts
      <4> QED
        BY <4>1, <4>2
    <3>5. Legal(h)
      BY <1>0, <2>1
    <3> SUFFICES ASSUME NEW i \in 1..Len(g)
                 PROVE  /\ g[i].to \in Allowed[g[i].from]
                        /\ IF i = 1 THEN g[i].from = "DRAFT" ELSE g[i].from = g[i - 1].to /\ g[i].at > g[i - 1].at
      OBVIOUS
    <3> HIDE DEF g, h
    <3>6. CASE i = n
      BY <3>1, <3>2, <3>3, <3>4, <3>6
    <3>7. CASE i # n
      <4>1. i \in 1..Len(h) /\ (i # 1 => i - 1 \in 1..Len(h))
        BY <3>1, <3>2, <3>7
      <4> QED
        BY <3>2, <3>5, <4>1
    <3> QED
      BY <3>6, <3>7
  <2>3. \A j \in Knowledge : Legal(log'[j])
    <3> HIDE DEF Legal
    <3> QED
      BY <1>4, <1>5, <2>1, <2>2
  <2> QED
    BY <2>3 DEF LifecycleLegal
<1> QED
  BY <1>9, <1>10, <1>11, <1>12, <1>13, <1>14 DEF Shared

-----------------------------------------------------------------------------
\* The beginning of a call, by the authority or by another component.
LEMMA BeginStep ==
  ASSUME Types, Invariant, NEW p \in Processes, NEW d \in Decisions, Begin(p, d)
  PROVE  Shared' /\ \A q \in Processes : Local(q)'
<1> DEFINE call == [NoTask EXCEPT !.decision = d, !.knowledge = KnowledgeOf[d], !.from = "VERIFIED",
                                  !.to = "ACTIVE", !.execution = executions']
<1>1. UNCHANGED <<records, log, guards, requests, granted, lost>> /\ executions' = executions + 1
  BY DEF Begin
<1>2. call \in Tasks
  <2>1. KnowledgeOf[d] \in Knowledge /\ executions' \in Int /\ "VERIFIED" \in States /\ "ACTIVE" \in States
    BY <1>1, AllowedFacts, PromotionAssumption DEF Types, RestOK
  <2> QED
    BY ONLY <2>1, NoTaskFacts, d \in Decisions DEF Tasks
<1>3. Continue(p, call, "lookup")
  BY DEF Begin
<1> HIDE DEF call
<1>4. task'[p].pc = "lookup" /\ \A q \in Processes : q # p => task'[q] = task[q]
  BY <1>2, <1>3, Shape DEF Types
<1>5. Local(p)'
  BY <1>4 DEF Local, Answered, Guarded, Asked
<1> QED
  BY <1>1, <1>4, <1>5, SharedKept, Split, Apart

LEMMA TransitionStep ==
  ASSUME Types, Invariant, NEW p \in Processes, NEW j \in Knowledge, NEW o \in Others,
         Transition(p, j, o[1], o[2])
  PROVE  Shared' /\ \A q \in Processes : Local(q)'
<1> DEFINE call == [NoTask EXCEPT !.knowledge = j, !.from = o[1], !.to = o[2], !.at = clock,
                                  !.execution = executions']
<1>1. UNCHANGED <<records, log, guards, requests, granted, lost>> /\ executions' = executions + 1
  BY DEF Transition
<1>2. call \in Tasks /\ call.decision = None
  <2>1. clock \in Int /\ executions' \in Int /\ o[1] \in States /\ o[2] \in States
    BY <1>1, AllowedFacts, PromotionAssumption DEF Types, RestOK, States
  <2> QED
    BY ONLY <2>1, NoTaskFacts, j \in Knowledge DEF Tasks
<1>3. Continue(p, call, "guard")
  BY DEF Transition
<1> HIDE DEF call
<1>4. task'[p] = [call EXCEPT !.pc = "guard"] /\ \A q \in Processes : q # p => task'[q] = task[q]
  <2>1. TasksOK /\ "guard" \in Labels /\ "guard" # "idle" /\ call \in Tasks
    BY <1>2 DEF Types
  <2>2. task' = [task EXCEPT ![p] = [call EXCEPT !.pc = "guard"]]
    BY ONLY <1>3, <2>1 DEF Continue
  <2> QED
    BY ONLY <2>1, <2>2, p \in Processes DEF TasksOK
<1>5. task'[p].pc = "guard" /\ task'[p].decision = None
  BY <1>2, <1>4 DEF Tasks
<1>6. Local(p)'
  BY <1>5 DEF Local, Answered, Guarded, Asked
<1> QED
  BY <1>1, <1>4, <1>6, SharedKept, Split, Apart

\* A power loss ends every call and may take records back, which the invariant allows for.
LEMMA PowerLossStep ==
  ASSUME Types, Invariant, PowerLoss
  PROVE  Shared' /\ \A q \in Processes : Local(q)'
<1>1. task' = [p \in Processes |-> NoTask] /\ UNCHANGED <<log, guards, requests, granted>>
  BY DEF PowerLoss
<1>2. PICK taken \in SUBSET records : records' = records \ taken /\ lost' = (lost \/ taken # {})
  BY DEF PowerLoss
<1>3. lost' \/ (records' = records /\ ~lost)
  <2>1. ASSUME taken = {}, ~lost PROVE records' = records
    BY <1>2, <2>1
  <2>2. ASSUME taken # {} \/ lost PROVE lost'
    <3>1. lost' = (lost \/ taken # {})
      BY <1>2
    <3> QED
      BY ONLY <2>2, <3>1, Zenon
  <2> QED
    BY <2>1, <2>2
<1>4. \A q \in Processes : Local(q)'
  <2> TAKE q \in Processes
  <2>1. task'[q].pc = "idle"
    BY <1>1, NoTaskFacts
  <2> QED
    BY <2>1 DEF Local, Answered, Guarded, Asked
<1>5. RequestInv' /\ EvidenceFirst' /\ LifecycleLegal'
  BY <1>1, <1>3 DEF Invariant, RequestInv, EvidenceFirst, LifecycleLegal
<1>6. CommittedAgrees'
  <2>1. \A d : <<d, "COMMITTED">> \in records' => <<d, "COMMITTED">> \in records
    BY <1>2
  <2> QED
    BY <1>1, <2>1 DEF Invariant, CommittedAgrees
<1> QED
  BY <1>4, <1>5, <1>6 DEF Shared

\* Leases, time and idling.
LEMMA RestStep ==
  ASSUME Types, Invariant, (\E s \in Slots : Expire(s)) \/ Pass \/ UNCHANGED vars
  PROVE  Shared' /\ \A q \in Processes : Local(q)'
<1>1. UNCHANGED <<records, log, guards, requests, granted, lost, task>>
  <2>1. ASSUME NEW s \in Slots, Expire(s) PROVE UNCHANGED <<records, log, guards, requests, granted, lost, task>>
    BY <2>1 DEF Expire, world
  <2>2. CASE Pass
    BY <2>2 DEF Pass
  <2>3. CASE UNCHANGED vars
    BY <2>3 DEF vars
  <2> QED
    BY <2>1, <2>2, <2>3
<1> QED
  BY <1>1, SharedKept, Split, Apart

\* The invariant holds at the start.
LEMMA InvariantInit == Init => Invariant
<1> SUFFICES ASSUME Init PROVE Invariant
  OBVIOUS
<1> DEFINE e == [decision |-> None, from |-> "DRAFT", to |-> "VERIFIED", at |-> 0]
<1>1. /\ records = {} /\ requests = [d \in Decisions |-> 0] /\ granted = {} /\ lost = FALSE
      /\ task = [p \in Processes |-> NoTask] /\ log \in [Knowledge -> {<<>>, <<e>>}]
  BY DEF Init
<1>2. \A p \in Processes : Answered(task[p]) /\ Guarded(p) /\ Asked(task[p])
  BY <1>1, NoTaskFacts DEF Guarded
<1>3. \A d \in Decisions : d # None /\ KnowledgeOf[d] \in Knowledge
  BY PromotionAssumption
<1>4. \A k \in Knowledge : \A i \in 1..Len(log[k]) : i = 1 /\ log[k][i] = e
  <2> TAKE k \in Knowledge
  <2>1. log[k] = <<>> \/ log[k] = <<e>>
    BY <1>1
  <2>2. Len(<<>>) = 0 /\ Len(<<e>>) = 1 /\ <<e>>[1] = e
    OBVIOUS
  <2> HIDE DEF e
  <2> QED
    BY <2>1, <2>2
<1>5. e.decision = None /\ e.from = "DRAFT" /\ e.to = "VERIFIED" /\ "VERIFIED" \in Allowed["DRAFT"]
  BY DEF Allowed
<1> HIDE DEF e
<1>6. RequestInv
  BY <1>1 DEF RequestInv
<1>7. \A d \in Decisions : ~Recorded(log[KnowledgeOf[d]], d)
  BY <1>3, <1>4, <1>5 DEF Recorded
<1>8. EvidenceFirst /\ CommittedAgrees
  BY <1>1, <1>7 DEF EvidenceFirst, CommittedAgrees
<1>9. LifecycleLegal
  BY <1>4, <1>5 DEF LifecycleLegal
<1> QED
  BY <1>2, <1>6, <1>8, <1>9 DEF Invariant

\* Every step keeps the invariant.
LEMMA InvariantStep == Types /\ Invariant /\ [Next]_vars => Invariant'
<1> SUFFICES ASSUME Types, Invariant, [Next]_vars PROVE Invariant'
  OBVIOUS
<1>1. Types'
  BY TypeStep
<1>2. ASSUME NEW p \in Processes, Quiet(p) PROVE Shared' /\ \A q \in Processes : Local(q)'
  BY <1>2, QuietStep
<1>3. ASSUME NEW p \in Processes, Step(p) \/ Crash(p) PROVE Shared' /\ \A q \in Processes : Local(q)'
  BY ONLY <1>2, <1>3, Types, Invariant, p \in Processes, PrepareStep, CommitStep, GuardStep, GuardTimeoutStep,
          CheckStep, WriteStep, UnguardStep DEF Step, Quiet
<1>4. Shared' /\ \A q \in Processes : Local(q)'
  BY ONLY <1>3, [Next]_vars, Types, Invariant, BeginStep, TransitionStep, PowerLossStep, RestStep DEF Next
<1>5. (Invariant <=> Shared /\ \A p \in Processes : Local(p))'
  BY <1>1, Split, PTL
<1> QED
  BY <1>4, <1>5

\* The types and the invariant hold in every reachable state.
THEOREM Always == Spec => [](Types /\ Invariant)
<1>1. Init => Types /\ Invariant
  BY TypeInit, InvariantInit
<1>2. Types /\ Invariant /\ [Next]_vars => (Types /\ Invariant)'
  BY TypeStep, InvariantStep
<1> QED
  BY <1>1, <1>2, PTL DEF Spec

\* The lifecycle is asked once for a decision, for any number of executions, processes
\* and stolen locks: Prepare refuses whoever finds the record of an earlier execution.
THEOREM Promotion_asksOnce == Spec => []OneRequest
<1>1. Invariant => OneRequest
  BY DEF Invariant, RequestInv, OneRequest
<1> QED
  BY <1>1, Always, PTL

\* PREPARED is on record before the lifecycle can hold a decision's transition.
THEOREM Promotion_leavesEvidence == Spec => []EvidenceFirst
<1>1. Invariant => EvidenceFirst
  BY DEF Invariant
<1> QED
  BY <1>1, Always, PTL

\* COMMITTED, and an execution that returned, stand for a transition the lifecycle has.
THEOREM Promotion_commitsTruth == Spec => []CommittedAgrees
<1>1. Invariant => CommittedAgrees
  BY DEF Invariant
<1> QED
  BY <1>1, Always, PTL

\* append keeps every history within the life cycle and in the order of its times,
\* whoever contends for it, dies in it or loses power.
THEOREM Lifecycle_staysLegal == Spec => []LifecycleLegal
<1>1. Invariant => LifecycleLegal
  BY DEF Invariant
<1> QED
  BY <1>1, Always, PTL

=============================================================================
