------------------------ MODULE GovernedExecutorProofs ------------------------
(***************************************************************************)
(* Theorems about GovernedExecutor, for every set of packages and every     *)
(* number of faults.                                                        *)
(***************************************************************************)
EXTENDS GovernedExecutor, TLAPS

\* What OnTick's locals hold at each of its labels.
LocalsOK ==
  /\ pc # "idle" => pkg \in Packages
  /\ pc = "append" => publication \in Transitions
  /\ pc \in {"temp", "move"} => publication \in Transitions \union {"result"}
  /\ publication \in Terminals \union {"result"} => reply \in Replies

\* The steps of Next, to split it on.
LEMMA StepCases ==
  ASSUME [Next]_vars
  PROVE  \/ ReadPackage \/ LoadState \/ InspectJournal \/ ValidateAtBroker
         \/ AppendTransition \/ AppendUnknownOutcome \/ WriteTemporary \/ MoveTemporary
         \/ SendOrder \/ ReceiveReply \/ Crash \/ ReplacePackage \/ Expire
         \/ ToggleDisable \/ DeleteState \/ BrokerDecides \/ UNCHANGED vars
BY DEF Next, Tick

LEMMA DispatchCases ==
  ASSUME NEW status, NEW lines, Dispatch(status, lines)
  PROVE  \/ status = "SUBMITTING" /\ Goto("fallback")
         \/ status = None /\ Newer(lines) /\ Goto("broker")
         \/ Return
<1>1. CASE status = "SUBMITTING"
  BY <1>1, NoneAssumption DEF Dispatch, Transitions
<1>2. CASE status # "SUBMITTING" /\ status = None /\ Newer(lines)
  BY <1>2 DEF Dispatch
<1>3. CASE status # "SUBMITTING" /\ ~(status = None /\ Newer(lines))
  BY <1>3 DEF Dispatch
<1>4. QED BY <1>1, <1>2, <1>3

LEMMA NoneIsNew ==
  /\ None \notin Packages /\ None \notin Records /\ None \notin Transitions
  /\ None \notin Terminals /\ None \notin Replies /\ None # "result"
  /\ None \notin {"ACCEPTED", "SUBMITTING", "UNKNOWN_OUTCOME"}
BY NoneAssumption DEF Transitions, Terminals

LEMMA WriteLineType ==
  ASSUME journal \in Seq(Records), tail \in Tails, NEW r \in Records,
         WriteLine(r) \/ WritePart(r)
  PROVE  journal' \in Seq(Records) /\ tail' \in Tails
BY DEF WriteLine, WritePart, Tails

LEMMA RecordType ==
  ASSUME pkg \in Packages, NEW status \in Transitions
  PROVE  Record(status) \in Records
BY PackagesAssumption DEF Record, Records, Uuids

-----------------------------------------------------------------------------
(* The locals: what the steps that only move control do to them.             *)

LocalTypes ==
  /\ pc \in Labels
  /\ pkg \in Packages \union {None}
  /\ stateSeq \in Nat
  /\ publication \in Transitions \union {"result", None}
  /\ reply \in Replies \union {None}
  /\ LocalsOK

LEMMA ReturnLocals ==
  ASSUME Return PROVE LocalTypes'
BY NoneIsNew DEF Return, LocalTypes, LocalsOK, Labels

LEMMA GotoLocals ==
  ASSUME LocalTypes, pc # "idle",
         NEW label \in {"load", "inspect", "broker", "send", "await", "fallback"},
         Goto(label)
  PROVE  LocalTypes'
BY DEF Goto, LocalTypes, LocalsOK, Labels

LEMMA GotoPublicationLocals ==
  ASSUME LocalTypes, pc \in {"append", "temp"},
         Goto("temp") \/ Goto("move")
  PROVE  LocalTypes'
BY DEF Goto, LocalTypes, LocalsOK, Labels

LEMMA PersistLocals ==
  ASSUME LocalTypes, pc # "idle",
         NEW status \in {"ACCEPTED", "SUBMITTING", "UNKNOWN_OUTCOME"},
         Persist(status)
  PROVE  LocalTypes'
BY DEF Persist, LocalTypes, LocalsOK, Labels, Transitions, Terminals

LEMMA PersistedLocals ==
  ASSUME LocalTypes, pc \in {"temp", "move"}, Persisted
  PROVE  LocalTypes'
<1>1. CASE publication = "ACCEPTED"
  <2>1. Persist("SUBMITTING")
    BY <1>1 DEF Persisted, Terminals
  <2>2. QED BY <2>1, PersistLocals
<1>2. CASE publication = "SUBMITTING"
  <2>1. Goto("send")
    BY <1>2 DEF Persisted, Terminals
  <2>2. QED BY <2>1, GotoLocals
<1>3. CASE publication \in Terminals
  BY <1>3 DEF Persisted, Terminals, LocalTypes, LocalsOK, Labels
<1>4. CASE publication \notin {"ACCEPTED", "SUBMITTING"} \union Terminals
  <2>1. Return
    BY <1>4 DEF Persisted
  <2>2. QED BY <2>1, ReturnLocals
<1>5. QED BY <1>1, <1>2, <1>3, <1>4

LEMMA NotPersistedLocals ==
  ASSUME LocalTypes, pc \in {"append", "temp", "move"}, NotPersisted
  PROVE  LocalTypes'
<1>1. CASE publication \in {"SUBMITTING", "result"}
  <2>1. Persist("UNKNOWN_OUTCOME")
    BY <1>1 DEF NotPersisted, Terminals
  <2>2. QED BY <2>1, PersistLocals
<1>2. CASE /\ publication \notin {"SUBMITTING", "result"}
           /\ \/ publication \in Terminals
              \/ publication = "UNKNOWN_OUTCOME" /\ reply # None
  <2>1. Goto("fallback")
    BY <1>2 DEF NotPersisted
  <2>2. QED BY <2>1, GotoLocals
<1>3. CASE /\ publication \notin {"SUBMITTING", "result"} \union Terminals
           /\ ~(publication = "UNKNOWN_OUTCOME" /\ reply # None)
  <2>1. Return
    BY <1>3 DEF NotPersisted
  <2>2. QED BY <2>1, ReturnLocals
<1>4. QED BY <1>1, <1>2, <1>3

-----------------------------------------------------------------------------
\* What is not local to OnTick.
SharedTypes ==
  /\ package \in Packages \union {None}
  /\ expired \subseteq Packages
  /\ disabled \in BOOLEAN
  /\ journal \in Seq(Records)
  /\ tail \in Tails
  /\ state \in Records \union {None}
  /\ result \in [uuid : Uuids, reply : Replies] \union {None}
  /\ temps \subseteq Uuids \X (Transitions \union {"result"})
  /\ sent \in Seq(Packages)
  /\ inflight \subseteq Uuids
  /\ live \subseteq Uuids
  /\ faults \in Nat

LEMMA TypeSplit == TypeOK /\ LocalsOK <=> SharedTypes /\ LocalTypes
BY DEF TypeOK, SharedTypes, LocalTypes

\* Type correctness (the types of every file, of the broker's state and of
\* OnTick's locals), with what the locals hold at each label.
THEOREM TypeCorrect == Spec => [](TypeOK /\ LocalsOK)
<1>1. Init => SharedTypes /\ LocalTypes
  <2>1. Init => SharedTypes
    <3>1. Init => journal \in Seq(Records) /\ sent \in Seq(Packages)
      BY DEF Init
    <3>2. Init => /\ expired \subseteq Packages /\ inflight \subseteq Uuids /\ live \subseteq Uuids
                  /\ temps \subseteq Uuids \X (Transitions \union {"result"})
      BY DEF Init
    <3>3. Init => package = None /\ state = None /\ result = None
      BY DEF Init
    <3>4. Init => disabled \in BOOLEAN /\ tail \in Tails
      BY Zenon DEF Init, Tails
    <3>5. Init => faults \in Nat
      BY DEF Init
    <3>6. QED BY <3>1, <3>2, <3>3, <3>4, <3>5 DEF SharedTypes
  <2>2. Init => LocalTypes
    BY NoneIsNew DEF Init, LocalTypes, LocalsOK, Labels
  <2>3. QED BY <2>1, <2>2
<1>2. SharedTypes /\ LocalTypes /\ [Next]_vars => SharedTypes' /\ LocalTypes'
  <2> SUFFICES ASSUME SharedTypes, LocalTypes, [Next]_vars
               PROVE  SharedTypes' /\ LocalTypes'
    OBVIOUS
  <2> USE DEF feed, durable, broker, NoFault, Fault
  <2>1. CASE ReadPackage
    BY <2>1, NoneIsNew DEF ReadPackage, Parsed, SharedTypes, LocalTypes, LocalsOK, Labels
  <2>2. CASE LoadState
    <3>1. SharedTypes'
      BY <2>2 DEF LoadState, SharedTypes
    <3>2. CASE Return
      BY <3>1, <3>2, ReturnLocals
    <3>3. CASE stateSeq' \in Nat /\ pc' = "inspect" /\ UNCHANGED <<pkg, publication, reply>>
      BY <2>2, <3>1, <3>3 DEF LoadState, LocalTypes, LocalsOK, Labels
    <3>4. LoadedSequence \in Nat
      BY DEF SharedTypes, Records, LoadedSequence
    <3>5. QED BY <2>2, <3>2, <3>3, <3>4 DEF LoadState
  <2>3. CASE InspectJournal
    <3>1. SharedTypes'
      BY <2>3 DEF InspectJournal, SharedTypes
    <3>2. Goto("fallback") \/ Goto("broker") \/ Return
      BY <2>3, DispatchCases DEF InspectJournal
    <3>3. QED BY <2>3, <3>1, <3>2, GotoLocals, ReturnLocals DEF InspectJournal
  <2>4. CASE ValidateAtBroker
    <3>1. SharedTypes'
      BY <2>4 DEF ValidateAtBroker, SharedTypes
    <3>2. QED BY <2>4, <3>1, PersistLocals, ReturnLocals DEF ValidateAtBroker
  <2>5. CASE AppendTransition
    <3>1. pkg \in Packages /\ publication \in Transitions
      BY <2>5 DEF AppendTransition, LocalTypes, LocalsOK
    <3>2. journal' \in Seq(Records) /\ tail' \in Tails
      BY <2>5, <3>1, WriteLineType, RecordType DEF AppendTransition, SharedTypes
    <3>3. SharedTypes'
      BY <2>5, <3>2 DEF AppendTransition, SharedTypes
    <3>4. LocalTypes'
      BY <2>5, GotoPublicationLocals, NotPersistedLocals DEF AppendTransition
    <3>5. QED BY <3>3, <3>4
  <2>6. CASE AppendUnknownOutcome
    <3>1. pkg \in Packages
      BY <2>6 DEF AppendUnknownOutcome, LocalTypes, LocalsOK
    <3>2. journal' \in Seq(Records) /\ tail' \in Tails
      BY <2>6, <3>1, WriteLineType, RecordType DEF AppendUnknownOutcome, SharedTypes, Transitions
    <3>3. SharedTypes'
      BY <2>6, <3>2 DEF AppendUnknownOutcome, SharedTypes
    <3>4. QED BY <2>6, <3>3, ReturnLocals DEF AppendUnknownOutcome
  <2>7. CASE WriteTemporary
    <3>1. Temporary \in Uuids \X (Transitions \union {"result"})
      BY <2>7 DEF WriteTemporary, Temporary, LocalTypes, LocalsOK, Uuids
    <3>2. SharedTypes'
      BY <2>7, <3>1 DEF WriteTemporary, SharedTypes
    <3>3. LocalTypes'
      BY <2>7, GotoPublicationLocals, NotPersistedLocals DEF WriteTemporary
    <3>4. QED BY <3>2, <3>3
  <2>8. CASE MoveTemporary
    <3>1. pkg \in Packages /\ publication \in Transitions \union {"result"}
      BY <2>8 DEF MoveTemporary, LocalTypes, LocalsOK
    <3>2. publication # "result" => Record(publication) \in Records
      BY <3>1, RecordType
    <3>3. publication = "result" => [uuid |-> pkg.uuid, reply |-> reply] \in [uuid : Uuids, reply : Replies]
      BY <3>1 DEF LocalTypes, LocalsOK, Uuids
    <3>4. SharedTypes'
      BY <2>8, <3>2, <3>3 DEF MoveTemporary, SharedTypes
    <3>5. LocalTypes'
      BY <2>8, PersistedLocals, NotPersistedLocals DEF MoveTemporary
    <3>6. QED BY <3>4, <3>5
  <2>9. CASE SendOrder
    <3>1. pkg \in Packages
      BY <2>9 DEF SendOrder, LocalTypes, LocalsOK
    <3>2. SharedTypes'
      BY <2>9, <3>1 DEF SendOrder, SharedTypes, Uuids
    <3>3. QED BY <2>9, <3>2, GotoLocals DEF SendOrder
  <2>10. CASE ReceiveReply
    BY <2>10 DEF ReceiveReply, SharedTypes, LocalTypes, LocalsOK, Labels, Transitions, Terminals
  <2>11. CASE Crash
    <3>1. pkg \in Packages /\ (pc = "append" => publication \in Transitions)
      BY <2>11 DEF Crash, LocalTypes, LocalsOK
    <3>2. journal' \in Seq(Records) /\ tail' \in Tails
      BY <2>11, <3>1, WriteLineType, RecordType DEF Crash, SharedTypes, Transitions
    <3>3. SharedTypes'
      BY <2>11, <3>2 DEF Crash, SharedTypes
    <3>4. QED BY <2>11, <3>3, ReturnLocals DEF Crash
  <2>12. CASE ReplacePackage \/ Expire \/ ToggleDisable \/ DeleteState \/ BrokerDecides
    <3>1. UNCHANGED volatile
      BY <2>12 DEF ReplacePackage, Expire, ToggleDisable, DeleteState, BrokerDecides
    <3>2. LocalTypes'
      BY <3>1 DEF volatile, LocalTypes, LocalsOK
    <3>3. CASE ReplacePackage
      BY <3>2, <3>3 DEF ReplacePackage, SharedTypes
    <3>4. CASE Expire
      BY <3>2, <3>4 DEF Expire, SharedTypes
    <3>5. CASE ToggleDisable
      BY <3>2, <3>5 DEF ToggleDisable, SharedTypes
    <3>6. CASE DeleteState
      BY <3>2, <3>6 DEF DeleteState, SharedTypes
    <3>7. CASE BrokerDecides
      BY <3>2, <3>7 DEF BrokerDecides, SharedTypes
    <3>8. QED BY <2>12, <3>3, <3>4, <3>5, <3>6, <3>7
  <2>13. CASE UNCHANGED vars
    BY <2>13 DEF vars, volatile, SharedTypes, LocalTypes, LocalsOK
  <2>14. QED
    BY ONLY StepCases, [Next]_vars, <2>1, <2>2, <2>3, <2>4, <2>5, <2>6, <2>7, <2>8, <2>9,
       <2>10, <2>11, <2>12, <2>13
<1>3. QED BY <1>1, <1>2, TypeSplit, PTL DEF Spec

-----------------------------------------------------------------------------
(* Monotonic submissions.  The journal and the state file each cover every    *)
(* submission, and either one, read at the start of a tick, is enough to      *)
(* refuse a package that is not newer.                                        *)

StateRetained == ~StateDeletable /\ ~StateUnopenable
Retained == ~JournalUnopenable \/ StateRetained

\* OnTick has checked the candidate and has not called OrderSend yet.
PreSend ==
  \/ pc \in {"broker", "send"}
  \/ pc \in {"append", "temp", "move"} /\ publication \in {"ACCEPTED", "SUBMITTING"}

\* OnTick may still write executor_state.json.
Writing == pc \in {"broker", "append", "temp", "move", "send", "await"}

\* The candidate's ACCEPTED record has reached the journal, the state file.
Journaled ==
  \/ pc \in {"send", "await"}
  \/ pc \in {"temp", "move"}
  \/ pc = "append" /\ publication # "ACCEPTED"
InState ==
  \/ pc \in {"send", "await"}
  \/ pc \in {"append", "temp", "move"} /\ publication # "ACCEPTED"

JournalCovers == \A i \in DOMAIN sent : \E k \in DOMAIN journal : journal[k].seq = sent[i].seq
StateCovers == StateRetained => \A i \in DOMAIN sent : state # None /\ sent[i].seq <= state.seq
LoadedCovers == StateRetained /\ pc = "inspect" => \A i \in DOMAIN sent : sent[i].seq <= stateSeq
CandidateIsNewest == PreSend => \A i \in DOMAIN sent : sent[i].seq < pkg.seq
CandidateIsLatest == Writing => \A i \in DOMAIN sent : sent[i].seq <= pkg.seq
CandidateJournaled == Journaled => \E k \in DOMAIN journal : journal[k].seq = pkg.seq
CandidateInState == StateRetained /\ InState => state # None /\ state.seq = pkg.seq

MonotonicInv ==
  /\ JournalCovers /\ StateCovers /\ LoadedCovers
  /\ CandidateIsNewest /\ CandidateIsLatest /\ CandidateJournaled /\ CandidateInState
  /\ SubmissionsMonotonic

\* What a return, and the outcome of a publication, mean for the candidate.
LEMMA ReturnControl ==
  ASSUME Return
  PROVE  ~PreSend' /\ ~Writing' /\ ~Journaled' /\ ~InState' /\ pc' # "inspect"
BY DEF Return, PreSend, Writing, Journaled, InState

LEMMA PersistedControl ==
  ASSUME pc = "move", Persisted
  PROVE  /\ PreSend' => PreSend
         /\ Writing' => pkg' = pkg
         /\ Journaled' \/ InState' => Writing'
         /\ pc' # "inspect"
<1>1. CASE publication = "ACCEPTED"
  <2>1. Persist("SUBMITTING")
    BY <1>1 DEF Persisted, Terminals
  <2>2. QED BY <1>1, <2>1 DEF Persist, PreSend, Writing, Journaled, InState
<1>2. CASE publication = "SUBMITTING"
  <2>1. Goto("send")
    BY <1>2 DEF Persisted, Terminals
  <2>2. QED BY <1>2, <2>1 DEF Goto, PreSend, Writing, Journaled, InState
<1>3. CASE publication \in Terminals
  BY <1>3 DEF Persisted, Terminals, PreSend, Writing, Journaled, InState
<1>4. CASE publication \notin {"ACCEPTED", "SUBMITTING"} \union Terminals
  <2>1. Return
    BY <1>4 DEF Persisted
  <2>2. QED BY <2>1, ReturnControl
<1>5. QED BY <1>1, <1>2, <1>3, <1>4

LEMMA NotPersistedControl ==
  ASSUME pc \in {"append", "temp", "move"}, NotPersisted
  PROVE  /\ ~PreSend'
         /\ Writing' => pkg' = pkg
         /\ Journaled' => Journaled
         /\ InState' => InState
         /\ Journaled' \/ InState' => Writing'
         /\ pc' # "inspect"
<1>1. CASE publication \in {"SUBMITTING", "result"}
  <2>1. Persist("UNKNOWN_OUTCOME")
    BY <1>1 DEF NotPersisted, Terminals
  <2>2. QED BY <1>1, <2>1 DEF Persist, PreSend, Writing, Journaled, InState
<1>2. CASE /\ publication \notin {"SUBMITTING", "result"}
           /\ \/ publication \in Terminals
              \/ publication = "UNKNOWN_OUTCOME" /\ reply # None
  <2>1. Goto("fallback")
    BY <1>2 DEF NotPersisted
  <2>2. QED BY <2>1 DEF Goto, PreSend, Writing, Journaled, InState
<1>3. CASE /\ publication \notin {"SUBMITTING", "result"} \union Terminals
           /\ ~(publication = "UNKNOWN_OUTCOME" /\ reply # None)
  <2>1. Return
    BY <1>3 DEF NotPersisted
  <2>2. QED BY <2>1, ReturnControl
<1>4. QED BY <1>1, <1>2, <1>3

\* The journal is only ever appended to.
LEMMA LineAppended ==
  ASSUME journal \in Seq(Records), NEW r \in Records, WriteLine(r) \/ WritePart(r)
  PROVE  /\ \A k \in DOMAIN journal : k \in DOMAIN journal' /\ journal'[k] = journal[k]
         /\ WriteLine(r) => \E k \in DOMAIN journal' : journal'[k] = r
<1>1. CASE journal' = journal /\ ~WriteLine(r)
  BY <1>1
<1>2. CASE journal' = Append(journal, r)
  <2>1. Len(journal) + 1 \in DOMAIN journal' /\ journal'[Len(journal) + 1] = r
    BY <1>2
  <2>2. QED BY <1>2, <2>1
<1>3. QED BY <1>1, <1>2 DEF WriteLine, WritePart

LEMMA JournalGrows ==
  ASSUME TypeOK, LocalsOK, [Next]_vars
  PROVE  \A k \in DOMAIN journal : k \in DOMAIN journal' /\ journal'[k] = journal[k]
<1> USE DEF durable, vars
<1>1. pc = "append" => pkg \in Packages /\ publication \in Transitions
  BY DEF LocalsOK
<1>2. pc = "fallback" => pkg \in Packages
  BY DEF LocalsOK
<1>3. CASE AppendTransition
  BY <1>1, <1>3, LineAppended, RecordType DEF AppendTransition, TypeOK
<1>4. CASE AppendUnknownOutcome
  BY <1>2, <1>4, LineAppended, RecordType DEF AppendUnknownOutcome, TypeOK, Transitions
<1>5. CASE Crash
  BY <1>1, <1>2, <1>5, LineAppended, RecordType DEF Crash, TypeOK, Transitions
<1>6. CASE \/ ReadPackage \/ LoadState \/ InspectJournal \/ ValidateAtBroker
           \/ WriteTemporary \/ MoveTemporary \/ SendOrder \/ ReceiveReply \/ ReplacePackage
           \/ Expire \/ ToggleDisable \/ DeleteState \/ BrokerDecides \/ UNCHANGED vars
  BY <1>6 DEF ReadPackage, LoadState, InspectJournal, ValidateAtBroker, WriteTemporary,
     MoveTemporary, SendOrder, ReceiveReply, ReplacePackage, Expire, ToggleDisable, DeleteState,
     BrokerDecides
<1>7. QED BY StepCases, <1>3, <1>4, <1>5, <1>6

LEMMA MonotonicInit == Init => MonotonicInv
BY NoneIsNew DEF Init, MonotonicInv, JournalCovers, StateCovers, LoadedCovers, CandidateIsNewest,
   CandidateIsLatest, CandidateJournaled, CandidateInState, SubmissionsMonotonic, PreSend, Writing,
   Journaled, InState

\* What every step but OrderSend has to re-establish: the journal keeps what it
\* has, so the rest is about the state file and the candidate.
LEMMA MonotonicFrame ==
  ASSUME TypeOK, LocalsOK, MonotonicInv, [Next]_vars, UNCHANGED sent,
         StateCovers', LoadedCovers', CandidateIsNewest', CandidateIsLatest',
         CandidateJournaled', CandidateInState'
  PROVE  MonotonicInv'
<1>1. JournalCovers'
  BY JournalGrows DEF MonotonicInv, JournalCovers
<1>2. SubmissionsMonotonic'
  BY DEF MonotonicInv, SubmissionsMonotonic
<1>3. QED BY <1>1, <1>2 DEF MonotonicInv

\* A step that leaves OnTick, or never was in it.
LEMMA MonotonicReturn ==
  ASSUME TypeOK, LocalsOK, MonotonicInv, [Next]_vars, Return, UNCHANGED <<sent, state>>
  PROVE  MonotonicInv'
<1>1. StateCovers'
  BY DEF MonotonicInv, StateCovers
<1>2. /\ LoadedCovers' /\ CandidateIsNewest' /\ CandidateIsLatest'
      /\ CandidateJournaled' /\ CandidateInState'
  BY ReturnControl DEF LoadedCovers, CandidateIsNewest, CandidateIsLatest, CandidateJournaled,
     CandidateInState
<1>3. QED BY <1>1, <1>2, MonotonicFrame

\* A publication that failed: the candidate, if there still is one, is the same.
LEMMA MonotonicNotPersisted ==
  ASSUME TypeOK, LocalsOK, MonotonicInv, [Next]_vars, UNCHANGED <<sent, state>>,
         pc \in {"append", "temp", "move"}, NotPersisted
  PROVE  MonotonicInv'
<1>1. StateCovers'
  BY DEF MonotonicInv, StateCovers
<1>2. LoadedCovers' /\ CandidateIsNewest'
  BY NotPersistedControl DEF LoadedCovers, CandidateIsNewest
<1>3. Writing
  BY DEF Writing
<1>4. CandidateIsLatest'
  BY <1>3, NotPersistedControl DEF MonotonicInv, CandidateIsLatest
<1>5. CandidateJournaled'
  BY NotPersistedControl, JournalGrows DEF MonotonicInv, CandidateJournaled
<1>6. CandidateInState'
  BY NotPersistedControl DEF MonotonicInv, CandidateInState
<1>7. QED BY <1>1, <1>2, <1>4, <1>5, <1>6, MonotonicFrame

LEMMA MonotonicStep ==
  ASSUME Retained, TypeOK, LocalsOK, MonotonicInv, [Next]_vars
  PROVE  MonotonicInv'
<1> USE DEF feed, durable, broker, volatile
<1>0. /\ \A i \in DOMAIN sent : sent[i].seq \in Nat
      /\ \A k \in DOMAIN journal : journal[k].seq \in Nat
      /\ pc # "idle" => pkg.seq \in Nat
      /\ state # None => state.seq \in Nat
      /\ stateSeq \in Nat
  <2>1. \A i \in DOMAIN sent : sent[i] \in Packages
    BY DEF TypeOK
  <2>2. \A k \in DOMAIN journal : journal[k] \in Records
    BY DEF TypeOK
  <2>3. \A r \in Records : r.seq \in Nat
    BY DEF Records
  <2>4. QED BY <2>1, <2>2, <2>3, PackagesAssumption DEF TypeOK, LocalsOK
<1>1. CASE ReadPackage
  BY <1>1, MonotonicFrame DEF ReadPackage, MonotonicInv, StateCovers, LoadedCovers,
     CandidateIsNewest, CandidateIsLatest, CandidateJournaled, CandidateInState, PreSend, Writing,
     Journaled, InState
<1>2. CASE LoadState
  <2>1. CASE Return
    BY <1>2, <2>1, MonotonicReturn DEF LoadState
  <2>2. CASE pc' = "inspect" /\ UNCHANGED <<pkg, publication, reply>>
    <3>1. StateRetained => stateSeq' = IF state = None THEN 0 ELSE state.seq
      BY <1>2, <2>2 DEF LoadState, LoadedSequence, StateRetained, Return
    <3>2. StateCovers' /\ LoadedCovers'
      BY <1>2, <3>1 DEF LoadState, MonotonicInv, StateCovers, LoadedCovers
    <3>3. CandidateIsNewest' /\ CandidateIsLatest' /\ CandidateJournaled' /\ CandidateInState'
      BY <2>2 DEF CandidateIsNewest, CandidateIsLatest, CandidateJournaled, CandidateInState,
         PreSend, Writing, Journaled, InState
    <3>4. QED BY <1>2, <3>2, <3>3, MonotonicFrame DEF LoadState
  <2>3. QED BY <1>2, <2>1, <2>2 DEF LoadState
<1>3. CASE InspectJournal
  <2>1. CASE Return
    BY <1>3, <2>1, MonotonicReturn DEF InspectJournal
  <2>2. CASE Goto("fallback")
    <3>1. ~PreSend' /\ ~Writing' /\ ~Journaled' /\ ~InState' /\ pc' # "inspect"
      BY <2>2 DEF Goto, PreSend, Writing, Journaled, InState
    <3>2. QED BY <1>3, <3>1, MonotonicFrame DEF InspectJournal, MonotonicInv, StateCovers,
            LoadedCovers, CandidateIsNewest, CandidateIsLatest, CandidateJournaled, CandidateInState
  <2>3. CASE Goto("broker")
    <3>1. stateSeq < pkg.seq /\ (Newer(journal) \/ JournalUnopenable)
      <4>1. ~Return /\ ~Goto("fallback")
        BY <2>3 DEF Goto, Return
      <4>2. QED BY <1>3, <4>1, DispatchCases DEF InspectJournal, Newer
    <3>2. \A i \in DOMAIN sent : sent[i].seq < pkg.seq
      <4>1. CASE Newer(journal)
        BY <1>0, <1>3, <4>1 DEF MonotonicInv, JournalCovers, Newer
      <4>2. CASE StateRetained
        BY <1>0, <1>3, <3>1, <4>2 DEF MonotonicInv, LoadedCovers, InspectJournal
      <4>3. QED BY <3>1, <4>1, <4>2 DEF Retained
    <3>3. pc' = "broker" /\ pkg' = pkg /\ UNCHANGED <<sent, state>>
      BY <1>3, <2>3 DEF InspectJournal, Goto
    <3>4. CandidateIsNewest' /\ CandidateIsLatest'
      BY <1>0, <1>3, <3>2, <3>3 DEF CandidateIsNewest, CandidateIsLatest, InspectJournal
    <3>5. LoadedCovers' /\ CandidateJournaled' /\ CandidateInState'
      BY <3>3 DEF LoadedCovers, CandidateJournaled, CandidateInState, Journaled, InState
    <3>6. QED BY <3>3, <3>4, <3>5, MonotonicFrame DEF MonotonicInv, StateCovers
  <2>4. QED BY <1>3, <2>1, <2>2, <2>3, DispatchCases DEF InspectJournal
<1>4. CASE ValidateAtBroker
  <2>1. CASE Return
    BY <1>4, <2>1, MonotonicReturn DEF ValidateAtBroker
  <2>2. CASE Persist("ACCEPTED")
    BY <1>4, <2>2, MonotonicFrame DEF ValidateAtBroker, Persist, MonotonicInv, StateCovers,
       LoadedCovers, CandidateIsNewest, CandidateIsLatest, CandidateJournaled, CandidateInState,
       PreSend, Writing, Journaled, InState
  <2>3. QED BY <1>4, <2>1, <2>2 DEF ValidateAtBroker
<1>5. CASE AppendTransition
  <2>1. CASE NotPersisted
    BY <1>5, <2>1, MonotonicNotPersisted DEF AppendTransition
  <2>2. CASE WriteLine(Record(publication)) /\ Goto("temp")
    <3>1. pkg \in Packages /\ publication \in Transitions
      BY <1>5 DEF AppendTransition, LocalsOK
    <3>2. \E k \in DOMAIN journal' : journal'[k].seq = pkg.seq
      BY <2>2, <3>1, LineAppended, RecordType DEF TypeOK, Record
    <3>3. pc = "append" /\ pc' = "temp" /\ UNCHANGED <<pkg, publication, sent, state>>
      BY <1>5, <2>2 DEF AppendTransition, Goto
    <3>4. /\ StateCovers' /\ LoadedCovers' /\ CandidateIsNewest' /\ CandidateIsLatest'
          /\ CandidateInState'
      BY <3>3 DEF MonotonicInv, StateCovers, LoadedCovers, CandidateIsNewest, CandidateIsLatest,
         CandidateInState, PreSend, Writing, InState
    <3>5. CandidateJournaled'
      BY <3>2, <3>3 DEF CandidateJournaled
    <3>6. QED BY <3>3, <3>4, <3>5, MonotonicFrame
  <2>3. QED BY <1>5, <2>1, <2>2 DEF AppendTransition
<1>6. CASE AppendUnknownOutcome
  BY <1>6, MonotonicReturn DEF AppendUnknownOutcome
<1>7. CASE WriteTemporary
  <2>1. CASE NotPersisted
    BY <1>7, <2>1, MonotonicNotPersisted DEF WriteTemporary
  <2>2. CASE Goto("move")
    <3>1. pc = "temp" /\ pc' = "move" /\ UNCHANGED <<pkg, publication, sent, state, journal>>
      BY <1>7, <2>2 DEF WriteTemporary, Goto
    <3>2. QED BY <3>1, MonotonicFrame DEF MonotonicInv, StateCovers, LoadedCovers,
            CandidateIsNewest, CandidateIsLatest, CandidateJournaled, CandidateInState, PreSend,
            Writing, Journaled, InState
  <2>3. QED BY <1>7, <2>1, <2>2 DEF WriteTemporary
<1>8. CASE MoveTemporary
  <2>0. pc = "move" /\ UNCHANGED <<sent, journal>>
    BY <1>8 DEF MoveTemporary
  <2>1. CASE UNCHANGED state /\ NotPersisted
    BY <2>0, <2>1, MonotonicNotPersisted
  <2>2. CASE Persisted /\ IF publication = "result" THEN UNCHANGED state
                                                    ELSE state' = Record(publication)
    <3>1. \A i \in DOMAIN sent : sent[i].seq <= pkg.seq
      BY <2>0 DEF MonotonicInv, CandidateIsLatest, Writing
    <3>2. CASE publication = "result"
      <4>1. StateCovers'
        BY <2>0, <2>2, <3>2 DEF MonotonicInv, StateCovers
      <4>2. LoadedCovers' /\ CandidateIsNewest' /\ CandidateIsLatest' /\ CandidateJournaled'
            /\ CandidateInState'
        BY <2>0, <2>2, <3>1, <3>2, PersistedControl DEF MonotonicInv, LoadedCovers,
           CandidateIsNewest, CandidateIsLatest, CandidateJournaled, CandidateInState, Writing,
           PreSend, Journaled, InState
      <4>3. QED BY <2>0, <4>1, <4>2, MonotonicFrame
    <3>3. CASE publication # "result"
      <4>1. state' # None /\ state'.seq = pkg.seq
        <5>1. pkg \in Packages /\ publication \in Transitions
          BY <2>0, <3>3 DEF LocalsOK
        <5>2. QED BY <2>2, <3>3, <5>1, RecordType, NoneIsNew DEF Record
      <4>2. StateCovers'
        BY <2>0, <3>1, <4>1 DEF StateCovers
      <4>3. CandidateInState' /\ LoadedCovers'
        BY <2>0, <2>2, <4>1, PersistedControl DEF CandidateInState, LoadedCovers
      <4>4. CandidateIsNewest' /\ CandidateIsLatest' /\ CandidateJournaled'
        BY <2>0, <2>2, <3>1, PersistedControl DEF MonotonicInv, CandidateIsNewest,
           CandidateIsLatest, CandidateJournaled, Writing, PreSend, Journaled
      <4>5. QED BY <2>0, <4>2, <4>3, <4>4, MonotonicFrame
    <3>4. QED BY <3>2, <3>3
  <2>3. QED BY <1>8, <2>1, <2>2 DEF MoveTemporary
<1>9. CASE SendOrder
  <2>1. pc = "send" /\ pc' = "await" /\ sent' = Append(sent, pkg)
        /\ UNCHANGED <<pkg, publication, stateSeq, state, journal>>
    BY <1>9 DEF SendOrder, Goto
  <2>2. sent \in Seq(Packages) /\ pkg \in Packages
    BY <2>1 DEF TypeOK, LocalsOK
  <2>3. \A i \in DOMAIN sent' : \/ i \in DOMAIN sent /\ sent'[i] = sent[i]
                                \/ i = Len(sent) + 1 /\ sent'[i] = pkg
    BY <2>1, <2>2
  <2>4. \A i \in DOMAIN sent : sent[i].seq < pkg.seq
    BY <2>1 DEF MonotonicInv, CandidateIsNewest, PreSend
  <2>5. SubmissionsMonotonic'
    <3>1. \A i \in DOMAIN sent : i \in Nat /\ i < Len(sent) + 1
      BY <2>2
    <3>2. Len(sent) \in Nat
      BY <2>2
    <3>3. SUFFICES ASSUME NEW i \in DOMAIN sent', NEW j \in DOMAIN sent', i < j
                   PROVE  sent'[i].seq < sent'[j].seq
      BY DEF SubmissionsMonotonic
    <3>4. i \in DOMAIN sent /\ sent'[i] = sent[i]
      BY <2>3, <3>1, <3>2, <3>3
    <3>5. CASE j \in DOMAIN sent /\ sent'[j] = sent[j]
      BY <3>3, <3>4, <3>5 DEF MonotonicInv, SubmissionsMonotonic
    <3>6. CASE sent'[j] = pkg
      BY <2>4, <3>4, <3>6
    <3>7. QED BY <2>3, <3>5, <3>6
  <2>6. JournalCovers'
    <3>1. \E k \in DOMAIN journal : journal[k].seq = pkg.seq
      BY <2>1 DEF MonotonicInv, CandidateJournaled, Journaled
    <3>2. QED BY <2>1, <2>3, <3>1 DEF MonotonicInv, JournalCovers
  <2>7. StateCovers'
    BY <1>0, <2>1, <2>3 DEF MonotonicInv, StateCovers, CandidateInState, InState
  <2>8. CandidateIsLatest'
    BY <1>0, <2>1, <2>3, <2>4 DEF CandidateIsLatest
  <2>9. LoadedCovers' /\ CandidateIsNewest' /\ CandidateJournaled' /\ CandidateInState'
    BY <2>1 DEF MonotonicInv, LoadedCovers, CandidateIsNewest, CandidateJournaled,
       CandidateInState, PreSend, Journaled, InState
  <2>10. QED BY <2>5, <2>6, <2>7, <2>8, <2>9 DEF MonotonicInv
<1>10. CASE ReceiveReply
  <2>1. pc = "await" /\ pc' = "append" /\ publication' \in Terminals
        /\ UNCHANGED <<pkg, stateSeq, sent, state, journal>>
    BY <1>10 DEF ReceiveReply, Terminals
  <2>2. QED BY <2>1, MonotonicFrame DEF MonotonicInv, StateCovers, LoadedCovers,
          CandidateIsNewest, CandidateIsLatest, CandidateJournaled, CandidateInState, PreSend,
          Writing, Journaled, InState, Terminals
<1>11. CASE Crash
  BY <1>11, MonotonicReturn DEF Crash
<1>12. CASE DeleteState
  <2>1. ~StateRetained
    BY <1>12 DEF DeleteState, StateRetained
  <2>2. QED BY <1>12, <2>1, MonotonicFrame DEF DeleteState, MonotonicInv, StateCovers,
          LoadedCovers, CandidateIsNewest, CandidateIsLatest, CandidateJournaled,
          CandidateInState, PreSend, Writing, Journaled, InState
<1>13. CASE ReplacePackage \/ Expire \/ ToggleDisable \/ BrokerDecides \/ UNCHANGED vars
  <2>1. UNCHANGED <<durable, volatile, sent>>
    BY <1>13 DEF ReplacePackage, Expire, ToggleDisable, BrokerDecides, vars
  <2>2. QED BY <2>1, MonotonicFrame DEF MonotonicInv, StateCovers, LoadedCovers,
          CandidateIsNewest, CandidateIsLatest, CandidateJournaled, CandidateInState, PreSend,
          Writing, Journaled, InState
<1>14. QED
  BY StepCases, <1>1, <1>2, <1>3, <1>4, <1>5, <1>6, <1>7, <1>8, <1>9, <1>10, <1>11, <1>12, <1>13

\* Orders go out in the order of their market sequences (OnTick lines 523-524),
\* provided an existing journal can be opened, or the state file is neither
\* deleted nor unopenable: one of the two records is enough.
THEOREM Monotonicity == ASSUME Retained PROVE Spec => []SubmissionsMonotonic
<1>1. Init => MonotonicInv
  BY MonotonicInit
<1>2. TypeOK /\ LocalsOK /\ MonotonicInv /\ [Next]_vars => MonotonicInv'
  BY MonotonicStep
<1>3. MonotonicInv => SubmissionsMonotonic
  BY DEF MonotonicInv
<1>4. QED BY <1>1, <1>2, <1>3, TypeCorrect, PTL DEF Spec

\* No package is handed to OrderSend twice, on the same condition.
THEOREM AtMostOnce == ASSUME Retained PROVE Spec => []AtMostOneSubmission
<1>1. TypeOK /\ SubmissionsMonotonic => AtMostOneSubmission
  <2> SUFFICES ASSUME TypeOK, SubmissionsMonotonic,
                      NEW i \in DOMAIN sent, NEW j \in DOMAIN sent, sent[i].uuid = sent[j].uuid
               PROVE  i = j
    BY DEF AtMostOneSubmission
  <2>1. sent[i] \in Packages /\ sent[j] \in Packages /\ i \in Int /\ j \in Int
    BY DEF TypeOK
  <2>2. sent[i] = sent[j] /\ sent[i].seq \in Nat
    BY <2>1, PackagesAssumption
  <2>3. QED BY <2>1, <2>2 DEF SubmissionsMonotonic
<1>2. QED BY <1>1, Monotonicity, TypeCorrect, PTL

-----------------------------------------------------------------------------
(* The trace: what the journal holds of a candidate at each point of a tick.  *)

\* The status an order's reply is journaled under.
Outcome == IF reply \in {"DONE", "PLACED"} THEN "SUBMITTED" ELSE "REJECTED"

Logged(r) == \E k \in DOMAIN journal : journal[k] = r

\* ACCEPTED and, later, SUBMITTING are on the journal.
Intended(u) ==
  \E j, k \in DOMAIN journal :
    /\ j < k
    /\ journal[j].uuid = u /\ journal[j].status = "ACCEPTED"
    /\ journal[k].uuid = u /\ journal[k].status = "SUBMITTING"

PublicationLogged == pc \in {"temp", "move"} /\ publication \in Transitions => Logged(Record(publication))
AcceptedLogged == pc = "append" /\ publication = "SUBMITTING" => Logged(Record("ACCEPTED"))
IntentLogged == \/ pc \in {"temp", "move"} /\ publication = "SUBMITTING"
                \/ pc = "send"
                => Intended(pkg.uuid)
OutcomeNamed == publication \in Terminals => publication = Outcome
OutcomeLogged == pc \in {"temp", "move"} /\ publication = "result" => Logged(Record(Outcome))

CandidateTraced ==
  PublicationLogged /\ AcceptedLogged /\ IntentLogged /\ OutcomeNamed /\ OutcomeLogged

TraceInv == CandidateTraced /\ IntentBeforeSend /\ StateBackedByJournal /\ ResultBackedByJournal

\* A return leaves no candidate to speak of; a failed or a completed publication
\* leaves one whose trace is on the journal.
LEMMA ReturnTraced ==
  ASSUME Return PROVE CandidateTraced'
BY NoneIsNew DEF Return, CandidateTraced, PublicationLogged, AcceptedLogged, IntentLogged,
   OutcomeNamed, OutcomeLogged

\* What was logged stays logged.
LEMMA LoggedStays ==
  ASSUME TypeOK, LocalsOK, [Next]_vars
  PROVE  /\ \A r : Logged(r) => Logged(r)'
         /\ \A u : Intended(u) => Intended(u)'
<1>1. \A k \in DOMAIN journal : k \in DOMAIN journal' /\ journal'[k] = journal[k]
  BY JournalGrows
<1>2. ASSUME NEW r, Logged(r) PROVE Logged(r)'
  BY <1>1, <1>2 DEF Logged
<1>3. ASSUME NEW u, Intended(u) PROVE Intended(u)'
  <2>1. PICK j, k \in DOMAIN journal :
          /\ j < k
          /\ journal[j].uuid = u /\ journal[j].status = "ACCEPTED"
          /\ journal[k].uuid = u /\ journal[k].status = "SUBMITTING"
    BY <1>3 DEF Intended
  <2>2. j \in DOMAIN journal' /\ k \in DOMAIN journal'
        /\ journal'[j] = journal[j] /\ journal'[k] = journal[k]
    BY <1>1
  <2> QED BY <2>1, <2>2 DEF Intended
<1> QED BY <1>2, <1>3

\* The durable part survives every step that sends and publishes nothing.
LEMMA TraceFrame ==
  ASSUME TypeOK, LocalsOK, TraceInv, [Next]_vars, UNCHANGED sent,
         state' = state \/ state' = None, result' = result, CandidateTraced'
  PROVE  TraceInv'
<1>1. \A k \in DOMAIN journal : k \in DOMAIN journal' /\ journal'[k] = journal[k]
  BY JournalGrows
<1>2. IntentBeforeSend'
  BY LoggedStays DEF TraceInv, IntentBeforeSend, Intended
<1>3. StateBackedByJournal'
  BY <1>1 DEF TraceInv, StateBackedByJournal
<1>4. ResultBackedByJournal'
  BY <1>1 DEF TraceInv, ResultBackedByJournal
<1> QED BY <1>2, <1>3, <1>4 DEF TraceInv

LEMMA NotPersistedTraced ==
  ASSUME pc \in {"append", "temp", "move"}, NotPersisted, OutcomeNamed
  PROVE  CandidateTraced'
<1> USE DEF CandidateTraced, PublicationLogged, AcceptedLogged, IntentLogged, OutcomeNamed,
            OutcomeLogged
<1>1. CASE publication \in {"SUBMITTING", "result"}
  <2>1. Persist("UNKNOWN_OUTCOME")
    BY <1>1 DEF NotPersisted, Terminals
  <2> QED BY <2>1 DEF Persist, Terminals
<1>2. CASE /\ publication \notin {"SUBMITTING", "result"}
           /\ \/ publication \in Terminals
              \/ publication = "UNKNOWN_OUTCOME" /\ reply # None
  <2>1. Goto("fallback")
    BY <1>2 DEF NotPersisted
  <2> QED BY <2>1 DEF Goto, Terminals, Outcome
<1>3. CASE /\ publication \notin {"SUBMITTING", "result"} \union Terminals
           /\ ~(publication = "UNKNOWN_OUTCOME" /\ reply # None)
  <2>1. Return
    BY <1>3 DEF NotPersisted
  <2> QED BY <2>1, ReturnTraced
<1> QED BY <1>1, <1>2, <1>3

LEMMA PersistedTraced ==
  ASSUME pc = "move", Persisted, CandidateTraced, UNCHANGED journal
  PROVE  CandidateTraced'
<1> USE DEF CandidateTraced, PublicationLogged, AcceptedLogged, IntentLogged, OutcomeNamed,
            OutcomeLogged
<1>1. CASE publication = "ACCEPTED"
  <2>1. Persist("SUBMITTING")
    BY <1>1 DEF Persisted, Terminals
  <2> QED BY <1>1, <2>1 DEF Persist, Terminals, Transitions, Logged, Record
<1>2. CASE publication = "SUBMITTING"
  <2>1. Goto("send")
    BY <1>2 DEF Persisted, Terminals
  <2> QED BY <1>2, <2>1 DEF Goto, Terminals, Intended
<1>3. CASE publication \in Terminals
  <2>1. pc' = "temp" /\ publication' = "result" /\ UNCHANGED <<pkg, stateSeq, reply>>
    BY <1>3 DEF Persisted, Terminals
  <2>2. Logged(Record(Outcome))
    BY <1>3 DEF Terminals, Transitions
  <2> QED BY <2>1, <2>2 DEF Terminals, Transitions, Logged, Record, Outcome
<1>4. CASE publication \notin {"ACCEPTED", "SUBMITTING"} \union Terminals
  <2>1. Return
    BY <1>4 DEF Persisted
  <2> QED BY <2>1, ReturnTraced
<1> QED BY <1>1, <1>2, <1>3, <1>4

\* A line that was appended whole is logged, behind everything logged before.
LEMMA LineLogged ==
  ASSUME journal \in Seq(Records), NEW r \in Records, WriteLine(r)
  PROVE  /\ Len(journal) + 1 \in DOMAIN journal' /\ journal'[Len(journal) + 1] = r
         /\ \A k \in DOMAIN journal : k < Len(journal) + 1 /\ k \in DOMAIN journal'
                                      /\ journal'[k] = journal[k]
BY DEF WriteLine

LEMMA TraceStep ==
  ASSUME TypeOK, LocalsOK, TraceInv, [Next]_vars
  PROVE  TraceInv'
<1> USE DEF feed, durable, broker, volatile
<1>0. CandidateTraced /\ OutcomeNamed
  BY DEF TraceInv, CandidateTraced
<1>1. CASE ReadPackage \/ LoadState \/ InspectJournal \/ ValidateAtBroker
  <2>1. pc \in {"idle", "load", "inspect", "broker"} /\ UNCHANGED <<sent, state, result>>
    BY <1>1 DEF ReadPackage, LoadState, InspectJournal, ValidateAtBroker
  <2>2. CASE Return
    BY <2>1, <2>2, ReturnTraced, TraceFrame
  <2>3. CASE pc' \in {"load", "inspect", "broker", "fallback"} /\ UNCHANGED <<publication, reply>>
    BY <1>0, <2>1, <2>3, TraceFrame DEF CandidateTraced, PublicationLogged, AcceptedLogged,
       IntentLogged, OutcomeNamed, OutcomeLogged, Outcome
  <2>4. CASE Persist("ACCEPTED")
    BY <2>1, <2>4, TraceFrame DEF Persist, CandidateTraced, PublicationLogged, AcceptedLogged,
       IntentLogged, OutcomeNamed, OutcomeLogged, Terminals
  <2>5. InspectJournal => Return \/ Goto("fallback") \/ Goto("broker")
    BY DispatchCases DEF InspectJournal
  <2>6. ReadPackage \/ LoadState =>
          \/ Return
          \/ pc' \in {"load", "inspect"} /\ UNCHANGED <<publication, reply>>
    <3>1. ReadPackage => pc' = "load" /\ UNCHANGED <<publication, reply>>
      BY DEF ReadPackage
    <3>2. LoadState => \/ Return
                       \/ pc' = "inspect" /\ UNCHANGED <<pkg, publication, reply>>
      BY DEF LoadState
    <3> QED BY <3>1, <3>2
  <2>7. ValidateAtBroker => Return \/ Persist("ACCEPTED")
    BY DEF ValidateAtBroker
  <2> QED BY <1>1, <2>2, <2>3, <2>4, <2>5, <2>6, <2>7 DEF Goto
<1>2. CASE AppendTransition
  <2>0. pc = "append" /\ UNCHANGED <<sent, state, result>>
    BY <1>2 DEF AppendTransition
  <2>1. CASE NotPersisted
    BY <1>0, <2>0, <2>1, NotPersistedTraced, TraceFrame
  <2>2. CASE WriteLine(Record(publication)) /\ Goto("temp")
    <3>1. pkg \in Packages /\ publication \in Transitions
      BY <2>0 DEF LocalsOK
    <3>2. journal \in Seq(Records) /\ Record(publication) \in Records
      BY <3>1, RecordType DEF TypeOK
    <3>3. pc' = "temp" /\ UNCHANGED <<pkg, publication, reply>>
      BY <2>2 DEF Goto
    <3>4. Logged(Record(publication))'
      BY <2>2, <3>2, <3>3, LineLogged DEF Logged, Record
    <3>5. publication = "SUBMITTING" => Intended(pkg.uuid)'
      <4> HAVE publication = "SUBMITTING"
      <4>1. PICK j \in DOMAIN journal : journal[j] = Record("ACCEPTED")
        BY <1>0, <2>0 DEF CandidateTraced, AcceptedLogged, Logged
      <4>2. /\ j < Len(journal) + 1 /\ j \in DOMAIN journal' /\ journal'[j] = Record("ACCEPTED")
            /\ Len(journal) + 1 \in DOMAIN journal'
            /\ journal'[Len(journal) + 1] = Record("SUBMITTING")
        BY <2>2, <3>2, <4>1, LineLogged
      <4> QED BY <3>3, <4>2 DEF Intended, Record
    <3>6. publication # "result"
      BY <3>1 DEF Transitions
    <3>7. CandidateTraced'
      BY <1>0, <3>3, <3>4, <3>5, <3>6 DEF CandidateTraced, PublicationLogged, AcceptedLogged,
         IntentLogged, OutcomeNamed, OutcomeLogged, Outcome, Record
    <3> QED BY <2>0, <3>7, TraceFrame
  <2> QED BY <1>2, <2>1, <2>2 DEF AppendTransition
<1>3. CASE AppendUnknownOutcome \/ Crash
  BY <1>3, ReturnTraced, TraceFrame DEF AppendUnknownOutcome, Crash
<1>4. CASE WriteTemporary
  <2>0. pc = "temp" /\ UNCHANGED <<sent, state, result, journal>>
    BY <1>4 DEF WriteTemporary
  <2>1. CASE NotPersisted
    BY <1>0, <2>0, <2>1, NotPersistedTraced, TraceFrame
  <2>2. CASE Goto("move")
    <3>1. CandidateTraced'
      BY <1>0, <2>0, <2>2 DEF Goto, CandidateTraced, PublicationLogged, AcceptedLogged,
         IntentLogged, OutcomeNamed, OutcomeLogged, Outcome, Record, Logged, Intended
    <3> QED BY <2>0, <3>1, TraceFrame
  <2> QED BY <1>4, <2>1, <2>2 DEF WriteTemporary
<1>5. CASE MoveTemporary
  <2>0. pc = "move" /\ UNCHANGED <<sent, journal>>
    BY <1>5 DEF MoveTemporary
  <2>1. CASE UNCHANGED <<state, result>> /\ NotPersisted
    BY <1>0, <2>0, <2>1, NotPersistedTraced, TraceFrame
  <2>2. CASE /\ Persisted
             /\ IF publication = "result"
                THEN result' = [uuid |-> pkg.uuid, reply |-> reply] /\ UNCHANGED state
                ELSE state' = Record(publication) /\ UNCHANGED result
    <3>1. CandidateTraced'
      BY <1>0, <2>0, <2>2, PersistedTraced
    <3>2. IntentBeforeSend'
      BY <2>0 DEF TraceInv, IntentBeforeSend
    <3>3. StateBackedByJournal'
      <4>1. CASE publication = "result"
        BY <2>0, <2>2, <4>1 DEF TraceInv, StateBackedByJournal
      <4>2. CASE publication # "result"
        <5>1. Logged(Record(publication))
          BY <1>0, <2>0, <4>2 DEF CandidateTraced, PublicationLogged, LocalsOK
        <5> QED BY <2>0, <2>2, <4>2, <5>1 DEF Logged, StateBackedByJournal
      <4> QED BY <4>1, <4>2
    <3>4. ResultBackedByJournal'
      <4>1. CASE publication # "result"
        BY <2>0, <2>2, <4>1 DEF TraceInv, ResultBackedByJournal
      <4>2. CASE publication = "result"
        <5>1. PICK k \in DOMAIN journal : journal[k] = Record(Outcome)
          BY <1>0, <2>0, <4>2 DEF CandidateTraced, OutcomeLogged, Logged
        <5>2. journal[k].uuid = result'.uuid
              /\ journal[k].status = IF result'.reply \in {"DONE", "PLACED"} THEN "SUBMITTED"
                                                                           ELSE "REJECTED"
          BY <2>2, <4>2, <5>1 DEF Record, Outcome
        <5> QED BY <2>0, <5>2 DEF ResultBackedByJournal
      <4> QED BY <4>1, <4>2
    <3> QED BY <3>1, <3>2, <3>3, <3>4 DEF TraceInv
  <2> QED BY <1>5, <2>1, <2>2 DEF MoveTemporary
<1>6. CASE SendOrder
  <2>1. pc = "send" /\ pc' = "await" /\ sent' = Append(sent, pkg)
        /\ UNCHANGED <<pkg, publication, reply, state, result, journal>>
    BY <1>6 DEF SendOrder, Goto
  <2>2. sent \in Seq(Packages) /\ pkg \in Packages
    BY <2>1 DEF TypeOK, LocalsOK
  <2>3. \A i \in DOMAIN sent' : \/ i \in DOMAIN sent /\ sent'[i] = sent[i]
                                \/ sent'[i] = pkg
    BY <2>1, <2>2
  <2>4. Intended(pkg.uuid)
    BY <1>0, <2>1 DEF CandidateTraced, IntentLogged
  <2>5. IntentBeforeSend'
    <3>1. \A i \in DOMAIN sent' : Intended(sent'[i].uuid)
      BY <2>3, <2>4 DEF TraceInv, IntentBeforeSend, Intended
    <3> QED BY <2>1, <3>1 DEF IntentBeforeSend, Intended
  <2>6. StateBackedByJournal' /\ ResultBackedByJournal'
    BY <2>1 DEF TraceInv, StateBackedByJournal, ResultBackedByJournal
  <2>7. CandidateTraced'
    BY <1>0, <2>1 DEF CandidateTraced, PublicationLogged, AcceptedLogged, IntentLogged,
       OutcomeNamed, OutcomeLogged, Outcome
  <2> QED BY <2>5, <2>6, <2>7 DEF TraceInv
<1>7. CASE ReceiveReply
  <2>1. pc' = "append" /\ UNCHANGED <<sent, state, result>>
        /\ publication' = IF reply' \in {"DONE", "PLACED"} THEN "SUBMITTED" ELSE "REJECTED"
    BY <1>7 DEF ReceiveReply
  <2>2. CandidateTraced'
    BY <2>1 DEF CandidateTraced, PublicationLogged, AcceptedLogged, IntentLogged,
       OutcomeNamed, OutcomeLogged, Outcome
  <2> QED BY <2>1, <2>2, TraceFrame
<1>8. CASE ReplacePackage \/ Expire \/ ToggleDisable \/ DeleteState \/ BrokerDecides
           \/ UNCHANGED vars
  <2>1. UNCHANGED <<journal, volatile, sent, result>> /\ (state' = state \/ state' = None)
    BY <1>8 DEF ReplacePackage, Expire, ToggleDisable, DeleteState, BrokerDecides, vars
  <2>2. CandidateTraced'
    BY <1>0, <2>1 DEF CandidateTraced, PublicationLogged, AcceptedLogged, IntentLogged,
       OutcomeNamed, OutcomeLogged, Outcome, Record, Logged, Intended
  <2> QED BY <2>1, <2>2, TraceFrame
<1> QED BY StepCases, <1>1, <1>2, <1>3, <1>4, <1>5, <1>6, <1>7, <1>8

\* The durable files never say more than the journal: every order was intended on
\* it first (OnTick lines 530-533), the state file repeats one of its lines
\* (PersistTransition), and a result names the outcome it holds.
THEOREM Trace == Spec => [](IntentBeforeSend /\ StateBackedByJournal /\ ResultBackedByJournal)
<1>1. Init => TraceInv
  BY NoneIsNew DEF Init, TraceInv, CandidateTraced, PublicationLogged, AcceptedLogged, IntentLogged,
     OutcomeNamed, OutcomeLogged, IntentBeforeSend, StateBackedByJournal, ResultBackedByJournal
<1>2. TypeOK /\ LocalsOK /\ TraceInv /\ [Next]_vars => TraceInv'
  BY TraceStep
<1>3. TraceInv => IntentBeforeSend /\ StateBackedByJournal /\ ResultBackedByJournal
  BY DEF TraceInv
<1> QED BY <1>1, <1>2, <1>3, TypeCorrect, PTL DEF Spec

\* PersistTransition appends to the journal before it replaces the state file, so the
\* status that LoadState may meet is one the journal holds, crash or not.
THEOREM StateFollowsJournal == Spec => []StateBackedByJournal
BY Trace, PTL

-----------------------------------------------------------------------------
(* The life of a UUID on the journal.  A tick knows the last status of its     *)
(* candidate as long as an existing journal can be opened.                   *)

Last == LastStatus(pkg.uuid)

\* A UUID with lines has a last one.
LastExists ==
  \A u : Entries(u) # {} => \E i \in Entries(u) : \A j \in Entries(u) : j <= i

\* Nothing is published or answered yet.
Untouched == pc \in {"idle", "load", "inspect", "broker"} => publication = None /\ reply = None
Unanswered == publication \in {"ACCEPTED", "SUBMITTING"} => reply = None

\* What may follow as UNKNOWN_OUTCOME in a publication, and in the last resort.
Doubtful == \/ reply = None /\ Last \in {"ACCEPTED", "SUBMITTING"}
            \/ reply # None /\ Last \in Terminals
Resort == \/ Last = "SUBMITTING"
          \/ reply # None /\ Last \in Terminals \union {"UNKNOWN_OUTCOME"}

\* The last status of the candidate at each point of the tick.
Before ==
  /\ pc = "broker" => Last = None
  /\ pc = "append" /\ publication = "ACCEPTED" => Last = None
  /\ pc = "append" /\ publication = "SUBMITTING" => Last = "ACCEPTED"
  /\ pc = "append" /\ publication \in Terminals => Last = "SUBMITTING"
  /\ pc = "append" /\ publication = "UNKNOWN_OUTCOME" => Doubtful
  /\ pc = "fallback" => Resort
After ==
  /\ pc \in {"temp", "move"} /\ publication \in Transitions => Last = publication
  /\ pc \in {"temp", "move"} /\ publication = "result" => Last \in Terminals
  /\ pc \in {"send", "await"} => Last = "SUBMITTING"

\* What is being concluded was sent.
WasSent == pc = "await" \/ publication \in Terminals => \E i \in DOMAIN sent : sent[i] = pkg

Position == Untouched /\ Unanswered /\ Before /\ After /\ WasSent
PositionInv == LastExists /\ Position

LEMMA NoneIsNoStatus == None \notin {"ACCEPTED", "SUBMITTING", "SUBMITTED", "REJECTED", "UNKNOWN_OUTCOME",
                                     "result", "DONE", "PLACED", "REFUSED", "AMBIGUOUS"}
BY NoneAssumption DEF Transitions, Replies

\* Only two actions and a crash in one of them write to the journal.
LEMMA JournalSteps ==
  ASSUME [Next]_vars
  PROVE  \/ journal' = journal
         \/ pc = "append" /\ sent' = sent /\ journal' = Append(journal, Record(publication))
         \/ pc = "fallback" /\ sent' = sent /\ journal' = Append(journal, Record("UNKNOWN_OUTCOME"))
<1> USE DEF durable, broker, vars
<1>1. CASE AppendTransition
  BY <1>1 DEF AppendTransition, WriteLine, WritePart
<1>2. CASE AppendUnknownOutcome
  BY <1>2 DEF AppendUnknownOutcome, WriteLine, WritePart
<1>3. CASE Crash
  <2>1. CASE pc = "append"
    BY <1>3, <2>1 DEF Crash, WriteLine, WritePart
  <2>2. CASE pc = "fallback"
    BY <1>3, <2>2 DEF Crash, WriteLine, WritePart
  <2>3. CASE pc \notin {"append", "fallback"}
    BY <1>3, <2>3 DEF Crash
  <2> QED BY <2>1, <2>2, <2>3
<1>4. CASE \/ ReadPackage \/ LoadState \/ InspectJournal \/ ValidateAtBroker
           \/ WriteTemporary \/ MoveTemporary \/ SendOrder \/ ReceiveReply \/ ReplacePackage
           \/ Expire \/ ToggleDisable \/ DeleteState \/ BrokerDecides \/ UNCHANGED vars
  BY <1>4 DEF ReadPackage, LoadState, InspectJournal, ValidateAtBroker, WriteTemporary,
     MoveTemporary, SendOrder, ReceiveReply, ReplacePackage, Expire, ToggleDisable, DeleteState,
     BrokerDecides
<1> QED BY StepCases, <1>1, <1>2, <1>3, <1>4

\* The last status after a line: that line's for its UUID, as before for the others.
LEMMA LastAppended ==
  ASSUME journal \in Seq(Records), LastExists, NEW r \in Records, journal' = Append(journal, r)
  PROVE  /\ LastExists'
         /\ LastStatus(r.uuid)' = r.status
         /\ \A u : u # r.uuid => LastStatus(u)' = LastStatus(u)
<1> DEFINE n == Len(journal) + 1
<1>1. /\ n \in Nat /\ DOMAIN journal' = DOMAIN journal \union {n} /\ n \notin DOMAIN journal
      /\ journal'[n] = r
      /\ \A k \in DOMAIN journal : k < n /\ k \in Nat /\ journal'[k] = journal[k]
  OBVIOUS
<1>2. Entries(r.uuid)' = Entries(r.uuid) \union {n}
  BY <1>1 DEF Entries
<1>3. \A u : u # r.uuid => Entries(u)' = Entries(u)
  BY <1>1 DEF Entries
<1>4. \A j \in Entries(r.uuid)' : j <= n
  BY <1>1, <1>2 DEF Entries
<1>5. LastExists'
  <2> SUFFICES ASSUME NEW u, Entries(u)' # {}
               PROVE  \E i \in Entries(u)' : \A j \in Entries(u)' : j <= i
    BY DEF LastExists
  <2>1. CASE u = r.uuid
    BY <1>2, <1>4, <2>1
  <2>2. CASE u # r.uuid
    BY <1>3, <2>2 DEF LastExists
  <2> QED BY <2>1, <2>2
<1>6. LastStatus(r.uuid)' = r.status
  <2> DEFINE c == CHOOSE i \in Entries(r.uuid)' : \A j \in Entries(r.uuid)' : j <= i
  <2>1. c \in Entries(r.uuid)' /\ \A j \in Entries(r.uuid)' : j <= c
    BY <1>2, <1>4
  <2>2. c = n
    <3>1. n <= c /\ c <= n /\ c \in Nat
      BY <1>1, <1>2, <1>4, <2>1 DEF Entries
    <3> QED BY <1>1, <3>1
  <2>3. Entries(r.uuid)' # {}
    BY <1>2
  <2>4. LastStatus(r.uuid)' = journal'[c].status
    BY <2>3 DEF LastStatus
  <2> QED BY <1>1, <2>2, <2>4
<1>7. ASSUME NEW u, u # r.uuid PROVE LastStatus(u)' = LastStatus(u)
  <2> DEFINE c == CHOOSE i \in Entries(u) : \A j \in Entries(u) : j <= i
  <2>1. CASE Entries(u) = {}
    BY <1>3, <1>7, <2>1 DEF LastStatus
  <2>2. CASE Entries(u) # {}
    <3>1. c \in Entries(u)
      BY <2>2 DEF LastExists
    <3>2. journal'[c] = journal[c]
      BY <1>1, <3>1 DEF Entries
    <3>3. LastStatus(u) = journal[c].status
      BY <2>2 DEF LastStatus
    <3>4. LastStatus(u)' = journal'[c].status
      BY <1>3, <1>7, <2>2 DEF LastStatus
    <3> QED BY <3>2, <3>3, <3>4
  <2> QED BY <2>1, <2>2
<1> QED BY <1>5, <1>6, <1>7

LEMMA LastSame ==
  ASSUME UNCHANGED journal
  PROVE  (LastExists => LastExists') /\ \A u : LastStatus(u)' = LastStatus(u)
<1>1. \A u : Entries(u)' = Entries(u)
  BY DEF Entries
<1>2. ASSUME NEW u PROVE LastStatus(u)' = LastStatus(u)
  <2> DEFINE c == CHOOSE i \in Entries(u) : \A j \in Entries(u) : j <= i
  <2>1. CASE Entries(u) = {}
    BY <1>1, <2>1 DEF LastStatus
  <2>2. CASE Entries(u) # {}
    <3>1. LastStatus(u) = journal[c].status
      BY <2>2 DEF LastStatus
    <3>2. LastStatus(u)' = journal'[c].status
      BY <1>1, <2>2 DEF LastStatus
    <3> QED BY <3>1, <3>2
  <2> QED BY <2>1, <2>2
<1>3. LastExists => LastExists'
  BY <1>1 DEF LastExists
<1> QED BY <1>2, <1>3

LEMMA ReturnPosition ==
  ASSUME Return PROVE Position'
BY NoneIsNoStatus DEF Return, Position, Untouched, Unanswered, Before, After, WasSent, Terminals

\* A failed publication, whether or not its line has reached the journal.
LEMMA NotPersistedPosition ==
  ASSUME LocalsOK, Position, pc \in {"append", "temp", "move"}, NotPersisted, UNCHANGED sent,
         pkg' = pkg => \/ Last' = Last
                       \/ publication \in Transitions /\ Last' = publication
  PROVE  Position'
<1>1. CASE publication \in {"SUBMITTING", "result"}
  <2>1. Persist("UNKNOWN_OUTCOME")
    BY <1>1 DEF NotPersisted, Terminals
  <2>2. pkg' = pkg /\ reply' = reply /\ pc' = "append" /\ publication' = "UNKNOWN_OUTCOME"
    BY <2>1 DEF Persist
  <2>3. Doubtful'
    <3>1. CASE publication = "SUBMITTING"
      <4>1. reply = None /\ Last \in {"ACCEPTED", "SUBMITTING"}
        BY <3>1 DEF Position, Unanswered, Before, After, Transitions
      <4> QED BY <2>2, <3>1, <4>1 DEF Doubtful
    <3>2. CASE publication = "result"
      <4>1. reply # None
        BY <3>2, NoneIsNew DEF LocalsOK
      <4>2. Last \in Terminals
        BY <3>2 DEF LocalsOK, Position, After, Transitions
      <4>3. Last' = Last
        BY <2>2, <3>2 DEF Transitions
      <4> QED BY <2>2, <4>1, <4>2, <4>3 DEF Doubtful
    <3> QED BY <1>1, <3>1, <3>2
  <2> QED BY <2>2, <2>3 DEF Position, Untouched, Unanswered, Before, After, WasSent, Terminals
<1>2. CASE /\ publication \notin {"SUBMITTING", "result"}
           /\ \/ publication \in Terminals
              \/ publication = "UNKNOWN_OUTCOME" /\ reply # None
  <2>1. Goto("fallback")
    BY <1>2 DEF NotPersisted
  <2>2. pkg' = pkg /\ reply' = reply /\ pc' = "fallback" /\ publication' = publication
    BY <2>1 DEF Goto
  <2>3. Resort'
    <3>1. reply # None
      BY <1>2, NoneIsNew DEF LocalsOK, Terminals
    <3>2. Last \in {"SUBMITTING"} \union Terminals \union {"UNKNOWN_OUTCOME"}
      BY <1>2, <3>1 DEF Position, Before, After, Doubtful, Terminals, Transitions
    <3> QED BY <1>2, <2>2, <3>1, <3>2 DEF Resort, Terminals
  <2> QED BY <1>2, <2>2, <2>3 DEF Position, Untouched, Unanswered, Before, After, WasSent, Terminals
<1>3. CASE /\ publication \notin {"SUBMITTING", "result"} \union Terminals
           /\ ~(publication = "UNKNOWN_OUTCOME" /\ reply # None)
  <2>1. Return
    BY <1>3 DEF NotPersisted
  <2> QED BY <2>1, ReturnPosition
<1> QED BY <1>1, <1>2, <1>3

LEMMA PersistedPosition ==
  ASSUME LocalsOK, Position, pc = "move", Persisted, UNCHANGED sent, pkg' = pkg => Last' = Last
  PROVE  Position'
<1> USE DEF Position, Untouched, Unanswered, Before, After, WasSent, Terminals
<1>1. CASE publication = "ACCEPTED"
  <2>1. Persist("SUBMITTING")
    BY <1>1 DEF Persisted
  <2> QED BY <1>1, <2>1 DEF Persist, Transitions
<1>2. CASE publication = "SUBMITTING"
  <2>1. Goto("send")
    BY <1>2 DEF Persisted
  <2> QED BY <1>2, <2>1 DEF Goto, Transitions
<1>3. CASE publication \in Terminals
  <2>1. pc' = "temp" /\ publication' = "result" /\ UNCHANGED <<pkg, stateSeq, reply>>
    BY <1>3 DEF Persisted
  <2> QED BY <1>3, <2>1 DEF Transitions
<1>4. CASE publication \notin {"ACCEPTED", "SUBMITTING"} \union Terminals
  <2>1. Return
    BY <1>4 DEF Persisted
  <2> QED BY <2>1, ReturnPosition
<1> QED BY <1>1, <1>2, <1>3, <1>4

LEMMA PositionStep ==
  ASSUME ~JournalUnopenable, TypeOK, LocalsOK, PositionInv, [Next]_vars
  PROVE  PositionInv'
<1> USE DEF feed, durable, broker, volatile
<1>0. Position /\ LastExists
  BY DEF PositionInv
<1>1. LastExists'
  <2>1. pc = "append" => Record(publication) \in Records
    BY RecordType DEF LocalsOK
  <2>2. pc = "fallback" => Record("UNKNOWN_OUTCOME") \in Records
    BY RecordType DEF LocalsOK, Transitions
  <2> QED BY <1>0, <2>1, <2>2, JournalSteps, LastSame, LastAppended DEF TypeOK
<1>2. CASE ReadPackage \/ LoadState \/ InspectJournal \/ ValidateAtBroker
  <2>1. pc \in {"idle", "load", "inspect", "broker"} /\ publication = None /\ reply = None
        /\ UNCHANGED <<sent, journal>>
    BY <1>0, <1>2 DEF ReadPackage, LoadState, InspectJournal, ValidateAtBroker, Position, Untouched
  <2> SUFFICES Position'
    BY <1>1 DEF PositionInv
  <2>2. CASE Return
    BY <2>2, ReturnPosition
  <2>3. CASE pc' \in {"load", "inspect"} /\ UNCHANGED <<publication, reply>>
    BY <2>1, <2>3, NoneIsNoStatus DEF Position, Untouched, Unanswered, Before, After, WasSent,
       Terminals
  <2>4. pkg' = pkg => Last' = Last
    BY <2>1, LastSame DEF Last
  <2>5. CASE Goto("fallback") /\ Last = "SUBMITTING"
    BY <2>1, <2>4, <2>5, NoneIsNoStatus DEF Goto, Position, Untouched, Unanswered, Before, After,
       Resort, WasSent, Terminals
  <2>6. CASE Goto("broker") /\ Last = None
    BY <2>1, <2>4, <2>6, NoneIsNoStatus DEF Goto, Position, Untouched, Unanswered, Before, After,
       WasSent, Terminals
  <2>7. CASE pc = "broker" /\ Persist("ACCEPTED")
    BY <1>0, <2>1, <2>4, <2>7, NoneIsNoStatus DEF Persist, Position, Untouched, Unanswered, Before,
       After, WasSent, Terminals
  <2>8. ReadPackage \/ LoadState =>
          \/ Return
          \/ pc' \in {"load", "inspect"} /\ UNCHANGED <<publication, reply>>
    <3>1. ReadPackage => pc' = "load" /\ UNCHANGED <<publication, reply>>
      BY DEF ReadPackage
    <3>2. LoadState => \/ Return
                       \/ pc' = "inspect" /\ UNCHANGED <<pkg, publication, reply>>
      BY DEF LoadState
    <3> QED BY <3>1, <3>2
  <2>9. InspectJournal => \/ Return
                          \/ Goto("fallback") /\ Last = "SUBMITTING"
                          \/ Goto("broker") /\ Last = None
    BY DispatchCases DEF InspectJournal, Last
  <2>10. ValidateAtBroker => Return \/ (pc = "broker" /\ Persist("ACCEPTED"))
    BY DEF ValidateAtBroker
  <2> QED BY <1>1, <1>2, <2>2, <2>3, <2>5, <2>6, <2>7, <2>8, <2>9, <2>10
<1>3. CASE AppendTransition
  <2>0. pc = "append" /\ UNCHANGED sent /\ pkg \in Packages /\ publication \in Transitions
    BY <1>3 DEF AppendTransition, LocalsOK
  <2>1. /\ journal \in Seq(Records) /\ Record(publication) \in Records
        /\ Record(publication).uuid = pkg.uuid /\ Record(publication).status = publication
    BY <2>0, RecordType DEF TypeOK, Record
  <2>2. ASSUME journal' = Append(journal, Record(publication)), pkg' = pkg
        PROVE  Last' = publication
    <3>1. PICK r \in Records : r = Record(publication)
      BY <2>1
    <3>2. LastStatus(r.uuid)' = publication
      BY <1>0, <2>1, <2>2, <3>1, LastAppended
    <3> QED BY <2>1, <2>2, <3>1, <3>2 DEF Last
  <2>4. ASSUME journal' = journal, pkg' = pkg PROVE Last' = Last
    BY <2>4, LastSame DEF Last
  <2>5. CASE NotPersisted
    <3>1. journal' = journal \/ journal' = Append(journal, Record(publication))
      BY <1>3 DEF AppendTransition, WriteLine, WritePart
    <3>2. Position'
      BY <1>0, <2>0, <2>2, <2>4, <2>5, <3>1, NotPersistedPosition
    <3> QED BY <1>1, <3>2 DEF PositionInv
  <2>6. CASE WriteLine(Record(publication)) /\ Goto("temp")
    <3>1. pc' = "temp" /\ UNCHANGED <<pkg, publication, reply>> /\ Last' = publication
      BY <2>2, <2>6 DEF Goto, WriteLine
    <3>2. Position'
      BY <1>0, <2>0, <3>1 DEF Position, Untouched, Unanswered, Before, After, WasSent, Terminals,
         Transitions
    <3> QED BY <1>1, <3>2 DEF PositionInv
  <2> QED BY <1>3, <2>5, <2>6 DEF AppendTransition
<1>4. CASE AppendUnknownOutcome \/ Crash
  BY <1>1, <1>4, ReturnPosition DEF AppendUnknownOutcome, Crash, PositionInv
<1>5. CASE WriteTemporary
  <2>0. pc = "temp" /\ UNCHANGED <<sent, journal>>
    BY <1>5 DEF WriteTemporary
  <2>1. pkg' = pkg => Last' = Last
    BY <2>0, LastSame DEF Last
  <2>2. CASE NotPersisted
    BY <1>0, <1>1, <2>0, <2>1, <2>2, NotPersistedPosition DEF PositionInv
  <2>3. CASE Goto("move")
    <3>1. Position'
      BY <1>0, <2>0, <2>1, <2>3 DEF Goto, Position, Untouched, Unanswered, Before, After, WasSent,
         Terminals
    <3> QED BY <1>1, <3>1 DEF PositionInv
  <2> QED BY <1>5, <2>2, <2>3 DEF WriteTemporary
<1>6. CASE MoveTemporary
  <2>0. pc = "move" /\ UNCHANGED <<sent, journal>> /\ (Persisted \/ NotPersisted)
    BY <1>6 DEF MoveTemporary
  <2>1. pkg' = pkg => Last' = Last
    BY <2>0, LastSame DEF Last
  <2> QED BY <1>0, <1>1, <2>0, <2>1, PersistedPosition, NotPersistedPosition DEF PositionInv
<1>7. CASE SendOrder
  <2>1. pc = "send" /\ pc' = "await" /\ sent' = Append(sent, pkg)
        /\ UNCHANGED <<pkg, publication, reply, journal>>
    BY <1>7 DEF SendOrder, Goto
  <2>2. Last' = Last
    BY <2>1, LastSame DEF Last
  <2>3. sent \in Seq(Packages) /\ pkg \in Packages
    BY <2>1 DEF TypeOK, LocalsOK
  <2>4. Len(sent) + 1 \in DOMAIN sent' /\ sent'[Len(sent) + 1] = pkg
    BY <2>1, <2>3
  <2>5. Position'
    BY <1>0, <2>1, <2>2, <2>4 DEF Position, Untouched, Unanswered, Before, After, WasSent, Terminals
  <2> QED BY <1>1, <2>5 DEF PositionInv
<1>8. CASE ReceiveReply
  <2>1. pc = "await" /\ pc' = "append" /\ publication' \in Terminals
        /\ UNCHANGED <<pkg, sent, journal>>
    BY <1>8 DEF ReceiveReply, Terminals
  <2>2. Last' = Last
    BY <2>1, LastSame DEF Last
  <2>3. Position'
    BY <1>0, <2>1, <2>2 DEF Position, Untouched, Unanswered, Before, After, WasSent, Terminals
  <2> QED BY <1>1, <2>3 DEF PositionInv
<1>9. CASE ReplacePackage \/ Expire \/ ToggleDisable \/ DeleteState \/ BrokerDecides
           \/ UNCHANGED vars
  <2>1. UNCHANGED <<journal, volatile, sent>>
    BY <1>9 DEF ReplacePackage, Expire, ToggleDisable, DeleteState, BrokerDecides, vars
  <2>2. Last' = Last
    BY <2>1, LastSame DEF Last
  <2>3. Position'
    BY <1>0, <2>1, <2>2 DEF Position, Untouched, Unanswered, Before, After, Doubtful, Resort, WasSent
  <2> QED BY <1>1, <2>3 DEF PositionInv
<1> QED BY StepCases, <1>2, <1>3, <1>4, <1>5, <1>6, <1>7, <1>8, <1>9
-----------------------------------------------------------------------------
(* The life of a UUID and the promise, from the position of the candidate.    *)

\* A line that is added may follow the last one of its UUID.
LEMMA LineFollows ==
  ASSUME LocalsOK, Position
  PROVE  /\ pc = "append" => publication \in Successors(Last)
         /\ pc = "fallback" => "UNKNOWN_OUTCOME" \in Successors(Last)
<1>1. ASSUME pc = "append" PROVE publication \in Successors(Last)
  <2>1. publication \in Transitions
    BY <1>1 DEF LocalsOK
  <2>2. CASE publication \in {"ACCEPTED", "SUBMITTING"}
    BY <1>1, <2>2, NoneIsNoStatus DEF Position, Before, Successors
  <2>3. CASE publication \in Terminals
    BY <1>1, <2>3, NoneIsNoStatus DEF Position, Before, Successors, Terminals
  <2>4. CASE publication = "UNKNOWN_OUTCOME"
    BY <1>1, <2>4, NoneIsNoStatus DEF Position, Before, Doubtful, Successors, Terminals
  <2> QED BY <2>1, <2>2, <2>3, <2>4 DEF Transitions, Terminals
<1>2. ASSUME pc = "fallback" PROVE "UNKNOWN_OUTCOME" \in Successors(Last)
  BY <1>2, NoneIsNoStatus DEF Position, Before, Resort, Successors, Terminals
<1> QED BY <1>1, <1>2

LEMMA PositionInit == Init => PositionInv
<1> SUFFICES ASSUME Init PROVE PositionInv
  OBVIOUS
<1>1. LastExists
  BY DEF Init, LastExists, Entries
<1>2. Position
  BY NoneIsNoStatus DEF Init, Position, Untouched, Unanswered, Before, After, WasSent, Terminals
<1> QED BY <1>1, <1>2 DEF PositionInv

\* Provided an existing journal can be opened, the statuses of a UUID follow one
\* another on it as PersistTransition's callers intend (OnTick lines 518-571),
\* across crashes, failed writes and replays.
THEOREM Lifecycle == ASSUME ~JournalUnopenable PROVE Spec => JournalFollowsLifecycle
<1> DEFINE Follows ==
      \/ journal' = journal
      \/ /\ Len(journal') = Len(journal) + 1
         /\ SubSeq(journal', 1, Len(journal)) = journal
         /\ LET r == journal'[Len(journal')]
            IN  r.status \in Successors(LastStatus(r.uuid))
<1>1. TypeOK /\ LocalsOK /\ PositionInv /\ [Next]_vars => PositionInv'
  BY PositionStep
<1>2. TypeOK /\ LocalsOK /\ PositionInv /\ [Next]_vars => [Follows]_vars
  <2> SUFFICES ASSUME TypeOK, LocalsOK, PositionInv, [Next]_vars PROVE Follows
    OBVIOUS
  <2>1. ASSUME NEW r \in Records, journal' = Append(journal, r),
               r.status \in Successors(LastStatus(r.uuid))
        PROVE  Follows
    <3>1. journal \in Seq(Records)
      BY DEF TypeOK
    <3>2. Len(journal') = Len(journal) + 1 /\ journal'[Len(journal')] = r
      BY <2>1, <3>1
    <3>3. SubSeq(journal', 1, Len(journal)) = journal
      BY <2>1, <3>1
    <3> QED BY <2>1, <3>2, <3>3
  <2>2. CASE pc = "append" /\ journal' = Append(journal, Record(publication))
    <3>1. Record(publication) \in Records
      BY <2>2, RecordType DEF LocalsOK
    <3>2. Record(publication).status \in Successors(LastStatus(Record(publication).uuid))
      BY <2>2, LineFollows DEF PositionInv, Last, Record
    <3> QED BY <2>1, <2>2, <3>1, <3>2
  <2>3. CASE pc = "fallback" /\ journal' = Append(journal, Record("UNKNOWN_OUTCOME"))
    <3>1. Record("UNKNOWN_OUTCOME") \in Records
      BY <2>3, RecordType DEF LocalsOK, Transitions
    <3>2. Record("UNKNOWN_OUTCOME").status \in Successors(LastStatus(Record("UNKNOWN_OUTCOME").uuid))
      BY <2>3, LineFollows DEF PositionInv, Last, Record
    <3> QED BY <2>1, <2>3, <3>1, <3>2
  <2> QED BY <2>2, <2>3, JournalSteps
<1> QED BY <1>1, <1>2, PositionInit, TypeCorrect, PTL DEF Spec, JournalFollowsLifecycle
-----------------------------------------------------------------------------
(* The promise: every step of the executor is a step of it, or none.          *)

Phases == [u \in Uuids |-> Phase(LastStatus(u))]

\* A line moves the phase of its UUID and no other.
LEMMA LineMoves ==
  ASSUME TypeOK, LastExists, NEW r \in Records, journal' = Append(journal, r)
  PROVE  Phases' = [Phases EXCEPT ![r.uuid] = Phase(r.status)]
<1>1. journal \in Seq(Records) /\ r.uuid \in Uuids
  BY DEF TypeOK, Records
<1>2. LastStatus(r.uuid)' = r.status /\ \A u : u # r.uuid => LastStatus(u)' = LastStatus(u)
  BY <1>1, LastAppended
<1>3. \A u \in Uuids : Phases'[u] = IF u = r.uuid THEN Phase(r.status) ELSE Phases[u]
  BY <1>2 DEF Phases
<1> QED BY <1>1, <1>3 DEF Phases

\* A package that is newer than every one sent has another UUID than each.
LEMMA CandidateIsOther ==
  ASSUME TypeOK, MonotonicInv, PreSend, pkg \in Packages
  PROVE  Promise!Newest(pkg)
<1> SUFFICES ASSUME NEW i \in DOMAIN sent
             PROVE  sent[i].seq < pkg.seq /\ sent[i].uuid # pkg.uuid
  BY DEF Promise!Newest
<1>1. sent[i].seq < pkg.seq
  BY DEF MonotonicInv, CandidateIsNewest
<1>2. sent[i] \in Packages
  BY DEF TypeOK
<1>3. sent[i].seq \in Nat
  BY <1>2, PackagesAssumption
<1>4. sent[i].uuid # pkg.uuid
  BY <1>1, <1>2, <1>3, PackagesAssumption
<1> QED BY <1>1, <1>4

\* A line of the candidate is a step of the promise, or leaves it unknown.
LEMMA LineKeepsPromise ==
  ASSUME TypeOK, LocalsOK, PositionInv, MonotonicInv, UNCHANGED sent, NEW status \in Transitions,
         journal' = Append(journal, Record(status)),
         \/ pc = "append" /\ status = publication
         \/ pc = "fallback" /\ status = "UNKNOWN_OUTCOME"
  PROVE  UNCHANGED <<Phases, sent>> \/ Promise!Next
<1>0. Position /\ LastExists /\ pkg \in Packages
  BY DEF PositionInv, LocalsOK
<1>1. Record(status) \in Records /\ Record(status).uuid = pkg.uuid
      /\ Record(status).status = status /\ pkg.uuid \in Uuids
  BY <1>0, RecordType DEF Record, Uuids
<1>2. Phases' = [Phases EXCEPT ![pkg.uuid] = Phase(status)]
  BY <1>0, <1>1, LineMoves
<1>3. Phases[pkg.uuid] = Phase(Last)
  BY <1>1 DEF Phases, Last
<1> USE NoneIsNoStatus DEF Phase, Terminals
<1>4. CASE status = "ACCEPTED"
  <2>1. pc = "append" /\ publication = "ACCEPTED" /\ Last = None
    BY <1>0, <1>4 DEF Position, Before
  <2>2. Promise!Newest(pkg)
    BY <1>0, <2>1, CandidateIsOther DEF PreSend
  <2>3. Promise!Move(pkg, {"unseen"}, "accepted")
    BY <1>2, <1>3, <1>4, <2>1 DEF Promise!Move, Phases
  <2> QED BY <1>0, <2>2, <2>3 DEF Promise!Next, Promise!Accept
<1>5. CASE status = "SUBMITTING"
  <2>1. Last = "ACCEPTED"
    BY <1>0, <1>5 DEF Position, Before
  <2>2. Promise!Move(pkg, {"accepted"}, "intended")
    BY <1>2, <1>3, <1>5, <2>1 DEF Promise!Move, Phases
  <2> QED BY <1>0, <2>2 DEF Promise!Next, Promise!Intend
<1>6. CASE status \in {"SUBMITTED", "REJECTED"}
  <2>1. Last = "SUBMITTING" /\ \E i \in DOMAIN sent : sent[i] = pkg
    BY <1>0, <1>6 DEF Position, Before, WasSent
  <2>2. Promise!Move(pkg, {"intended"}, "settled")
    BY <1>2, <1>3, <1>6, <2>1 DEF Promise!Move, Phases
  <2> QED BY <1>0, <2>1, <2>2 DEF Promise!Next, Promise!Settle
<1>7. CASE status = "UNKNOWN_OUTCOME"
  <2>1. Last \in {"ACCEPTED", "SUBMITTING", "SUBMITTED", "REJECTED", "UNKNOWN_OUTCOME"}
    BY <1>0, <1>7 DEF Position, Before, Doubtful, Resort
  <2>2. CASE Last = "UNKNOWN_OUTCOME"
    BY <1>2, <1>3, <1>7, <2>2 DEF Phases
  <2>3. CASE Last # "UNKNOWN_OUTCOME"
    <3>1. Promise!Move(pkg, {"accepted", "intended", "settled"}, "unknown")
      BY <1>2, <1>3, <1>7, <2>1, <2>3 DEF Promise!Move, Phases
    <3> QED BY <1>0, <3>1 DEF Promise!Next, Promise!Doubt
  <2> QED BY <2>2, <2>3
<1> QED BY <1>4, <1>5, <1>6, <1>7 DEF Transitions

LEMMA PromiseStep ==
  ASSUME TypeOK, LocalsOK, PositionInv, MonotonicInv, [Next]_vars
  PROVE  UNCHANGED <<Phases, sent>> \/ Promise!Next
<1>1. CASE SendOrder
  <2>1. pc = "send" /\ sent' = Append(sent, pkg) /\ UNCHANGED journal /\ pkg \in Packages
    BY <1>1 DEF SendOrder, durable, LocalsOK
  <2>2. UNCHANGED Phases
    BY <2>1, LastSame DEF Phases
  <2>3. Promise!Newest(pkg)
    BY <2>1, CandidateIsOther DEF PreSend
  <2>4. Phases[pkg.uuid] = "intended"
    <3>1. LastStatus(pkg.uuid) = "SUBMITTING" /\ pkg.uuid \in Uuids
      BY <2>1 DEF PositionInv, Position, After, Last, Uuids
    <3>2. Phase("SUBMITTING") = "intended"
      BY NoneIsNoStatus DEF Phase, Terminals
    <3> QED BY <3>1, <3>2 DEF Phases
  <2> QED BY <2>1, <2>2, <2>3, <2>4 DEF Promise!Next, Promise!Submit, Phases
<1>2. CASE pc = "append" /\ sent' = sent /\ journal' = Append(journal, Record(publication))
  BY <1>2, LineKeepsPromise DEF LocalsOK
<1>3. CASE pc = "fallback" /\ sent' = sent /\ journal' = Append(journal, Record("UNKNOWN_OUTCOME"))
  BY <1>3, LineKeepsPromise DEF Transitions
<1>4. CASE journal' = journal /\ ~SendOrder
  <2>1. sent' = sent
    BY <1>4, StepCases DEF AppendTransition, AppendUnknownOutcome, Crash, ReadPackage, LoadState,
       InspectJournal, ValidateAtBroker, WriteTemporary, MoveTemporary, ReceiveReply,
       ReplacePackage, Expire, ToggleDisable, DeleteState, BrokerDecides, vars, broker
  <2>2. UNCHANGED Phases
    BY <1>4, LastSame DEF Phases
  <2> QED BY <2>1, <2>2
<1> QED BY <1>1, <1>2, <1>3, <1>4, JournalSteps

\* The executor implements what it promises the rest of the system, for every set
\* of packages and any number of faults, provided an existing journal can be opened.
THEOREM Refinement == ASSUME ~JournalUnopenable PROVE Spec => KeepsPromise
<1>1. Init => Promise!Init
  <2> SUFFICES ASSUME Init PROVE Promise!Init
    OBVIOUS
  <2>1. \A u : LastStatus(u) = None
    BY DEF Init, LastStatus, Entries
  <2>2. Phases = [u \in Uuids |-> "unseen"]
    <3>1. Phase(None) = "unseen"
      BY NoneIsNoStatus DEF Phase, Terminals
    <3> QED BY <2>1, <3>1 DEF Phases
  <2> QED BY <2>2 DEF Init, Promise!Init, Promise!Uuids, Phases, Uuids
<1>2. TypeOK /\ LocalsOK /\ PositionInv /\ [Next]_vars => PositionInv'
  BY PositionStep
<1>3. TypeOK /\ LocalsOK /\ MonotonicInv /\ [Next]_vars => MonotonicInv'
  BY MonotonicStep DEF Retained
<1>4. TypeOK /\ LocalsOK /\ PositionInv /\ MonotonicInv /\ [Next]_vars
        => [UNCHANGED Promise!vars \/ Promise!Next]_Promise!vars
  BY PromiseStep DEF Promise!vars, Phases
<1> QED BY <1>1, <1>2, <1>3, <1>4, PositionInit, MonotonicInit, TypeCorrect, PTL
        DEF Spec, KeepsPromise, Promise!Spec
=============================================================================
