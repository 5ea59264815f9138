------------------------------ MODULE MarketFeed ------------------------------
(***************************************************************************)
(* market_state.json from the MT5 terminal to the Python reader: the expert *)
(* that writes it (RP_Market_State_Writer_V14..., one per chart, one allowed *)
(* to work), the script that carries it to the other machine                *)
(* (sync_market_state_to_pc...ps1) and GovernedMarketStateReader.           *)
(*                                                                         *)
(* The writers keep each other out by a terminal global, swapped on         *)
(* condition and leased by a second global, the heartbeat.  A snapshot's    *)
(* number is committed by its publication and journalled afterwards; a new  *)
(* writer resumes from the larger of the two.  The inputs are the expert's  *)
(* defaults: FILE_COMMON, no bridge directory.                              *)
(***************************************************************************)
EXTENDS Integers, Sequences, FiniteSets

CONSTANTS
  Charts,          \* the charts the expert is attached to
  None,            \* no chart, nothing seen yet
  MaxSnapshots,    \* bound: snapshots published
  MaxFaults,       \* bound: crashes, failed operations, lost files, restarts
  Late             \* may a working expert miss its timer for the length of a lease?

ASSUME FeedAssumption ==
  /\ None \notin Charts /\ None \notin Nat
  /\ MaxSnapshots \in Nat /\ MaxFaults \in Nat /\ Late \in BOOLEAN

VARIABLES
  owner,      \* terminal global: the chart that owns the mutex, None for zero
  beat,       \* its ".hb" global: "fresh", or "over" (older than the lease, zero or missing)
  journal,    \* market_state.sequence: the number recorded, 0 without the file
  common,     \* market_state.json: which snapshot of "published" it holds, 0 without the file
  published,  \* history: the numbers published, in order of time
  step,       \* where each chart's expert is
  expected,   \* AcquireWriterOwnership's owner_value
  sequence,   \* g_market_state_sequence_id of each expert
  contested,  \* history: were two experts ever inside the mutex together?
  target,     \* market_state.json on the far side, as "common"
  script,     \* the loop of the synchronisation script
  opened,     \* the snapshot the reader is reading, 0 once the file was replaced, or None
  last,       \* the reader's _last_sequence
  given,      \* history: the last snapshot read() has returned
  aged,       \* on the reader's clock, the snapshots up to this one are older than its limit
  faults

wvars == <<owner, beat, journal, common, published, step, expected, sequence, contested>>
rvars == <<opened, last, given, aged>>
vars == <<wvars, target, script, rvars, faults>>

Largest(m, n) == IF m >= n THEN m ELSE n

\* The number of the k-th snapshot published; a missing file counts as 0.
Number(k) == IF k = 0 THEN 0 ELSE published[k]

\* The script between two loops: "last" is lastSeenSequence.
Rest(seen) == [at |-> "peek", last |-> seen, key |-> None, copy |-> 0]

Init ==
  /\ owner = None /\ beat = "over" /\ journal = 0 /\ common = 0 /\ published = <<>>
  /\ step = [c \in Charts |-> "off"]
  /\ expected = [c \in Charts |-> None] /\ sequence = [c \in Charts |-> 0]
  /\ contested = FALSE
  /\ target = 0 /\ script = Rest(None)
  /\ opened = None /\ last = None /\ given = 0 /\ aged = 0
  /\ faults = 0

Fault == faults < MaxFaults /\ faults' = faults + 1
NoFault == UNCHANGED faults

-----------------------------------------------------------------------------
(* The expert.                                                              *)

Inside == {c \in Charts : step[c] \in {"beat", "restore", "ready", "persist"}}

Goto(c, label) == step' = [step EXCEPT ![c] = label]

\* An expert that ends takes its globals with it.
End(c) == Goto(c, "off") /\ sequence' = [sequence EXCEPT ![c] = 0]

\* recover_abandoned: the owner is this chart, its lease is over, or its chart
\* has been closed.  An expert that is gone may have left its chart open.
Abandoned(c) == \/ owner = c
                \/ beat = "over"
                \/ owner \in Charts /\ step[owner] = "off"

\* OnInit as far as the swap of AcquireWriterOwnership, which reads the owner and
\* its lease.  A change of owner between the reads and the swap is for the swap to
\* notice.  Where another chart owns a lease that runs, the initialisation fails.
Look(c) ==
  /\ step[c] = "off" /\ (owner = None \/ Abandoned(c)) /\ NoFault
  /\ expected' = [expected EXCEPT ![c] = owner] /\ Goto(c, "swap")
  /\ UNCHANGED <<owner, beat, journal, common, published, sequence, contested,
                 target, script, rvars>>

\* GlobalVariableSetOnCondition; after a lost swap the owner is looked at
\* again, four times at most, as in a new initialisation.
Swap(c) ==
  /\ step[c] = "swap" /\ NoFault
  /\ expected' = [expected EXCEPT ![c] = None]
  /\ IF owner = expected[c]
     THEN /\ owner' = c /\ Goto(c, "beat")
          /\ contested' = (contested \/ Inside # {})
     ELSE /\ Goto(c, "off") /\ UNCHANGED <<owner, contested>>
  /\ UNCHANGED <<beat, journal, common, published, sequence, target, script, rvars>>

\* LoadSequence's first heartbeat.
Beat(c) ==
  /\ step[c] = "beat" /\ Goto(c, "restore") /\ NoFault
  /\ beat' = "fresh"
  /\ UNCHANGED <<owner, journal, common, published, expected, sequence, contested,
                 target, script, rvars>>

\* A mistake: the journal alone is restored.
Restore_journalOnly(c) ==
  /\ step[c] = "restore"
  /\ \/ /\ sequence' = [sequence EXCEPT ![c] = journal]
        /\ Goto(c, "ready") /\ NoFault
     \/ UNCHANGED sequence /\ Goto(c, "release") /\ Fault
  /\ UNCHANGED <<owner, beat, journal, common, published, expected, contested,
                 target, script, rvars>>

\* The rest of LoadSequence: journal and publication are reconciled; one that
\* exists but cannot be read or parsed ends the initialisation.
Restore(c) ==
  /\ step[c] = "restore"
  /\ \/ /\ sequence' = [sequence EXCEPT ![c] = Largest(journal, Number(common))]
        /\ Goto(c, "ready") /\ NoFault
     \/ UNCHANGED sequence /\ Goto(c, "release") /\ Fault
  /\ UNCHANGED <<owner, beat, journal, common, published, expected, contested,
                 target, script, rvars>>

\* WriteTextCommonAtomic: the new document replaces the old one at a stroke.
Publish(n) == published' = Append(published, n) /\ common' = Len(published) + 1

\* OnTick publishes the next number, whoever owns the mutex by now.  Without
\* indicators or telemetry, or if nothing can be written, nothing happens.
OnTick(c) ==
  /\ step[c] = "ready" /\ Len(published) < MaxSnapshots
  /\ Publish(sequence[c] + 1) /\ sequence' = [sequence EXCEPT ![c] = @ + 1]
  /\ Goto(c, "persist") /\ NoFault
  /\ UNCHANGED <<owner, beat, journal, expected, contested, target, script, rvars>>

\* PersistSequence; if it fails, the expert removes itself.
PersistSequence(c) ==
  /\ step[c] = "persist"
  /\ \/ journal' = sequence[c] /\ Goto(c, "ready") /\ NoFault
     \/ UNCHANGED journal /\ Goto(c, "release") /\ Fault
  /\ UNCHANGED <<owner, beat, common, published, expected, sequence, contested,
                 target, script, rvars>>

\* OnTimer: only the owner renews the lease.
OnTimer(c) ==
  /\ step[c] = "ready" /\ owner = c /\ beat' = "fresh" /\ NoFault
  /\ UNCHANGED <<owner, journal, common, published, step, expected, sequence, contested,
                 target, script, rvars>>

\* The operator takes the expert off its chart, or recompiles it: OnDeinit.
Detach(c) ==
  /\ step[c] = "ready" /\ Goto(c, "release") /\ NoFault
  /\ UNCHANGED <<owner, beat, journal, common, published, expected, sequence, contested,
                 target, script, rvars>>

\* ReleaseWriterOwnership gives the mutex back on condition, ...
ReleaseOwner(c) ==
  /\ step[c] = "release" /\ NoFault
  /\ \/ owner = c /\ owner' = None /\ Goto(c, "unbeat") /\ UNCHANGED sequence
     \/ owner # c /\ UNCHANGED owner /\ End(c)
  /\ UNCHANGED <<beat, journal, common, published, expected, contested,
                 target, script, rvars>>

\* ... and then deletes the heartbeat, whosever it is by now.
DeleteBeat(c) ==
  /\ step[c] = "unbeat" /\ End(c) /\ NoFault
  /\ beat' = "over"
  /\ UNCHANGED <<owner, journal, common, published, expected, contested,
                 target, script, rvars>>

Writer(c) == \/ Look(c) \/ Swap(c) \/ Beat(c) \/ Restore(c)
             \/ OnTick(c) \/ PersistSequence(c) \/ OnTimer(c)
             \/ Detach(c) \/ ReleaseOwner(c) \/ DeleteBeat(c)

-----------------------------------------------------------------------------
(* The terminal and its files.                                              *)

\* The heartbeat of an owner that works is renewed every 5 of its 30 seconds.
Working == {c \in Charts : step[c] \in {"restore", "ready", "persist", "release"}}

Expire ==
  /\ beat = "fresh" /\ (Late \/ owner \notin Working)
  /\ beat' = "over" /\ NoFault
  /\ UNCHANGED <<owner, journal, common, published, step, expected, sequence, contested,
                 target, script, rvars>>

\* An expert ends without OnDeinit.
Abort(c) ==
  /\ step[c] # "off" /\ End(c) /\ Fault
  /\ expected' = [expected EXCEPT ![c] = None]
  /\ UNCHANGED <<owner, beat, journal, common, published, contested,
                 target, script, rvars>>

\* The terminal ends; temporary globals go with it.
Crash ==
  /\ owner' = None /\ beat' = "over" /\ step' = [c \in Charts |-> "off"] /\ Fault
  /\ expected' = [c \in Charts |-> None] /\ sequence' = [c \in Charts |-> 0]
  /\ UNCHANGED <<journal, common, published, contested,
                 target, script, rvars>>

\* One of the two records is deleted while the other covers it.
LoseRecord ==
  /\ \/ Number(common) >= journal /\ journal' = 0 /\ UNCHANGED common
     \/ journal >= Number(common) /\ common' = 0 /\ UNCHANGED journal
  /\ Fault
  /\ UNCHANGED <<owner, beat, published, step, expected, sequence, contested,
                 target, script, rvars>>

-----------------------------------------------------------------------------
(* Sync-MarketStateAlwaysAtomic.                                            *)

\* The number is compared with the last one carried; equal, the loop is over.
\* A file that cannot be parsed has its time compared instead (None).
Peek ==
  /\ script.at = "peek" /\ common # 0
  /\ \/ /\ Number(common) # script.last /\ NoFault
        /\ script' = [script EXCEPT !.at = "copy", !.key = Number(common)]
     \/ script' = [script EXCEPT !.at = "copy", !.key = None] /\ Fault
  /\ UNCHANGED <<wvars, target, rvars>>

\* The source as it is now goes to a temporary file next to the target.
Copy ==
  /\ script.at = "copy"
  /\ \/ /\ common # 0 /\ NoFault
        /\ script' = [script EXCEPT !.at = "move", !.copy = common]
     \/ common = 0 /\ script' = Rest(script.last) /\ NoFault
     \/ script' = Rest(script.last) /\ Fault
  /\ UNCHANGED <<wvars, target, rvars>>

\* A mistake: a number counts as carried although the target was locked.
Move_countsAnyway ==
  /\ script.at = "move" /\ script' = Rest(script.key)
  /\ \/ /\ target' = script.copy /\ NoFault
        /\ opened' = (IF opened = None THEN None ELSE 0)
     \/ UNCHANGED <<target, opened>> /\ Fault
  /\ UNCHANGED <<wvars, last, given, aged>>

\* The temporary file replaces the target; a locked target is left as it is.
Move ==
  /\ script.at = "move"
  /\ \/ /\ target' = script.copy /\ script' = Rest(script.key) /\ NoFault
        /\ opened' = (IF opened = None THEN None ELSE 0)
     \/ /\ script' = Rest(script.last) /\ Fault
        /\ UNCHANGED <<target, opened>>
  /\ UNCHANGED <<wvars, last, given, aged>>

\* The script is ended and started again.
RestartScript ==
  /\ script' = Rest(None) /\ Fault
  /\ UNCHANGED <<wvars, target, rvars>>

Script == Peek \/ Copy \/ Move

-----------------------------------------------------------------------------
(* GovernedMarketStateReader.                                               *)

Open ==
  /\ opened = None /\ target # 0 /\ opened' = target /\ NoFault
  /\ UNCHANGED <<wvars, target, script, last, given, aged>>

\* Not replaced meanwhile, not STALE_HEARTBEAT, and with a number above the last.
Acceptable(k) == k > aged /\ (last # None => Number(k) > last)

\* read() returns it or refuses it.  A number is remembered when every check has
\* succeeded.  The faults are a failed read and a heartbeat still ahead of the
\* reader's clock, which the next read may find gone.
Finish ==
  /\ opened # None /\ opened' = None
  /\ \/ Acceptable(opened) /\ last' = Number(opened) /\ given' = opened /\ NoFault
     \/ ~ Acceptable(opened) /\ UNCHANGED <<last, given>> /\ NoFault
     \/ UNCHANGED <<last, given>> /\ Fault
  /\ UNCHANGED <<wvars, target, script, aged>>

RestartReader ==
  /\ opened' = None /\ last' = None /\ Fault
  /\ UNCHANGED <<wvars, target, script, given, aged>>

Reader == Open \/ Finish

\* Time passes: the snapshot that has arrived is over the limit by now, and stays
\* so.  One that is delayed may be so on arrival; nothing asks for its age before.
Age ==
  /\ aged < target /\ aged' = target /\ NoFault
  /\ UNCHANGED <<wvars, target, script, opened, last, given>>

-----------------------------------------------------------------------------
Next == \/ \E c \in Charts : Writer(c) \/ Abort(c)
        \/ Expire \/ Crash \/ LoseRecord
        \/ Script \/ RestartScript
        \/ Reader \/ RestartReader \/ Age

Spec == Init /\ [][Next]_vars

-----------------------------------------------------------------------------
Snapshots == 0 .. Len(published)

\* Types: every variable has the values the code can give it.
FeedTypeOK ==
  /\ owner \in Charts \cup {None} /\ beat \in {"fresh", "over"}
  /\ journal \in Nat /\ published \in Seq(Nat \ {0}) /\ common \in Snapshots
  /\ step \in [Charts -> {"off", "swap", "beat", "restore", "ready", "persist",
                         "release", "unbeat"}]
  /\ expected \in [Charts -> Charts \cup {None}] /\ sequence \in [Charts -> Nat]
  /\ contested \in BOOLEAN
  /\ target \in Snapshots /\ given \in Snapshots /\ aged \in Snapshots
  /\ script \in [at : {"peek", "copy", "move"}, last : Nat \cup {None},
                 key : Nat \cup {None}, copy : Snapshots]
  /\ opened \in Snapshots \cup {None} /\ last \in Nat \cup {None}
  /\ faults \in 0 .. MaxFaults

\* No number is published twice and none below an earlier one: whichever chart
\* writes, whatever dies between publication and journal, whatever the journal
\* refuses and whichever one record is deleted, as long as the mutex holds.
NumbersGrow == contested \/ \A i, j \in DOMAIN published : i < j => published[i] < published[j]

\* The two loops run: the script's every 500 ms, the reader's in the runtime's.
Fairness == WF_vars(Script) /\ WF_vars(Reader)

\* The last snapshot published under an intact mutex arrives on the other
\* machine, whatever is restarted, locked or replaced on the way, and read()
\* returns it, unless it grew older than the reader's limit before it could be
\* read: then it is refused from then on.
Delivered ==
  \A k \in 1 .. MaxSnapshots :
    <>[](common = k /\ ~ contested) => <>[](target = k /\ (given = k \/ k <= aged))

\* LoadSequence's comment: a second writer cannot initialize concurrently.
OneWriter == Cardinality(Inside) <= 1

=============================================================================
