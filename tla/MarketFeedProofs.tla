--------------------------- MODULE MarketFeedProofs ---------------------------
(***************************************************************************)
(* Proofs about MarketFeed, for any number of charts, snapshots and faults:  *)
(* while one expert at a time is inside the mutex, the numbers published     *)
(* grow, because the larger of journal and publication is always the last    *)
(* number published and an expert that may publish has restored it.          *)
(***************************************************************************)
EXTENDS MarketFeed, TLAPS

\* The last number published.
Top == Number(Len(published))

\* What a new writer would restore is the last number published.
Recoverable == Largest(journal, Number(common)) = Top

\* One expert at a time is between its swap and its release.
Alone == \A c, d \in Inside : c = d

\* An expert that may publish, or has just published, has the last number.
AtTop == \A c \in Charts : step[c] \in {"ready", "persist"} => sequence[c] = Top

Increasing == \A i, j \in DOMAIN published : i < j => published[i] < published[j]

FeedInv == FeedTypeOK /\ (contested \/ (Recoverable /\ Alone /\ AtTop /\ Increasing))

-----------------------------------------------------------------------------
\* The variables have their types initially.
LEMMA InitType == Init => FeedTypeOK
<1> SUFFICES ASSUME Init PROVE FeedTypeOK
  OBVIOUS
<1> USE FeedAssumption DEF Init
<1>1. published \in Seq(Nat \ {0}) /\ Snapshots = {0}
  BY DEF Snapshots
<1>2. script \in [at : {"peek", "copy", "move"}, last : Nat \cup {None}, key : Nat \cup {None},
                 copy : Snapshots]
  BY <1>1 DEF Rest
<1>3. faults \in 0 .. MaxFaults /\ journal \in Nat /\ common \in Snapshots /\ target \in Snapshots
      /\ given \in Snapshots /\ aged \in Snapshots
  BY <1>1
<1>4. /\ step \in [Charts -> {"off", "swap", "beat", "restore", "ready", "persist",
                              "release", "unbeat"}]
      /\ expected \in [Charts -> Charts \cup {None}] /\ sequence \in [Charts -> Nat]
  OBVIOUS
<1> QED
  BY <1>1, <1>2, <1>3, <1>4 DEF FeedTypeOK

\* A number is a natural number.
LEMMA NumberType == FeedTypeOK => \A k \in Snapshots : Number(k) \in Nat
BY DEF FeedTypeOK, Snapshots, Number

\* Each step keeps the types.
LEMMA NextType == FeedTypeOK /\ [Next]_vars => FeedTypeOK'
<1> SUFFICES ASSUME FeedTypeOK, [Next]_vars PROVE FeedTypeOK'
  OBVIOUS
<1> USE FeedAssumption
<1>f. faults \in 0 .. MaxFaults /\ (Fault \/ NoFault => faults' \in 0 .. MaxFaults)
  BY DEF FeedTypeOK, Fault, NoFault
<1>n. \A k \in Snapshots : Number(k) \in Nat
  BY NumberType
<1>1. ASSUME NEW c \in Charts, Look(c) \/ Beat(c) PROVE FeedTypeOK'
  BY <1>1, <1>f DEF Look, Beat, Goto, FeedTypeOK, Snapshots, rvars
<1>9. ASSUME NEW c \in Charts, Swap(c) PROVE FeedTypeOK'
  <2>1. /\ owner' \in Charts \cup {None} /\ contested' \in BOOLEAN
        /\ expected' \in [Charts -> Charts \cup {None}]
    BY <1>9 DEF Swap, FeedTypeOK
  <2>2. step' \in [Charts -> {"off", "swap", "beat", "restore", "ready", "persist",
                              "release", "unbeat"}]
    BY <1>9 DEF Swap, Goto, FeedTypeOK
  <2> QED BY <1>9, <1>f, <2>1, <2>2 DEF Swap, FeedTypeOK, Snapshots, rvars
<1>2. ASSUME NEW c \in Charts, Restore(c) PROVE FeedTypeOK'
  <2>1. Largest(journal, Number(common)) \in Nat
    BY <1>n DEF Largest, FeedTypeOK
  <2>2. sequence' \in [Charts -> Nat]
    BY <1>2, <2>1 DEF Restore, FeedTypeOK
  <2> QED BY <1>2, <1>f, <2>2 DEF Restore, Goto, FeedTypeOK, Snapshots, rvars
<1>3. ASSUME NEW c \in Charts, OnTick(c) PROVE FeedTypeOK'
  <2>1. /\ published' = Append(published, sequence[c] + 1)
        /\ sequence[c] + 1 \in Nat \ {0}
    BY <1>3 DEF OnTick, Publish, FeedTypeOK
  <2>2. published' \in Seq(Nat \ {0}) /\ Len(published') = Len(published) + 1 /\ Len(published) \in Nat
    BY <2>1 DEF FeedTypeOK
  <2>3. Snapshots \subseteq Snapshots' /\ common' \in Snapshots'
    BY <1>3, <2>2 DEF Snapshots, OnTick, Publish
  <2> QED BY <1>3, <1>f, <2>1, <2>2, <2>3 DEF OnTick, Goto, FeedTypeOK, rvars
<1>4. ASSUME NEW c \in Charts, PersistSequence(c) \/ OnTimer(c) \/ Detach(c) PROVE FeedTypeOK'
  <2>1. Snapshots' = Snapshots
    BY <1>4 DEF PersistSequence, OnTimer, Detach, Snapshots
  <2>2. journal' \in Nat /\ beat' \in {"fresh", "over"}
    BY <1>4 DEF PersistSequence, OnTimer, Detach, FeedTypeOK
  <2>3. step' \in [Charts -> {"off", "swap", "beat", "restore", "ready", "persist",
                              "release", "unbeat"}]
    BY <1>4 DEF PersistSequence, OnTimer, Detach, Goto, FeedTypeOK
  <2> QED
    BY <1>4, <1>f, <2>1, <2>2, <2>3 DEF PersistSequence, OnTimer, Detach, FeedTypeOK, rvars
<1>11. ASSUME NEW c \in Charts, ReleaseOwner(c) \/ DeleteBeat(c) \/ Abort(c) PROVE FeedTypeOK'
  <2>1. Snapshots' = Snapshots /\ owner' \in Charts \cup {None} /\ beat' \in {"fresh", "over"}
    BY <1>11 DEF ReleaseOwner, DeleteBeat, Abort, FeedTypeOK, Snapshots
  <2>2. step' \in [Charts -> {"off", "swap", "beat", "restore", "ready", "persist",
                              "release", "unbeat"}]
    <3>1. \E label \in {"off", "unbeat"} : step' = [step EXCEPT ![c] = label]
      BY <1>11 DEF ReleaseOwner, DeleteBeat, Abort, End, Goto
    <3> QED BY <3>1 DEF FeedTypeOK
  <2>3. sequence' \in [Charts -> Nat] /\ expected' \in [Charts -> Charts \cup {None}]
    <3>1. /\ sequence' \in {sequence, [sequence EXCEPT ![c] = 0]}
          /\ expected' \in {expected, [expected EXCEPT ![c] = None]}
      BY <1>11 DEF ReleaseOwner, DeleteBeat, Abort, End
    <3>2. [sequence EXCEPT ![c] = 0] \in [Charts -> Nat] /\ sequence \in [Charts -> Nat]
      BY DEF FeedTypeOK
    <3>3. /\ [expected EXCEPT ![c] = None] \in [Charts -> Charts \cup {None}]
          /\ expected \in [Charts -> Charts \cup {None}]
      BY DEF FeedTypeOK
    <3> QED BY <3>1, <3>2, <3>3
  <2> QED
    BY <1>11, <1>f, <2>1, <2>2, <2>3 DEF ReleaseOwner, DeleteBeat, Abort, FeedTypeOK, rvars
<1>5. ASSUME Expire \/ LoseRecord PROVE FeedTypeOK'
  <2>1. Snapshots' = Snapshots /\ 0 \in Snapshots
    BY <1>5 DEF Expire, LoseRecord, Snapshots, FeedTypeOK
  <2>2. common' \in Snapshots /\ journal' \in Nat /\ beat' \in {"fresh", "over"}
    BY <1>5, <2>1 DEF Expire, LoseRecord, FeedTypeOK
  <2> QED
    BY <1>5, <1>f, <2>1, <2>2 DEF Expire, LoseRecord, FeedTypeOK, rvars
<1>10. ASSUME Crash PROVE FeedTypeOK'
  <2>1. Snapshots' = Snapshots
    BY <1>10 DEF Crash, Snapshots
  <2>2. /\ step' \in [Charts -> {"off", "swap", "beat", "restore", "ready", "persist",
                                 "release", "unbeat"}]
        /\ expected' \in [Charts -> Charts \cup {None}] /\ sequence' \in [Charts -> Nat]
    BY <1>10 DEF Crash
  <2> QED
    BY <1>10, <1>f, <2>1, <2>2 DEF Crash, FeedTypeOK, rvars
<1>6. ASSUME Script \/ RestartScript PROVE FeedTypeOK'
  <2>1. Snapshots' = Snapshots
    BY <1>6 DEF Script, Peek, Copy, Move, RestartScript, Snapshots, wvars
  <2>2. /\ script.last \in Nat \cup {None} /\ script.key \in Nat \cup {None}
        /\ script.copy \in Snapshots /\ 0 \in Snapshots /\ common \in Snapshots
    BY DEF FeedTypeOK, Snapshots
  <2>3. script' \in [at : {"peek", "copy", "move"}, last : Nat \cup {None}, key : Nat \cup {None},
                    copy : Snapshots]
    <3>1. ASSUME Peek PROVE script' \in [at : {"peek", "copy", "move"}, last : Nat \cup {None},
                                        key : Nat \cup {None}, copy : Snapshots]
      BY <3>1, <2>2, <1>n DEF Peek, FeedTypeOK
    <3>r. \A seen \in Nat \cup {None} :
            Rest(seen) \in [at : {"peek", "copy", "move"}, last : Nat \cup {None},
                           key : Nat \cup {None}, copy : Snapshots]
      BY <2>2 DEF Rest
    <3>2. ASSUME Copy PROVE script' \in [at : {"peek", "copy", "move"}, last : Nat \cup {None},
                                        key : Nat \cup {None}, copy : Snapshots]
      <4>1. CASE script' = [script EXCEPT !.at = "move", !.copy = common]
        BY <4>1, <2>2 DEF FeedTypeOK
      <4>2. CASE script' = Rest(script.last)
        BY <4>2, <2>2, <3>r
      <4> QED BY <3>2, <4>1, <4>2 DEF Copy
    <3>3. ASSUME Move \/ RestartScript PROVE script' \in [at : {"peek", "copy", "move"},
                            last : Nat \cup {None}, key : Nat \cup {None}, copy : Snapshots]
      BY <3>3, <2>2, <3>r DEF Move, RestartScript
    <3> QED BY <1>6, <3>1, <3>2, <3>3 DEF Script
  <2>4. target' \in Snapshots /\ opened' \in Snapshots \cup {None} /\ faults' \in 0 .. MaxFaults
    BY <1>6, <1>f, <2>2 DEF Script, Peek, Copy, Move, RestartScript, FeedTypeOK, rvars
  <2> QED
    BY <1>6, <2>1, <2>3, <2>4 DEF Script, Peek, Copy, Move, RestartScript, FeedTypeOK, wvars, rvars
<1>7. ASSUME Reader \/ RestartReader \/ Age PROVE FeedTypeOK'
  <2>1. Snapshots' = Snapshots
    BY <1>7 DEF Reader, Open, Finish, RestartReader, Age, Snapshots, wvars
  <2>2. /\ opened' \in Snapshots \cup {None} /\ last' \in Nat \cup {None} /\ given' \in Snapshots
        /\ aged' \in Snapshots
        /\ faults' \in 0 .. MaxFaults
    BY <1>7, <1>f, <1>n DEF Reader, Open, Finish, RestartReader, Age, FeedTypeOK
  <2> QED
    BY <1>7, <2>1, <2>2 DEF Reader, Open, Finish, RestartReader, Age, FeedTypeOK, wvars
<1>8. CASE UNCHANGED vars
  BY <1>8 DEF vars, wvars, rvars, FeedTypeOK, Snapshots
<1> QED
  BY <1>1, <1>2, <1>3, <1>4, <1>5, <1>6, <1>7, <1>8, <1>9, <1>10, <1>11 DEF Next, Writer

-----------------------------------------------------------------------------
\* A step that leaves the files and the history alone leaves the numbers alone.
LEMMA FilesKept ==
  ASSUME journal' = journal, common' = common, published' = published
  PROVE  Top' = Top /\ (Recoverable => Recoverable') /\ (Increasing => Increasing')
BY DEF Top, Number, Recoverable, Largest, Increasing

\* The larger of two numbers is one of them and not below either.
LEMMA LargestIs ==
  ASSUME NEW m \in Nat, NEW n \in Nat
  PROVE  Largest(m, n) \in {m, n} /\ m <= Largest(m, n) /\ n <= Largest(m, n)
BY DEF Largest

\* The initial states satisfy the invariant.
LEMMA InitInv == Init => FeedInv
<1> SUFFICES ASSUME Init PROVE FeedInv
  OBVIOUS
<1>1. Recoverable /\ Increasing
  BY DEF Init, Recoverable, Largest, Top, Number, Increasing
<1>2. Alone /\ AtTop
  BY DEF Init, Alone, Inside, AtTop
<1> QED
  BY <1>1, <1>2, InitType DEF FeedInv

\* Each step keeps the invariant.
LEMMA NextInv == FeedInv /\ [Next]_vars => FeedInv'
<1> SUFFICES ASSUME FeedInv, [Next]_vars, ~ contested' PROVE (Recoverable /\ Alone /\ AtTop /\ Increasing)'
  BY NextType DEF FeedInv
<1>t. FeedTypeOK
  BY DEF FeedInv
<1>n. \A k \in Snapshots : Number(k) \in Nat
  BY <1>t, NumberType
<1>s. /\ common \in Snapshots /\ Len(published) \in Snapshots /\ journal \in Nat
      /\ step \in [Charts -> {"off", "swap", "beat", "restore", "ready", "persist",
                              "release", "unbeat"}]
      /\ sequence \in [Charts -> Nat]
  BY <1>t DEF FeedTypeOK, Snapshots
<1>c. Recoverable /\ Alone /\ AtTop /\ Increasing
  <2>1. contested => contested'
    BY DEF Next, Writer, Look, Swap, Beat, Restore, OnTick, PersistSequence, OnTimer, Detach,
           ReleaseOwner, DeleteBeat, Abort, Expire, Crash, LoseRecord, Script, Peek, Copy, Move,
           RestartScript, Reader, Open, Finish, RestartReader, Age, vars, wvars
  <2> QED BY <2>1 DEF FeedInv
<1>a. Top \in Nat /\ journal <= Top /\ Number(common) <= Top
  BY <1>n, <1>s, <1>c, LargestIs DEF Recoverable, Top
\* An expert that moves on towards its end, or has not got in yet.
<1>1. ASSUME NEW c \in Charts, Look(c) \/ Detach(c) \/ ReleaseOwner(c) \/ DeleteBeat(c) \/ Abort(c)
      PROVE (Recoverable /\ Alone /\ AtTop /\ Increasing)'
  <2>1. journal' = journal /\ common' = common /\ published' = published
    BY <1>1 DEF Look, Detach, ReleaseOwner, DeleteBeat, Abort
  <2>2. Inside' \subseteq Inside
    BY <1>1, <1>s DEF Look, Detach, ReleaseOwner, DeleteBeat, Abort, End, Goto, Inside
  <2>3. \A d \in Charts : step'[d] \in {"ready", "persist"} => step'[d] = step[d] /\ sequence'[d] = sequence[d]
    BY <1>1, <1>s DEF Look, Detach, ReleaseOwner, DeleteBeat, Abort, End, Goto
  <2> QED
    BY <2>1, <2>2, <2>3, <1>c, FilesKept DEF Alone, AtTop
\* The swap lets an expert in only where none was.
<1>2. ASSUME NEW c \in Charts, Swap(c) PROVE (Recoverable /\ Alone /\ AtTop /\ Increasing)'
  <2>1. journal' = journal /\ common' = common /\ published' = published /\ sequence' = sequence
    BY <1>2 DEF Swap
  <2>2. Inside' \subseteq Inside \/ (Inside = {} /\ Inside' \subseteq {c})
    BY <1>2, <1>s DEF Swap, Goto, Inside
  <2>3. \A d \in Charts : step'[d] \in {"ready", "persist"} => step'[d] = step[d]
    BY <1>2, <1>s DEF Swap, Goto
  <2> QED
    BY <2>1, <2>2, <2>3, <1>c, FilesKept DEF Alone, AtTop
\* Inside: the heartbeat, the restoration, the timer.
<1>3. ASSUME NEW c \in Charts, Beat(c) \/ OnTimer(c) PROVE (Recoverable /\ Alone /\ AtTop /\ Increasing)'
  <2>1. journal' = journal /\ common' = common /\ published' = published /\ sequence' = sequence
    BY <1>3 DEF Beat, OnTimer
  <2>2. Inside' = Inside
    BY <1>3, <1>s DEF Beat, OnTimer, Goto, Inside
  <2>3. \A d \in Charts : step'[d] \in {"ready", "persist"} => step'[d] = step[d]
    BY <1>3, <1>s DEF Beat, OnTimer, Goto
  <2> QED
    BY <2>1, <2>2, <2>3, <1>c, FilesKept DEF Alone, AtTop
<1>4. ASSUME NEW c \in Charts, Restore(c) PROVE (Recoverable /\ Alone /\ AtTop /\ Increasing)'
  <2>1. journal' = journal /\ common' = common /\ published' = published
    BY <1>4 DEF Restore
  <2>2. Inside' \subseteq Inside
    BY <1>4, <1>s DEF Restore, Goto, Inside
  <2>3. \A d \in Charts : step'[d] \in {"ready", "persist"} =>
          \/ step'[d] = step[d] /\ sequence'[d] = sequence[d]
          \/ sequence'[d] = Top
    BY <1>4, <1>s, <1>c DEF Restore, Goto, Recoverable
  <2> QED
    BY <2>1, <2>2, <2>3, <1>c, FilesKept DEF Alone, AtTop
\* A publication raises the last number by one; nobody else is inside to miss it.
<1>5. ASSUME NEW c \in Charts, OnTick(c) PROVE (Recoverable /\ Alone /\ AtTop /\ Increasing)'
  <2>1. c \in Inside /\ sequence[c] = Top
    BY <1>5, <1>c DEF OnTick, Inside, AtTop
  <2>2. /\ published' = Append(published, Top + 1) /\ common' = Len(published) + 1
        /\ journal' = journal /\ sequence'[c] = Top + 1
    BY <1>5, <2>1, <1>s DEF OnTick, Publish
  <2>3. published \in Seq(Nat \ {0})
    BY <1>t DEF FeedTypeOK
  <2>4. /\ Len(published') = Len(published) + 1 /\ published'[Len(published) + 1] = Top + 1
        /\ DOMAIN published = 1 .. Len(published) /\ DOMAIN published' = 1 .. Len(published) + 1
        /\ \A i \in DOMAIN published : published'[i] = published[i]
    BY <2>2, <2>3, <1>a
  <2>5. Top' = Top + 1 /\ Number(common)' = Top + 1
    BY <2>2, <2>3, <2>4 DEF Top, Number
  <2>6. Recoverable'
    BY <2>2, <2>5, <1>a, <1>s DEF Recoverable, Largest
  <2>7. Alone' /\ Inside' = Inside
    BY <1>5, <1>s, <1>c DEF OnTick, Goto, Inside, Alone
  <2>8. AtTop'
    BY <2>1, <2>2, <2>5, <2>7, <1>c DEF AtTop, Alone, Inside
  <2>9. \A i \in DOMAIN published : published[i] <= Top
    <3> SUFFICES ASSUME NEW i \in DOMAIN published PROVE published[i] <= Top
      OBVIOUS
    <3>1. i \in 1 .. Len(published) /\ Len(published) \in Nat /\ Top = published[Len(published)]
      BY <2>3, <2>4 DEF Top, Number
    <3>2. CASE i = Len(published)
      BY <3>1, <3>2, <1>a
    <3>3. CASE i < Len(published)
      BY <3>1, <3>3, <2>3, <1>c DEF Increasing
    <3> QED BY <3>1, <3>2, <3>3
  <2>10. Increasing'
    <3> SUFFICES ASSUME NEW i \in DOMAIN published', NEW j \in DOMAIN published', i < j
                 PROVE  published'[i] < published'[j]
      BY DEF Increasing
    <3>1. i \in DOMAIN published /\ published'[i] = published[i]
      BY <2>3, <2>4
    <3>2. CASE j \in DOMAIN published
      BY <3>1, <3>2, <2>4, <1>c DEF Increasing
    <3>3. CASE j = Len(published) + 1
      BY <3>1, <3>3, <2>3, <2>4, <2>9, <1>a
    <3> QED BY <3>2, <3>3, <2>3, <2>4
  <2> QED
    BY <2>6, <2>7, <2>8, <2>10
<1>6. ASSUME NEW c \in Charts, PersistSequence(c) PROVE (Recoverable /\ Alone /\ AtTop /\ Increasing)'
  <2>1. common' = common /\ published' = published /\ sequence' = sequence
    BY <1>6 DEF PersistSequence
  <2>2. journal' \in {journal, Top}
    BY <1>6, <1>c DEF PersistSequence, AtTop
  <2>3. Top' = Top /\ Number(common)' = Number(common) /\ Increasing'
    BY <2>1, <1>c DEF Top, Number, Increasing
  <2>4. Recoverable'
    BY <2>2, <2>3, <1>a, <1>c, <1>n, <1>s DEF Recoverable, Largest
  <2>5. Inside' \subseteq Inside
    BY <1>6, <1>s DEF PersistSequence, Goto, Inside
  <2>6. \A d \in Charts : step'[d] \in {"ready", "persist"} => step[d] \in {"ready", "persist"}
    BY <1>6, <1>s DEF PersistSequence, Goto
  <2> QED
    BY <2>1, <2>3, <2>4, <2>5, <2>6, <1>c DEF Alone, AtTop
<1>7. ASSUME Crash PROVE (Recoverable /\ Alone /\ AtTop /\ Increasing)'
  <2>1. journal' = journal /\ common' = common /\ published' = published
    BY <1>7 DEF Crash
  <2>2. \A c \in Charts : step'[c] = "off"
    BY <1>7 DEF Crash
  <2> QED
    BY <2>1, <2>2, <1>c, FilesKept DEF Alone, AtTop, Inside
\* The record that is left still has the last number.
<1>8. ASSUME LoseRecord PROVE (Recoverable /\ Alone /\ AtTop /\ Increasing)'
  <2>1. published' = published /\ step' = step /\ sequence' = sequence
    BY <1>8 DEF LoseRecord
  <2>2. Top' = Top /\ Increasing' /\ Inside' = Inside
    BY <2>1, <1>c DEF Top, Number, Increasing, Inside
  <2>3. CASE Number(common) >= journal /\ journal' = 0 /\ UNCHANGED common
    BY <2>1, <2>2, <2>3, <1>c, <1>n, <1>s DEF Recoverable, Largest, Number, Alone, AtTop
  <2>4. CASE journal >= Number(common) /\ common' = 0 /\ UNCHANGED journal
    BY <2>1, <2>2, <2>4, <1>c, <1>n, <1>s DEF Recoverable, Largest, Number, Alone, AtTop
  <2> QED BY <1>8, <2>3, <2>4 DEF LoseRecord
<1>9. ASSUME Expire \/ Script \/ RestartScript \/ Reader \/ RestartReader \/ Age \/ UNCHANGED vars
      PROVE (Recoverable /\ Alone /\ AtTop /\ Increasing)'
  <2>1. /\ journal' = journal /\ common' = common /\ published' = published
        /\ step' = step /\ sequence' = sequence
    BY <1>9 DEF Expire, Script, Peek, Copy, Move, RestartScript, Reader, Open, Finish, RestartReader, Age,
                vars, wvars
  <2> QED
    BY <2>1, <1>c, FilesKept DEF Alone, AtTop, Inside
<1> QED
  BY <1>1, <1>2, <1>3, <1>4, <1>5, <1>6, <1>7, <1>8, <1>9 DEF Next, Writer

\* Type correctness of the whole feed.
THEOREM FeedTypeCorrect == Spec => []FeedTypeOK
<1>1. Init => FeedTypeOK
  BY InitType
<1>2. FeedTypeOK /\ [Next]_vars => FeedTypeOK'
  BY NextType
<1> QED
  BY <1>1, <1>2, PTL DEF Spec

\* For any number of charts, handovers, deaths of experts and terminal, failed journal
\* writes and single lost records: the numbers published under an intact mutex grow.
THEOREM PublishedNumbersGrow == Spec => []NumbersGrow
<1>1. FeedInv => NumbersGrow
  BY DEF FeedInv, NumbersGrow, Increasing
<1> QED
  BY <1>1, InitInv, NextInv, PTL DEF Spec
=============================================================================
