--------------------- MODULE ActiveKnowledgeRegistryProofs ---------------------
(***************************************************************************)
(* For any number of processes, readers and trusted receipts: a registry    *)
(* that can be read has at most one ACTIVE entry per semantic identity, no  *)
(* gaps and a history of legal steps; two processes are inside apply's      *)
(* critical section for one identity only after a lease ran out; and a      *)
(* reader is never handed knowledge that the registry it first read had     *)
(* already superseded.  The registry's own invariant does not use the lock  *)
(* files: what it rests on is that registrations that overlap share a       *)
(* sequence, after which the registry cannot be read any more.              *)
(***************************************************************************)
EXTENDS KnowledgeGateway, WellFoundedInduction, TLAPS

Locks == [owner : Processes, lease : {"blank", "running", "expired"}]
Steps == {"idle", "acquire", "contend", "steal", "reacquire", "stamp", "recheck", "sequence",
          "lineage", "write", "release", "unlock"}

USE DEF Locks, Steps

\* Of what types the files and apply's locals are.
RegistryTypeOK ==
  /\ entries \subseteq Receipts
  /\ locks \in [Identities -> Locks \union {None}]
  /\ step \in [Processes -> Steps]
  /\ task \in [Processes -> Receipts \union {None}]
  /\ ranOut \subseteq Identities
  /\ faults \in Nat
  /\ \A p \in Processes : step[p] = "idle" <=> task[p] = None

LEMMA TypeInit == RegistryInit => RegistryTypeOK
BY FaultsAssumption DEF RegistryInit, RegistryTypeOK

LEMMA TypeStep == RegistryTypeOK /\ [RegistryNext]_rvars => RegistryTypeOK'
<1> SUFFICES ASSUME RegistryTypeOK, [RegistryNext]_rvars PROVE RegistryTypeOK'
  OBVIOUS
<1> USE ReceiptsAssumption DEF RegistryTypeOK, Identities
<1>1. ASSUME NEW p \in Processes, Apply(p) PROVE RegistryTypeOK'
  <2>1. CASE Begin(p)
    BY <2>1 DEF Begin
  <2>2. CASE Acquire(p)
    BY <2>2 DEF Acquire, Lock, SetLock, Goto, Return
  <2>3. CASE Contend(p)
    BY <2>3 DEF Contend, Goto, Return
  <2>4. CASE Steal(p)
    BY <2>4 DEF Steal, SetLock, Goto
  <2>5. CASE Stamp(p)
    BY <2>5 DEF Stamp, SetLock, Goto
  <2>6. CASE Recheck(p)
    BY <2>6 DEF Recheck, Goto
  <2>7. CASE CheckSequence(p)
    BY <2>7 DEF CheckSequence, Goto
  <2>8. CASE CheckLineage(p)
    BY <2>8 DEF CheckLineage, Goto
  <2>9. CASE Write(p)
    BY <2>9 DEF Write, Goto, Fault
  <2>10. CASE Release(p)
    BY <2>10 DEF Release, Goto, Return
  <2>11. CASE Unlock(p)
    BY <2>11 DEF Unlock, SetLock, Return
  <2> QED
    BY <1>1, <2>1, <2>2, <2>3, <2>4, <2>5, <2>6, <2>7, <2>8, <2>9, <2>10, <2>11 DEF Apply
<1>2. ASSUME NEW p \in Processes, Die(p) PROVE RegistryTypeOK'
  BY <1>2 DEF Die, Return, Fault
<1>3. ASSUME NEW i \in Identities, Expire(i) PROVE RegistryTypeOK'
  BY <1>3 DEF Expire
<1>4. CASE UNCHANGED rvars
  BY <1>4 DEF rvars
<1> QED
  BY <1>1, <1>2, <1>3, <1>4 DEF RegistryNext

\* Entries, lock files and the locals of apply have their types.
THEOREM RegistryTypeCorrect == RegistrySpec => []RegistryTypeOK
BY TypeInit, TypeStep, PTL DEF RegistrySpec

-----------------------------------------------------------------------------
(* What the operators say of a registry with one more entry.                *)

\* An entry recorded last takes from an active one its place if it touches its
\* knowledge, and gives none to another.
LEMMA StillActive ==
  ASSUME NEW E \in SUBSET Receipts, NEW r \in Receipts, \A e \in E : e.seq < r.seq,
         NEW e \in E, IsActive(E \union {r}, e)
  PROVE  IsActive(E, e) /\ ~Touches(r, e.knowledge)
<1>1. e.seq \in Nat /\ r.seq \in Nat /\ e.seq < r.seq
  BY ReceiptsAssumption
<1>2. ~Touches(r, e.knowledge)
  BY <1>1 DEF IsActive, IsLast
<1> QED
  BY <1>2 DEF IsActive, IsLast

\* A legal entry leaves at most one active entry per identity.
OneActive(E) == \A e, f \in ActiveEntries(E) : e.identity = f.identity => e = f

LEMMA LegalKeepsOneActive ==
  ASSUME NEW E \in SUBSET Receipts, NEW r \in Receipts, \A e \in E : e.seq < r.seq,
         Legal(E, r), OneActive(E)
  PROVE  OneActive(E \union {r})
<1>1. ASSUME NEW e \in E, IsActive(E \union {r}, e), IsActive(E \union {r}, r),
             e.identity = r.identity
      PROVE FALSE
  <2>1. IsActive(E, e) /\ ~Touches(r, e.knowledge)
    BY <1>1, StillActive
  <2>2. r.kind \in {"ACTIVATION", "SUPERSESSION"}
    BY <1>1 DEF IsActive
  <2>3. CASE r.kind = "ACTIVATION"
    BY <1>1, <2>1, <2>3 DEF Legal
  <2>4. CASE r.kind = "SUPERSESSION"
    BY <1>1, <2>1, <2>4 DEF Legal, Touches
  <2> QED
    BY <2>2, <2>3, <2>4
<1>2. ASSUME NEW e \in E, NEW f \in E, IsActive(E \union {r}, e), IsActive(E \union {r}, f),
             e.identity = f.identity
      PROVE e = f
  <2>1. IsActive(E, e) /\ IsActive(E, f)
    BY <1>2, StillActive
  <2> QED
    BY <1>2, <2>1 DEF OneActive, ActiveEntries
<1> QED
  BY <1>1, <1>2 DEF OneActive, ActiveEntries

-----------------------------------------------------------------------------
(* The inductive invariant.                                                 *)

\* A process past the check of the sequence: its predecessor is on record.
Reached ==
  \A p \in Processes : step[p] \in {"lineage", "write"} =>
    task[p].seq = 1 \/ \E e \in entries : e.seq = task[p].seq - 1

\* A process about to write: if nothing has been recorded of its sequence since,
\* what it found legal is legal still.
Newest(r) == Readable(entries) /\ \A e \in entries : e.seq < r.seq
Checked ==
  \A p \in Processes : step[p] = "write" /\ Newest(task[p]) => Legal(entries, task[p])

RegistryInv == GapFree /\ Reached /\ Checked /\ HistoryLegal /\ UniqueActive

LEMMA InvInit == RegistryInit => RegistryInv
BY DEF RegistryInit, RegistryInv, GapFree, Reached, Checked, HistoryLegal, UniqueActive,
       ActiveEntries

\* Where sequences have no gaps, an entry that collides with none is the newest.
LEMMA CollisionFree ==
  ASSUME NEW E \in SUBSET Receipts, NEW r \in Receipts \ E, Readable(E \union {r}),
         \A e \in E : \A n \in 1..e.seq : \E f \in E : f.seq = n
  PROVE  \A e \in E : e.seq < r.seq
<1> SUFFICES ASSUME NEW e \in E, ~(e.seq < r.seq) PROVE FALSE
  OBVIOUS
<1>1. e.seq \in Nat /\ r.seq \in Nat /\ r.seq > 0
  BY ReceiptsAssumption
<1>2. r.seq \in 1..e.seq
  BY <1>1
<1>3. PICK f \in E : f.seq = r.seq
  BY <1>2
<1> QED
  BY <1>3 DEF Readable

\* A step that records nothing and lets no process past a check.
LEMMA NothingRecorded ==
  ASSUME RegistryInv, UNCHANGED entries,
         \A p \in Processes : step'[p] \in {"lineage", "write"} =>
                               step'[p] = step[p] /\ task'[p] = task[p]
  PROVE  RegistryInv'
<1>1. GapFree' /\ HistoryLegal' /\ UniqueActive'
  BY DEF RegistryInv, GapFree, HistoryLegal, Before, UniqueActive
<1>2. Reached'
  BY DEF RegistryInv, Reached
<1>3. Checked'
  BY DEF RegistryInv, Checked, Newest
<1> QED
  BY <1>1, <1>2, <1>3 DEF RegistryInv

\* The sequence is checked: if it follows what is on record, its predecessor is there.
LEMMA SequencePreserves ==
  ASSUME RegistryTypeOK, RegistryInv, NEW p \in Processes, CheckSequence(p) PROVE RegistryInv'
<1>1. UNCHANGED <<entries, task>> /\ step' = [step EXCEPT ![p] = step'[p]]
      /\ step[p] = "sequence" /\ step'[p] \in {"lineage", "release"}
  BY DEF CheckSequence, Goto, RegistryTypeOK
<1>2. GapFree' /\ HistoryLegal' /\ UniqueActive'
  BY <1>1 DEF RegistryInv, GapFree, HistoryLegal, Before, UniqueActive
<1>3. step'[p] = "lineage" => Follows(entries, task[p])
  BY DEF CheckSequence, Goto, RegistryTypeOK
<1>4. \A q \in Processes : q # p => step'[q] = step[q]
  BY <1>1 DEF RegistryTypeOK
<1>5. Reached'
  BY <1>1, <1>3, <1>4 DEF RegistryInv, Reached, Follows
<1>6. Checked'
  BY <1>1, <1>4 DEF RegistryInv, Checked, Newest
<1> QED
  BY <1>2, <1>5, <1>6 DEF RegistryInv

\* The lineage is checked: the process is about to write a legal entry.
LEMMA LineagePreserves ==
  ASSUME RegistryTypeOK, RegistryInv, NEW p \in Processes, CheckLineage(p) PROVE RegistryInv'
<1>1. UNCHANGED <<entries, task>> /\ step[p] = "lineage" /\ step'[p] \in {"write", "release"}
  BY DEF CheckLineage, Goto, RegistryTypeOK
<1>2. GapFree' /\ HistoryLegal' /\ UniqueActive'
  BY <1>1 DEF RegistryInv, GapFree, HistoryLegal, Before, UniqueActive
<1>3. step'[p] = "write" => Legal(entries, task[p])
  BY DEF CheckLineage, Goto, RegistryTypeOK
<1>4. \A q \in Processes : q # p => step'[q] = step[q]
  BY DEF CheckLineage, Goto, RegistryTypeOK
<1>5. Reached'
  BY <1>1, <1>4 DEF RegistryInv, Reached
<1>6. Checked'
  BY <1>1, <1>3, <1>4 DEF RegistryInv, Checked, Newest
<1> QED
  BY <1>2, <1>5, <1>6 DEF RegistryInv

\* An entry is recorded: if the registry can still be read, no other was recorded
\* of its sequence, and what was checked before the write holds at the write.
LEMMA RecordPreserves ==
  ASSUME RegistryTypeOK, RegistryInv, NEW p \in Processes, step[p] = "write",
         NEW r, r = task[p], r \in Receipts \ entries, entries' = entries \union {r},
         UNCHANGED task, step' = [step EXCEPT ![p] = "release"]
  PROVE  RegistryInv'
<1> DEFINE E == entries
<1>1. E \in SUBSET Receipts /\ E \subseteq entries' /\ \A e \in Receipts : e.seq \in Nat \ {0}
  BY ReceiptsAssumption DEF RegistryTypeOK
<1>2. \A q \in Processes : step'[q] \in {"lineage", "write"} => step'[q] = step[q] /\ q # p
  BY DEF RegistryTypeOK
<1>3. GapFree'
  <2> SUFFICES ASSUME NEW e \in entries', NEW n \in 1..e.seq
               PROVE  \E f \in entries' : f.seq = n
    BY DEF GapFree
  <2>1. CASE e \in E
    BY <1>1, <2>1 DEF RegistryInv, GapFree
  <2>2. CASE e = r /\ n = r.seq
    BY <2>2
  <2>3. CASE e = r /\ n # r.seq
    <3>1. PICK g \in E : g.seq = r.seq - 1
      BY <1>1, <2>3 DEF RegistryInv, Reached
    <3>2. n \in 1..g.seq
      BY <1>1, <2>3, <3>1
    <3> QED
      BY <1>1, <3>2 DEF RegistryInv, GapFree
  <2> QED
    BY <2>1, <2>2, <2>3
<1>4. Reached'
  BY <1>1, <1>2 DEF RegistryInv, Reached
<1>5. Checked'
  <2> SUFFICES ASSUME NEW q \in Processes, step'[q] = "write", Newest(task[q])' PROVE FALSE
    BY DEF Checked
  <2>1. step[q] = "write" /\ r.seq < task[q].seq /\ task[q] \in Receipts
    BY <1>2 DEF Newest, RegistryTypeOK
  <2>2. PICK g \in E : g.seq = task[q].seq - 1
    BY <1>1, <2>1 DEF RegistryInv, Reached
  <2>3. r.seq \in 1..g.seq
    BY <1>1, <2>1, <2>2
  <2>4. PICK f \in E : f.seq = r.seq
    BY <2>3 DEF RegistryInv, GapFree
  <2> QED
    BY <1>1, <2>4 DEF Newest, Readable
<1>6. ASSUME Readable(entries)' PROVE Newest(r) /\ Legal(E, r)
  <2>1. \A e \in E : e.seq < r.seq
    BY <1>1, <1>6, CollisionFree DEF RegistryInv, GapFree
  <2>2. Readable(E)
    BY <1>6 DEF Readable
  <2> QED
    BY <2>1, <2>2 DEF RegistryInv, Checked, Newest
<1>7. UniqueActive'
  <2> SUFFICES ASSUME Readable(entries)' PROVE OneActive(E \union {r})
    BY DEF UniqueActive, OneActive
  <2>1. Newest(r) /\ Legal(E, r)
    BY <1>6
  <2>2. OneActive(E)
    BY <2>1 DEF RegistryInv, UniqueActive, OneActive, Newest
  <2> QED
    BY <1>1, <2>1, <2>2, LegalKeepsOneActive DEF Newest
<1>8. HistoryLegal'
  <2> SUFFICES ASSUME Readable(entries)', NEW e \in entries' PROVE Legal(Before(e)', e)
    BY DEF HistoryLegal
  <2>1. Newest(r) /\ Legal(E, r)
    BY <1>6
  <2>2. CASE e = r
    <3>1. Before(r)' = E
      BY <1>1, <2>1 DEF Before, Newest
    <3> QED
      BY <2>1, <2>2, <3>1
  <2>3. CASE e \in E
    <3>1. Before(e)' = Before(e)
      BY <1>1, <2>1, <2>3 DEF Before, Newest
    <3>2. Legal(Before(e), e)
      BY <2>1, <2>3 DEF RegistryInv, HistoryLegal, Newest
    <3> QED
      BY <3>1, <3>2
  <2> QED
    BY <2>2, <2>3
<1> QED
  BY <1>3, <1>4, <1>5, <1>7, <1>8 DEF RegistryInv

LEMMA InvStep ==
  ASSUME RegistryTypeOK, RegistryInv, [RegistryNext]_rvars PROVE RegistryInv'
<1>1. ASSUME NEW p \in Processes, Apply(p) PROVE RegistryInv'
  <2>1. CASE Begin(p) \/ Acquire(p) \/ Contend(p) \/ Steal(p) \/ Stamp(p) \/ Recheck(p)
             \/ Release(p) \/ Unlock(p)
    <3>1. UNCHANGED entries
      BY <2>1 DEF Begin, Acquire, Contend, Steal, Stamp, Recheck, Release, Unlock
    <3>2. \A q \in Processes : q # p => step'[q] = step[q] /\ task'[q] = task[q]
      BY <2>1 DEF Begin, Acquire, Contend, Steal, Stamp, Recheck, Release, Unlock, Goto, Return,
                  RegistryTypeOK
    <3>3. step'[p] \notin {"lineage", "write"}
      BY <2>1 DEF Begin, Acquire, Contend, Steal, Stamp, Recheck, Release, Unlock, Goto, Return,
                  RegistryTypeOK
    <3> QED
      BY <3>1, <3>2, <3>3, NothingRecorded
  <2>2. CASE CheckSequence(p)
    BY <2>2, SequencePreserves
  <2>3. CASE CheckLineage(p)
    BY <2>3, LineagePreserves
  <2>4. CASE Write(p) /\ task[p] \notin entries /\ entries' = entries \union {task[p]}
    <3>1. task[p] \in Receipts \ entries
      BY <2>4 DEF Write, RegistryTypeOK
    <3>2. step[p] = "write" /\ UNCHANGED task /\ step' = [step EXCEPT ![p] = "release"]
      BY <2>4 DEF Write, Goto
    <3> QED
      BY <2>4, <3>1, <3>2, RecordPreserves
  <2>5. CASE Write(p) /\ ~(task[p] \notin entries /\ entries' = entries \union {task[p]})
    <3>1. UNCHANGED entries
      BY <2>5 DEF Write
    <3>2. \A q \in Processes : q # p => step'[q] = step[q] /\ task'[q] = task[q]
      BY <2>5 DEF Write, Goto, RegistryTypeOK
    <3>3. step'[p] = "release"
      BY <2>5 DEF Write, Goto, RegistryTypeOK
    <3> QED
      BY <3>1, <3>2, <3>3, NothingRecorded
  <2> QED
    BY <1>1, <2>1, <2>2, <2>3, <2>4, <2>5 DEF Apply
<1>2. ASSUME NEW p \in Processes, Die(p) PROVE RegistryInv'
  <2>1. UNCHANGED entries
    BY <1>2 DEF Die
  <2>2. \A q \in Processes : step'[q] \in {"lineage", "write"} =>
                              step'[q] = step[q] /\ task'[q] = task[q]
    BY <1>2 DEF Die, Return, RegistryTypeOK
  <2> QED
    BY <2>1, <2>2, NothingRecorded
<1>3. CASE (\E i \in Identities : Expire(i)) \/ UNCHANGED rvars
  BY <1>3, NothingRecorded DEF Expire, rvars
<1> QED
  BY <1>1, <1>2, <1>3 DEF RegistryNext

LEMMA Inductive == RegistrySpec => [](RegistryTypeOK /\ RegistryInv)
<1>1. RegistryInit => RegistryTypeOK /\ RegistryInv
  BY TypeInit, InvInit
<1>2. RegistryTypeOK /\ RegistryInv /\ [RegistryNext]_rvars => (RegistryTypeOK /\ RegistryInv)'
  BY TypeStep, InvStep
<1> QED
  BY <1>1, <1>2, PTL DEF RegistrySpec

\* PR_157: at most one ACTIVE knowledge per semantic identity can ever be read,
\* for any processes and receipts, whatever becomes of the lock files.
THEOREM ActiveIsUnique == RegistrySpec => []UniqueActive
<1>1. RegistryInv => UniqueActive
  BY DEF RegistryInv
<1> QED
  BY <1>1, Inductive, PTL

\* The sequences on record have no gaps: replay misses no receipt.
THEOREM SequenceHasNoGaps == RegistrySpec => []GapFree
<1>1. RegistryInv => GapFree
  BY DEF RegistryInv
<1> QED
  BY <1>1, Inductive, PTL

\* A registry that can be read replays legal steps only, although apply reads it
\* in three parts before it writes.
THEOREM HistoryIsLegal == RegistrySpec => []HistoryLegal
<1>1. RegistryInv => HistoryLegal
  BY DEF RegistryInv
<1> QED
  BY <1>1, Inductive, PTL

-----------------------------------------------------------------------------
(* The locks, while their leases last.                                      *)

\* Where a process has its lock file stamped.
Inside == {"recheck", "sequence", "lineage", "write", "release", "unlock"}

\* A process whose identity has seen no lease run out: it has not stolen a lock, the
\* lock file is its own, and once it has checked its sequence no entry of its identity
\* has reached that.
Keeps(p) ==
  task[p] # None /\ task[p].identity \notin ranOut =>
    /\ step[p] \notin {"steal", "reacquire"}
    /\ step[p] = "stamp" => locks[task[p].identity] = [owner |-> p, lease |-> "blank"]
    /\ step[p] \in Inside => locks[task[p].identity] = [owner |-> p, lease |-> "running"]
    /\ step[p] \in {"lineage", "write"} =>
         \A e \in entries : e.identity = task[p].identity => e.seq < task[p].seq

LockInv ==
  /\ \A i \in Identities : locks[i] # None /\ locks[i].lease = "expired" => i \in ranOut
  /\ \A p \in Processes : Keeps(p)
  /\ LockedApart

\* Who is elsewhere keeps what he has, unless his lock file changes or an entry of his
\* identity is recorded.
LEMMA OthersKeep ==
  ASSUME RegistryTypeOK, LockInv, NEW q \in Processes, step'[q] = step[q], task'[q] = task[q],
         ranOut \subseteq ranOut',
         task[q] # None /\ step[q] \in Inside \union {"stamp"} /\ task[q].identity \notin ranOut' =>
           /\ locks'[task[q].identity] = locks[task[q].identity]
           /\ \A e \in entries' : e \in entries \/ e.identity # task[q].identity
  PROVE  Keeps(q)'
<1> SUFFICES ASSUME task[q] # None, task[q].identity \notin ranOut'
             PROVE  Keeps(q)'
  BY DEF Keeps
<1>1. Keeps(q) /\ task[q].identity \notin ranOut
  BY DEF LockInv
<1>2. CASE step[q] \in Inside \union {"stamp"}
  BY <1>1, <1>2 DEF Keeps, Inside
<1>3. CASE step[q] \notin Inside \union {"stamp"}
  BY <1>1, <1>3 DEF Keeps, Inside
<1> QED
  BY <1>2, <1>3

\* A step of apply, of which two things are asked: that a lock file in use is changed
\* by its owner alone, and that what is recorded collides with nothing.
LEMMA LocksStep ==
  ASSUME RegistryTypeOK, LockInv, NEW p \in Processes, UNCHANGED ranOut,
         \A q \in Processes \ {p} : step'[q] = step[q] /\ task'[q] = task[q],
         locks' = locks \/ \E l \in {None} \union [owner : {p}, lease : {"blank", "running"}] :
                            locks' = [locks EXCEPT ![task[p].identity] = l],
         task[p] # None, task[p].identity \in Identities,
         locks' # locks /\ locks[task[p].identity] # None => locks[task[p].identity].owner = p \/ task[p].identity \in ranOut,
         entries' = entries \/ (step[p] = "write" /\ entries' = entries \union {task[p]}),
         Keeps(p)'
  PROVE  LockInv'
<1> DEFINE i == task[p].identity
<1>1. \A j \in Identities : locks'[j] # None /\ locks'[j].lease = "expired" => j \in ranOut'
  <2>1. CASE locks' = locks
    BY <2>1 DEF LockInv
  <2>2. CASE locks' # locks
    <3>1. PICK l \in {None} \union [owner : {p}, lease : {"blank", "running"}] : locks' = [locks EXCEPT ![i] = l]
      BY <2>2
    <3>2. l = None \/ l.lease # "expired"
      OBVIOUS
    <3>3. \A j \in Identities : locks'[j] = IF j = i THEN l ELSE locks[j]
      BY <3>1 DEF RegistryTypeOK
    <3> QED
      BY <3>2, <3>3 DEF LockInv
  <2> QED
    BY <2>1, <2>2
<1>2. ASSUME NEW q \in Processes \ {p} PROVE Keeps(q)'
  <2>1. ASSUME task[q] # None, step[q] \in Inside \union {"stamp"}, task[q].identity = i PROVE i \in ranOut \/ (locks' = locks /\ entries' = entries)
    <3> SUFFICES ASSUME i \notin ranOut PROVE locks' = locks /\ entries' = entries
      OBVIOUS
    <3>1. locks[i] # None /\ locks[i].owner = q
      <4>1. locks[i] \in {[owner |-> q, lease |-> "blank"], [owner |-> q, lease |-> "running"]}
        BY <2>1 DEF LockInv, Keeps
      <4>2. locks[i].owner = q
        BY <4>1
      <4> QED
        BY <4>1, <4>2, LocksAssumption
    <3>2. locks' = locks
      BY <3>1
    <3>3. step[p] # "write"
      BY <3>1 DEF LockInv, Keeps, Inside
    <3> QED
      BY <3>2, <3>3
  <2>2. ASSUME task[q] # None, step[q] \in Inside \union {"stamp"}, task[q].identity \notin ranOut'
        PROVE  /\ locks'[task[q].identity] = locks[task[q].identity]
               /\ \A e \in entries' : e \in entries \/ e.identity # task[q].identity
    <3>1. CASE task[q].identity = i
      BY <2>1, <2>2, <3>1
    <3>2. CASE task[q].identity # i
      <4>1. task[q].identity \in Identities
        BY <2>2 DEF RegistryTypeOK, Identities
      <4>2. locks'[task[q].identity] = locks[task[q].identity]
        BY <3>2, <4>1 DEF RegistryTypeOK
      <4> QED
        BY <3>2, <4>2
    <3> QED
      BY <3>1, <3>2
  <2> QED
    BY <2>2, OthersKeep
<1>3. LockedApart'
  <2>1. CASE entries' = entries
    BY <2>1 DEF LockInv, LockedApart, Collide
  <2>2. CASE step[p] = "write" /\ entries' = entries \union {task[p]}
    <3> DEFINE r == task[p]
    <3>1. r \in Receipts /\ \A e \in entries : e.seq \in Nat /\ r.seq \in Nat
      BY ReceiptsAssumption DEF RegistryTypeOK
    <3>2. r.identity \notin ranOut => \A e \in entries : e.identity = r.identity => e.seq # r.seq
      BY <2>2, <3>1 DEF LockInv, Keeps
    <3>3. \A e, f \in entries : Collide(e, f) => e.identity \in ranOut
      BY DEF LockInv, LockedApart
    <3> HIDE DEF r
    <3>4. \A e, f \in entries \union {r} : Collide(e, f) => e.identity \in ranOut
      BY <3>2, <3>3 DEF Collide
    <3> QED
      BY <2>2, <3>4 DEF LockedApart, Collide, r
  <2> QED
    BY <2>1, <2>2
<1> QED
  BY <1>1, <1>2, <1>3 DEF LockInv

LEMMA LocksOfApply ==
  ASSUME RegistryTypeOK, LockInv, NEW p \in Processes, Apply(p)
  PROVE  LockInv'
<1> DEFINE i == task[p].identity
           r == task[p]
<1> USE DEF Inside
<1>1. CASE Begin(p)
  <2>1. /\ UNCHANGED <<entries, locks, ranOut>> /\ step'[p] = "acquire"
        /\ \A q \in Processes \ {p} : step'[q] = step[q] /\ task'[q] = task[q]
    BY <1>1 DEF Begin, RegistryTypeOK
  <2>2. Keeps(p)'
    BY <2>1 DEF Keeps
  <2>3. \A q \in Processes \ {p} : Keeps(q)'
    BY <2>1, OthersKeep
  <2> QED
    BY <2>1, <2>2, <2>3 DEF LockInv, LockedApart
<1>2. step[p] # "idle" => r \in Receipts /\ r # None /\ i \in Identities
  BY ReceiptsAssumption DEF RegistryTypeOK, Identities
<1>3. ASSUME NEW label, Goto(p, label)
      PROVE  /\ step'[p] = label /\ task' = task
             /\ \A q \in Processes \ {p} : step'[q] = step[q] /\ task'[q] = task[q]
  BY <1>3 DEF Goto, RegistryTypeOK
<1>4. ASSUME Return(p)
      PROVE  /\ step'[p] = "idle" /\ task'[p] = None
             /\ \A q \in Processes \ {p} : step'[q] = step[q] /\ task'[q] = task[q]
  BY <1>4 DEF Return, RegistryTypeOK
<1>5. ASSUME NEW l, SetLock(p, l), step[p] # "idle" PROVE locks' = [locks EXCEPT ![i] = l] /\ locks'[i] = l
  BY <1>2, <1>5 DEF SetLock, RegistryTypeOK
<1>6. Keeps(p) /\ \A j \in Identities : locks[j] # None /\ locks[j].lease = "expired" => j \in ranOut
  BY DEF LockInv
<1>7. CASE Acquire(p)
  <2>1. step[p] \in {"acquire", "reacquire"} /\ UNCHANGED <<entries, ranOut>>
    BY <1>7 DEF Acquire
  <2>2. CASE Lock(p) = None /\ SetLock(p, [owner |-> p, lease |-> "blank"]) /\ Goto(p, "stamp")
    <3> DEFINE l == [owner |-> p, lease |-> "blank"]
    <3>1. locks' = [locks EXCEPT ![i] = l] /\ locks'[i] = l /\ l \in [owner : {p}, lease : {"blank", "running"}]
      BY <1>5, <2>1, <2>2
    <3>2. Keeps(p)'
      BY <1>3, <1>6, <2>1, <2>2, <3>1 DEF Keeps
    <3>3. locks[i] = None
      BY <2>2 DEF Lock
    <3> HIDE DEF l
    <3> QED
      BY <1>2, <1>3, <2>1, <2>2, <3>1, <3>2, <3>3, LocksStep
  <2>3. CASE UNCHANGED locks /\ (Goto(p, "contend") \/ Return(p))
    <3>1. Keeps(p)'
      BY <1>3, <1>4, <1>6, <2>1, <2>3 DEF Keeps
    <3> QED
      BY <1>2, <1>3, <1>4, <2>1, <2>3, <3>1, LocksStep
  <2> QED
    BY <1>7, <2>2, <2>3 DEF Acquire
<1>8. CASE Contend(p)
  <2>1. step[p] = "contend" /\ UNCHANGED <<entries, ranOut, locks>>
    BY <1>8 DEF Contend
  <2>2. (Goto(p, "steal") /\ i \in ranOut) \/ Return(p)
    BY <1>2, <1>6, <1>8 DEF Contend, Lock
  <2>3. Keeps(p)'
    BY <1>3, <1>4, <2>1, <2>2 DEF Keeps
  <2> QED
    BY <1>2, <1>3, <1>4, <2>1, <2>2, <2>3, LocksStep
<1>9. CASE Steal(p)
  <2>1. step[p] = "steal" /\ UNCHANGED <<entries, ranOut>> /\ SetLock(p, None) /\ Goto(p, "reacquire")
    BY <1>9 DEF Steal
  <2>2. i \in ranOut
    BY <1>2, <1>6, <2>1 DEF Keeps
  <2>3. Keeps(p)'
    BY <1>3, <2>1, <2>2 DEF Keeps
  <2>4. locks' = [locks EXCEPT ![i] = None]
    BY <1>5, <2>1
  <2> QED
    BY <1>2, <1>3, <2>1, <2>2, <2>3, <2>4, LocksStep
<1>10. CASE Stamp(p)
  <2>1. step[p] = "stamp" /\ UNCHANGED <<entries, ranOut>> /\ Goto(p, "recheck")
    BY <1>10 DEF Stamp
  <2>2. CASE Holds(p, "blank")
    <3> DEFINE l == [owner |-> p, lease |-> "running"]
    <3>1. locks' = [locks EXCEPT ![i] = l] /\ locks'[i] = l /\ l \in [owner : {p}, lease : {"blank", "running"}]
      BY <1>5, <1>10, <2>1, <2>2 DEF Stamp
    <3>2. Keeps(p)'
      BY <1>3, <2>1, <3>1 DEF Keeps
    <3>3. locks[i].owner = p
      BY <2>2 DEF Holds, Lock
    <3> HIDE DEF l
    <3> QED
      BY <1>2, <1>3, <2>1, <3>1, <3>2, <3>3, LocksStep
  <2>3. CASE ~Holds(p, "blank")
    <3>1. UNCHANGED locks
      BY <1>10, <2>3 DEF Stamp
    <3>2. i \in ranOut
      BY <1>2, <1>6, <2>1, <2>3 DEF Keeps, Holds, Lock
    <3>3. Keeps(p)'
      BY <1>3, <2>1, <3>2 DEF Keeps
    <3> QED
      BY <1>2, <1>3, <2>1, <3>1, <3>3, LocksStep
  <2> QED
    BY <2>2, <2>3
<1>11. CASE Recheck(p)
  <2>1. step[p] = "recheck" /\ UNCHANGED <<entries, ranOut, locks>> /\ (Goto(p, "sequence") \/ Goto(p, "release"))
    BY <1>11 DEF Recheck
  <2>2. Keeps(p)'
    BY <1>2, <1>3, <1>6, <2>1 DEF Keeps
  <2> QED
    BY <1>2, <1>3, <2>1, <2>2, LocksStep
<1>12. CASE CheckSequence(p)
  <2>1. /\ step[p] = "sequence" /\ UNCHANGED <<entries, ranOut, locks>>
        /\ (Goto(p, "lineage") /\ \A e \in entries : e.seq < r.seq) \/ Goto(p, "release")
    BY <1>12 DEF CheckSequence, Follows
  <2>2. Keeps(p)'
    BY <1>2, <1>3, <1>6, <2>1 DEF Keeps
  <2> QED
    BY <1>2, <1>3, <2>1, <2>2, LocksStep
<1>13. CASE CheckLineage(p)
  <2>1. step[p] = "lineage" /\ UNCHANGED <<entries, ranOut, locks>> /\ (Goto(p, "write") \/ Goto(p, "release"))
    BY <1>13 DEF CheckLineage
  <2>2. Keeps(p)'
    BY <1>2, <1>3, <1>6, <2>1 DEF Keeps
  <2> QED
    BY <1>2, <1>3, <2>1, <2>2, LocksStep
<1>14. CASE Write(p)
  <2>1. /\ step[p] = "write" /\ UNCHANGED <<ranOut, locks>> /\ Goto(p, "release")
        /\ entries' = entries \/ entries' = entries \union {r}
    BY <1>14 DEF Write
  <2>2. Keeps(p)'
    BY <1>2, <1>3, <1>6, <2>1 DEF Keeps
  <2> QED
    BY <1>2, <1>3, <2>1, <2>2, LocksStep
<1>15. CASE Release(p)
  <2>1. step[p] = "release" /\ UNCHANGED <<entries, ranOut, locks>> /\ (Goto(p, "unlock") \/ Return(p))
    BY <1>15 DEF Release
  <2>2. Keeps(p)'
    BY <1>2, <1>3, <1>4, <1>6, <2>1 DEF Keeps
  <2> QED
    BY <1>2, <1>3, <1>4, <2>1, <2>2, LocksStep
<1>16. CASE Unlock(p)
  <2>1. step[p] = "unlock" /\ UNCHANGED <<entries, ranOut>> /\ SetLock(p, None) /\ Return(p)
    BY <1>16 DEF Unlock
  <2>2. i \in ranOut \/ locks[i].owner = p
    BY <1>2, <1>6, <2>1 DEF Keeps
  <2>3. Keeps(p)' /\ locks' = [locks EXCEPT ![i] = None]
    BY <1>4, <1>5, <2>1 DEF Keeps
  <2> QED
    BY <1>2, <1>4, <2>1, <2>2, <2>3, LocksStep
<1> QED
  BY <1>1, <1>7, <1>8, <1>9, <1>10, <1>11, <1>12, <1>13, <1>14, <1>15, <1>16 DEF Apply

LEMMA LocksInvariant == RegistryTypeOK /\ LockInv /\ [RegistryNext]_rvars => LockInv'
<1> SUFFICES ASSUME RegistryTypeOK, LockInv, [RegistryNext]_rvars PROVE LockInv'
  OBVIOUS
<1>1. ASSUME NEW p \in Processes, Die(p) PROVE LockInv'
  <2>1. /\ UNCHANGED <<entries, locks, ranOut>> /\ step'[p] = "idle" /\ task'[p] = None
        /\ \A q \in Processes \ {p} : step'[q] = step[q] /\ task'[q] = task[q]
    BY <1>1 DEF Die, Return, RegistryTypeOK
  <2>2. \A q \in Processes \ {p} : Keeps(q)'
    BY <2>1, OthersKeep
  <2> QED
    BY <2>1, <2>2 DEF LockInv, LockedApart, Keeps
<1>2. ASSUME NEW i \in Identities, Expire(i) PROVE LockInv'
  <2>1. UNCHANGED <<entries, step, task>> /\ ranOut' = ranOut \union {i} /\ locks' = [locks EXCEPT ![i].lease = "expired"]
    BY <1>2 DEF Expire
  <2>2. \A j \in Identities \ {i} : locks'[j] = locks[j]
    BY <2>1 DEF RegistryTypeOK
  <2>3. ASSUME NEW q \in Processes PROVE Keeps(q)'
    <3>1. task[q] # None => task[q].identity \in Identities
      BY DEF RegistryTypeOK, Identities
    <3> QED
      BY <2>1, <2>2, <3>1, OthersKeep
  <2> QED
    BY <2>1, <2>2, <2>3 DEF LockInv, LockedApart
<1>3. CASE UNCHANGED rvars
  BY <1>3 DEF rvars, LockInv, LockedApart, Keeps
<1> QED
  BY <1>1, <1>2, <1>3, LocksOfApply DEF RegistryNext

\* While leases last the lock of an identity keeps its registrations apart, for any
\* processes, deaths and failed writes.
THEOREM LocksKeepApart == RegistrySpec => []LockedApart
<1>1. RegistryInit => LockInv
  BY DEF RegistryInit, LockInv, Keeps, LockedApart
<1>2. LockInv => LockedApart
  BY DEF LockInv
<1> QED
  BY <1>1, <1>2, TypeInit, TypeStep, LocksInvariant, PTL DEF RegistrySpec
-----------------------------------------------------------------------------
(* KnowledgeGateway: readers of projections that may be old.                *)

\* A set of numbers up to a bound has a greatest.
LEMMA Greatest ==
  ASSUME NEW m \in Nat, NEW D \in SUBSET (0..m), D # {}
  PROVE  \E x \in D : \A y \in D : y <= x
<1> DEFINE T == {m - y : y \in D}
<1>1. T # {}
  OBVIOUS
<1>2. T \subseteq Nat
  <2>1. \A y \in D : y \in 0..m
    OBVIOUS
  <2>2. \A y \in D : m - y \in Nat
    BY <2>1
  <2> QED
    BY <2>2
<1> HIDE DEF T
<1>3. PICK t \in T : \A u \in T : ~(<<u, t>> \in OpToRel(<, Nat))
  BY <1>1, <1>2, WFMin, NatLessThanWellFounded
<1>4. \A u \in T : ~(u < t)
  BY <1>2, <1>3 DEF OpToRel
<1>5. PICK x \in D : t = m - x
  BY DEF T
<1>6. ASSUME NEW y \in D PROVE y <= x
  <2>1. ~(m - y < m - x)
    BY <1>4, <1>5 DEF T
  <2> QED
    BY <2>1
<1> QED
  BY <1>6

\* A registry as list_active has met it: readable, without gaps, of legal steps.
Sound(V) ==
  /\ Readable(V)
  /\ \A e \in V : \A n \in 1..e.seq : \E f \in V : f.seq = n
  /\ \A e \in V : Legal({f \in V : f.seq < e.seq}, e)

\* What readers have seen is of one registry R, the last that could be read, and each
\* view is a projection of R or of what R was before.  Of each knowledge replaced the
\* successor is in R, at most the highest sequence seen.
SeenOf(R) ==
  /\ R \subseteq entries /\ Readable(R) /\ (Readable(entries) => R = entries)
  /\ \A t \in Readers : view[t] # None => \E V \in SUBSET R : Sound(V) /\ view[t] = ActiveEntries(V)
  /\ \A k \in replaced : \E f \in R : f.kind = "SUPERSESSION" /\ f.previous = k /\ f.seq <= highest

GatewayInv ==
  /\ view = [t \in Readers |-> view[t]] /\ highest \in Nat
  /\ \E m \in Nat : \A e \in entries : e.seq <= m
  /\ \E R : SeenOf(R)
  /\ NeverRevived

\* Nothing that a registry shows active has a successor in it: the successor touches
\* the knowledge after it was registered, and afterwards it is not registered again.
LEMMA SupersededIsOver ==
  ASSUME NEW V \in SUBSET Receipts, Sound(V), NEW e \in ActiveEntries(V),
         NEW f \in V, f.kind = "SUPERSESSION", f.previous = e.knowledge
  PROVE  FALSE
<1>1. e \in V /\ e.kind \in {"ACTIVATION", "SUPERSESSION"} /\ \A g \in V : Touches(g, e.knowledge) => g.seq <= e.seq
  BY DEF ActiveEntries, IsActive, IsLast
<1>2. Touches(f, e.knowledge) /\ f.seq <= e.seq /\ f # e /\ e.seq \in Nat /\ f.seq \in Nat
  BY <1>1, ReceiptsAssumption DEF Touches
<1>3. f.seq < e.seq
  BY <1>1, <1>2 DEF Sound, Readable
<1>4. Unregistered({g \in V : g.seq < e.seq}, e)
  BY <1>1 DEF Sound, Legal
<1> QED
  BY <1>2, <1>3, <1>4 DEF Unregistered

\* A newer successor is above all that an older registry shows.
LEMMA SupersededIsAbove ==
  ASSUME NEW R \in SUBSET Receipts, Readable(R), NEW V \in SUBSET R, Sound(V), NEW f \in R, f \notin V
  PROVE  \A e \in V : e.seq < f.seq
<1>1. Readable(V \union {f})
  BY DEF Readable
<1> QED
  BY <1>1, CollisionFree DEF Sound

LEMMA HighestIsReached ==
  ASSUME NEW E \in SUBSET Receipts, NEW m \in Nat, \A e \in E : e.seq <= m
  PROVE  /\ Highest(E) \in Nat /\ \A e \in E : e.seq <= Highest(E)
         /\ E # {} => \E e \in E : e.seq = Highest(E)
<1>1. CASE E = {}
  BY <1>1 DEF Highest
<1>2. CASE E # {}
  <2> DEFINE D == {e.seq : e \in E}
  <2>1. D \subseteq 0..m /\ D # {}
    BY <1>2, ReceiptsAssumption
  <2>2. \E n \in D : \A k \in D : k <= n
    <3> HIDE DEF D
    <3> QED
      BY <2>1, Greatest
  <2>3. \E n \in D : \A e \in E : e.seq <= n
    BY <2>2
  <2>4. Highest(E) = CHOOSE n \in D : \A e \in E : e.seq <= n
    BY <1>2 DEF Highest
  <2>5. Highest(E) \in D /\ \A e \in E : e.seq <= Highest(E)
    <3> HIDE DEF D
    <3> QED
      BY <2>3, <2>4
  <2> QED
    BY <2>1, <2>5
<1> QED
  BY <1>1, <1>2

\* The registry moves on, and the readers keep what they have.
LEMMA RegistryMoves ==
  ASSUME RegistryTypeOK, GatewayInv, [RegistryNext]_rvars, UNCHANGED gvars
  PROVE  GatewayInv'
<1>1. PICK R : SeenOf(R)
  BY DEF GatewayInv
<1>2. PICK m \in Nat : \A e \in entries : e.seq <= m
  BY DEF GatewayInv
<1>3. entries' = entries \/ \E r \in Receipts : entries' = entries \union {r}
  <2>1. CASE UNCHANGED entries
    BY <2>1
  <2>2. CASE \E p \in Processes : Write(p)
    <3>1. PICK p \in Processes : Write(p)
      BY <2>2
    <3>2. task[p] \in Receipts
      BY <3>1 DEF Write, RegistryTypeOK
    <3> QED
      BY <3>1, <3>2 DEF Write
  <2>3. ASSUME NEW p \in Processes, Apply(p), ~Write(p) PROVE UNCHANGED entries
    BY <2>3 DEF Apply, Begin, Acquire, Contend, Steal, Stamp, Recheck, CheckSequence, CheckLineage, Release, Unlock
  <2> QED
    BY <2>1, <2>2, <2>3 DEF RegistryNext, Die, Expire, rvars
<1>4. \E k \in Nat : \A e \in entries' : e.seq <= k
  <2>1. CASE entries' = entries
    BY <1>2, <2>1
  <2>2. CASE \E r \in Receipts : entries' = entries \union {r}
    <3>1. PICK r \in Receipts : entries' = entries \union {r}
      BY <2>2
    <3>2. r.seq \in Nat /\ \A e \in entries : e.seq \in Nat
      BY ReceiptsAssumption DEF RegistryTypeOK
    <3>3. CASE r.seq <= m
      BY <1>2, <3>1, <3>3
    <3>4. CASE ~(r.seq <= m)
      <4>1. \A e \in entries' : e.seq <= r.seq
        BY <1>2, <3>1, <3>2, <3>4
      <4> QED
        BY <3>2, <4>1
    <3> QED
      BY <3>3, <3>4
  <2> QED
    BY <1>3, <2>1, <2>2
<1>5. UNCHANGED <<view, highest, snapshot, replaced>>
  BY DEF gvars
<1>6. \E S : SeenOf(S)'
  <2>1. CASE Readable(entries')
    <3>1. R \subseteq entries'
      BY <1>1, <1>3 DEF SeenOf
    <3>2. PICK S : S = entries'
      OBVIOUS
    <3>3. SeenOf(S)'
      BY <1>1, <1>5, <2>1, <3>1, <3>2 DEF SeenOf
    <3> QED
      BY <3>3
  <2>2. CASE ~Readable(entries')
    <3>1. SeenOf(R)'
      BY <1>1, <1>3, <1>5, <2>2 DEF SeenOf
    <3> QED
      BY <3>1
  <2> QED
    BY <2>1, <2>2
<1> QED
  BY <1>4, <1>5, <1>6 DEF GatewayInv, NeverRevived

LEMMA ReadersRead ==
  ASSUME RegistryTypeOK, RegistryInv, GatewayInv, NEW t \in Readers, Read(t), UNCHANGED rvars
  PROVE  GatewayInv'
<1>1. PICK R : SeenOf(R)
  BY DEF GatewayInv
<1>2. UNCHANGED entries /\ R \in SUBSET Receipts
  BY <1>1 DEF rvars, SeenOf, RegistryTypeOK
<1>3. CASE ListActive(t)
  <2>1. R = entries /\ view' = [view EXCEPT ![t] = ActiveEntries(entries)] /\ UNCHANGED <<highest, snapshot, replaced>>
    BY <1>1, <1>3 DEF ListActive, SeenOf
  <2>2. Sound(entries)
    BY <1>3 DEF ListActive, Sound, RegistryInv, GapFree, HistoryLegal, Before
  <2>3. \A u \in Readers : view'[u] = IF u = t THEN ActiveEntries(entries) ELSE view[u]
    BY <2>1 DEF GatewayInv
  <2>4. SeenOf(R)'
    <3>1. ASSUME NEW u \in Readers, view'[u] # None
          PROVE  \E V \in SUBSET R : Sound(V) /\ view'[u] = ActiveEntries(V)
      BY <1>1, <2>1, <2>2, <2>3, <3>1 DEF SeenOf
    <3> QED
      BY <1>1, <1>2, <2>1, <3>1 DEF SeenOf
  <2> QED
    BY <1>2, <2>1, <2>4 DEF GatewayInv, NeverRevived
<1>4. CASE Refuse(t)
  <2>1. view' = [view EXCEPT ![t] = None] /\ UNCHANGED <<highest, snapshot, replaced>>
    BY <1>4 DEF Refuse
  <2>2. \A u \in Readers : view'[u] = IF u = t THEN None ELSE view[u]
    BY <2>1 DEF GatewayInv
  <2>3. SeenOf(R)'
    BY <1>1, <1>2, <2>1, <2>2 DEF SeenOf
  <2> QED
    BY <1>2, <2>1, <2>3 DEF GatewayInv, NeverRevived
<1>5. CASE Serve(t)
  <2> DEFINE E == view[t]
  <2>1. /\ E # None /\ ~Precedes(E, highest)
        /\ highest' = Highest(E) /\ snapshot' = Compatible(E)
        /\ replaced' = replaced \union {e.previous : e \in {f \in E : f.kind = "SUPERSESSION"}}
        /\ view' = [view EXCEPT ![t] = None]
    BY <1>5 DEF Serve
  <2>2. PICK V \in SUBSET R : Sound(V) /\ E = ActiveEntries(V)
    BY <1>1, <2>1 DEF SeenOf
  <2> HIDE DEF E
  <2>3. E \subseteq V /\ V \in SUBSET Receipts
    BY <1>2, <2>2 DEF ActiveEntries
  <2>4. highest \in Nat /\ \A e \in Receipts : e.seq \in Nat \ {0}
    BY ReceiptsAssumption DEF GatewayInv
  <2>5. highest' \in Nat /\ (\A e \in E : e.seq <= highest') /\ (E # {} => \E e \in E : e.seq = highest')
    <3>1. PICK m \in Nat : \A e \in E : e.seq <= m
      BY <1>1, <2>3 DEF GatewayInv, SeenOf
    <3>2. E \in SUBSET Receipts
      BY <2>3
    <3> QED
      BY <2>1, <3>1, <3>2, HighestIsReached
  <2>6. highest <= highest'
    <3>1. CASE highest = 0
      BY <2>5, <3>1
    <3>2. CASE highest # 0
      <4>1. PICK e \in E : ~(e.seq < highest)
        BY <2>1, <2>4, <3>2 DEF Precedes
      <4> QED
        BY <2>3, <2>4, <2>5, <4>1
    <3> QED
      BY <3>1, <3>2
  <2>7. \A u \in Readers : view'[u] = IF u = t THEN None ELSE view[u]
    BY <2>1 DEF GatewayInv
  <2>8. \A k \in replaced' : \E f \in R : f.kind = "SUPERSESSION" /\ f.previous = k /\ f.seq <= highest'
    <3> SUFFICES ASSUME NEW k \in replaced'
                 PROVE  \E f \in R : f.kind = "SUPERSESSION" /\ f.previous = k /\ f.seq <= highest'
      OBVIOUS
    <3>1. CASE k \in replaced
      <4>1. PICK f \in R : f.kind = "SUPERSESSION" /\ f.previous = k /\ f.seq <= highest
        BY <1>1, <3>1 DEF SeenOf
      <4>2. f.seq \in Nat
        BY <1>2, <2>4
      <4>3. f.seq <= highest'
        BY <2>4, <2>5, <2>6, <4>1, <4>2
      <4> QED
        BY <4>1, <4>3
    <3>2. CASE \E f \in E : f.kind = "SUPERSESSION" /\ f.previous = k
      BY <2>3, <2>5, <3>2
    <3> QED
      BY <2>1, <3>1, <3>2
  <2>9. SeenOf(R)'
    BY <1>1, <1>2, <2>7, <2>8 DEF SeenOf
  <2>10. NeverRevived'
    <3> SUFFICES ASSUME NEW e \in E, e.knowledge \in replaced' PROVE FALSE
      BY <2>1 DEF NeverRevived, Compatible
    <3>1. e \in ActiveEntries(V)
      BY <2>2
    <3>2. CASE \E f \in V : f.kind = "SUPERSESSION" /\ f.previous = e.knowledge
      BY <2>2, <2>3, <3>1, <3>2, SupersededIsOver
    <3>3. CASE ~\E f \in V : f.kind = "SUPERSESSION" /\ f.previous = e.knowledge
      <4>1. e.knowledge \in replaced
        BY <2>1, <2>3, <3>3
      <4>2. PICK f \in R : f.kind = "SUPERSESSION" /\ f.previous = e.knowledge /\ f.seq <= highest
        BY <1>1, <4>1 DEF SeenOf
      <4>3. \A g \in V : g.seq < f.seq
        BY <1>1, <1>2, <2>2, <3>3, <4>2, SupersededIsAbove DEF SeenOf
      <4>4. f.seq \in Nat \ {0} /\ \A g \in E : g.seq \in Nat
        BY <1>2, <2>3, <2>4
      <4>5. highest > 0 /\ \A g \in E : g.seq < highest
        BY <2>3, <2>4, <4>2, <4>3, <4>4
      <4> QED
        BY <2>1, <4>5 DEF Precedes
    <3> QED
      BY <3>2, <3>3
  <2> QED
    BY <1>2, <2>1, <2>5, <2>9, <2>10 DEF GatewayInv
<1> QED
  BY <1>3, <1>4, <1>5 DEF Read

LEMMA GatewayAlways == Spec => [](RegistryTypeOK /\ RegistryInv /\ GatewayInv)
<1>1. Init => RegistryTypeOK /\ RegistryInv /\ GatewayInv
  <2> SUFFICES ASSUME Init PROVE RegistryTypeOK /\ RegistryInv /\ GatewayInv
    OBVIOUS
  <2>1. RegistryInit /\ entries = {} /\ highest = 0 /\ replaced = {} /\ snapshot = {} /\ view = [t \in Readers |-> None]
    BY DEF Init, RegistryInit
  <2>2. SeenOf({})
    BY <2>1 DEF SeenOf, Readable
  <2>3. \E m \in Nat : \A e \in entries : e.seq <= m
    BY <2>1
  <2> QED
    BY <2>1, <2>2, <2>3, TypeInit, InvInit DEF GatewayInv, NeverRevived
<1>2. RegistryTypeOK /\ RegistryInv /\ GatewayInv /\ [Next]_vars => (RegistryTypeOK /\ RegistryInv /\ GatewayInv)'
  <2> SUFFICES ASSUME RegistryTypeOK, RegistryInv, GatewayInv, [Next]_vars
               PROVE  (RegistryTypeOK /\ RegistryInv /\ GatewayInv)'
    OBVIOUS
  <2>1. CASE [RegistryNext]_rvars /\ UNCHANGED gvars
    BY <2>1, TypeStep, InvStep, RegistryMoves
  <2>2. ASSUME NEW t \in Readers, Read(t), UNCHANGED rvars
        PROVE  (RegistryTypeOK /\ RegistryInv /\ GatewayInv)'
    BY <2>2, TypeStep, InvStep, ReadersRead
  <2>3. CASE UNCHANGED vars
    BY <2>1, <2>3 DEF vars
  <2> QED
    BY <2>1, <2>2, <2>3 DEF Next, RegistryNext
<1> QED
  BY <1>1, <1>2, PTL DEF Spec

\* "Stale snapshots must never be served": for any readers, registrations and deaths, no
\* knowledge is served again once a read has met its successor.
THEOREM NothingRevived == Spec => []NeverRevived
<1>1. GatewayInv => NeverRevived
  BY DEF GatewayInv
<1> QED
  BY <1>1, GatewayAlways, PTL
=============================================================================
