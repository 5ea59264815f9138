------------------------ MODULE ActiveKnowledgeRegistry ------------------------
(***************************************************************************)
(* learning/active_registry: ActiveKnowledgeRegistry.apply (registry.py)    *)
(* records trusted lifecycle receipts as immutable files (storage.py), one  *)
(* file per receipt, and replays them into the state of the knowledge.      *)
(*                                                                         *)
(* Several processes apply receipts.  A lock file per semantic identity,    *)
(* with a lease, is meant to keep those of one identity apart; the sequence *)
(* they draw from is global.  Every file operation is a step, leases run    *)
(* out at any moment and a process can die between any two steps.           *)
(***************************************************************************)
EXTENDS Integers, FiniteSets

CONSTANTS
  None,        \* no lock file, no receipt
  Processes,   \* the processes that apply receipts
  Receipts,    \* the receipts the trust registry holds
  MaxFaults    \* bound: deaths of processes and failed writes

Kinds == {"ACTIVATION", "SUPERSESSION", "RETIREMENT", "ARCHIVAL"}

\* What _validate_receipt asks of a receipt.  "previous" is the knowledge a
\* SUPERSESSION replaces, "activation" the receipt whose entry it or a RETIREMENT
\* or ARCHIVAL refers to: an entry's activation_uuid is derived from its receipt.
ASSUME ReceiptsAssumption ==
  /\ None \notin Receipts
  /\ \A r \in Receipts :
       /\ DOMAIN r = {"uuid", "kind", "knowledge", "identity", "seq", "previous", "activation"}
       /\ r.kind \in Kinds /\ r.seq \in Nat \ {0}
       /\ r.kind = "SUPERSESSION" => r.previous # r.knowledge
  /\ \A r, s \in Receipts : r.uuid = s.uuid => r = s

\* That there is no lock file is none of the locks.
ASSUME LocksAssumption == None \notin [owner : Processes, lease : {"blank", "running", "expired"}]

ASSUME FaultsAssumption == MaxFaults \in Nat

Identities == {r.identity : r \in Receipts}

VARIABLES
  entries,   \* the entry files, each the entry of one receipt
  locks,     \* per identity: the lock file, or None
  step,      \* per process: where apply is
  task,      \* per process: the receipt being applied
  ranOut,    \* history: the identities of which a lease has run out
  faults     \* faults so far

rvars == <<entries, locks, step, task, ranOut, faults>>

RegistryInit ==
  /\ entries = {} /\ ranOut = {} /\ faults = 0
  /\ locks = [i \in Identities |-> None]
  /\ step = [p \in Processes |-> "idle"]
  /\ task = [p \in Processes |-> None]

-----------------------------------------------------------------------------
(* Replaying the entries.                                                   *)

\* storage.all refuses a registry with two entries of one sequence.
Readable(E) == \A e, f \in E : e.seq = f.seq => e = f

\* The entries that change the state of a knowledge, and the last one to do so.
Touches(e, k) == e.knowledge = k \/ (e.kind = "SUPERSESSION" /\ e.previous = k)
IsLast(E, e, k) ==
  /\ e \in E /\ Touches(e, k)
  /\ \A f \in E : Touches(f, k) => f.seq <= e.seq

\* _project: an activation or supersession that nothing has followed is ACTIVE.
IsActive(E, e) == e.kind \in {"ACTIVATION", "SUPERSESSION"} /\ IsLast(E, e, e.knowledge)
IsRetired(E, e) == e.kind = "RETIREMENT" /\ IsLast(E, e, e.knowledge)

\* The projection list_active returns.
ActiveEntries(E) == {e \in E : IsActive(E, e)}

\* The sequence that comes after those of E.
Follows(E, r) ==
  /\ \A e \in E : e.seq < r.seq
  /\ r.seq = 1 \/ \E e \in E : e.seq = r.seq - 1

Unregistered(E, r) == \A e \in E : ~Touches(e, r.knowledge)

\* A mistake: an activation does not ask whether its identity has an active one.
Legal_anyIdentity(E, r) ==
  \/ r.kind = "ACTIVATION" /\ Unregistered(E, r)
  \/ /\ r.kind = "SUPERSESSION" /\ Unregistered(E, r)
     /\ \E e \in E : IsActive(E, e) /\ e.knowledge = r.previous /\ e.uuid = r.activation
  \/ r.kind = "RETIREMENT"
     /\ \E e \in E : IsActive(E, e) /\ e.knowledge = r.knowledge /\ e.uuid = r.activation
  \/ r.kind = "ARCHIVAL"
     /\ \E e \in E : IsRetired(E, e) /\ e.knowledge = r.knowledge /\ e.uuid = r.activation

\* The lineage a receipt must have to be recorded after the entries E.
Legal(E, r) ==
  \/ /\ r.kind = "ACTIVATION" /\ Unregistered(E, r)
     /\ \A e \in E : IsActive(E, e) => e.identity # r.identity
  \/ /\ r.kind = "SUPERSESSION" /\ Unregistered(E, r)
     /\ \E e \in E : /\ IsActive(E, e) /\ e.knowledge = r.previous
                     /\ e.identity = r.identity /\ e.uuid = r.activation
     /\ \A e \in E : IsActive(E, e) /\ e.identity = r.identity => e.knowledge = r.previous
  \/ r.kind = "RETIREMENT"
     /\ \E e \in E : IsActive(E, e) /\ e.knowledge = r.knowledge /\ e.uuid = r.activation
  \/ r.kind = "ARCHIVAL"
     /\ \E e \in E : IsRetired(E, e) /\ e.knowledge = r.knowledge /\ e.uuid = r.activation

-----------------------------------------------------------------------------
(* apply, by process p.                                                     *)

Fault == faults < MaxFaults /\ faults' = faults + 1
Goto(p, label) == step' = [step EXCEPT ![p] = label] /\ UNCHANGED task
Return(p) == step' = [step EXCEPT ![p] = "idle"] /\ task' = [task EXCEPT ![p] = None]
Lock(p) == locks[task[p].identity]
SetLock(p, value) == locks' = [locks EXCEPT ![task[p].identity] = value]

\* by_receipt before the lock: an unreadable registry raises, a receipt already
\* recorded returns its entry.
Begin(p) ==
  /\ step[p] = "idle" /\ Readable(entries)
  /\ \E r \in Receipts \ entries : task' = [task EXCEPT ![p] = r]
  /\ step' = [step EXCEPT ![p] = "acquire"]
  /\ UNCHANGED <<entries, locks, ranOut, faults>>

\* A mistake: the lock file is opened without O_EXCL.
Acquire_overwrites(p) ==
  /\ step[p] \in {"acquire", "reacquire"}
  /\ SetLock(p, [owner |-> p, lease |-> "blank"]) /\ Goto(p, "stamp")
  /\ UNCHANGED <<entries, ranOut, faults>>

\* os.open(O_CREAT | O_EXCL): an empty lock file; or FileExistsError, on which
\* the first attempt looks at the file and the second raises.
Acquire(p) ==
  /\ step[p] \in {"acquire", "reacquire"}
  /\ \/ /\ Lock(p) = None
        /\ SetLock(p, [owner |-> p, lease |-> "blank"]) /\ Goto(p, "stamp")
     \/ /\ Lock(p) # None /\ UNCHANGED locks
        /\ IF step[p] = "acquire" THEN Goto(p, "contend") ELSE Return(p)
  /\ UNCHANGED <<entries, ranOut, faults>>

\* The lock file of another process is read: gone or blank is LOCK_CORRUPTED,
\* running is LOCK_CONTENDED, and an expired one may be stolen.
Contend(p) ==
  /\ step[p] = "contend"
  /\ IF Lock(p) # None /\ Lock(p).lease = "expired" THEN Goto(p, "steal") ELSE Return(p)
  /\ UNCHANGED <<entries, locks, ranOut, faults>>

\* The unlink of the stale lock: of whatever file has its name by now.
Steal(p) ==
  /\ step[p] = "steal"
  /\ SetLock(p, None) /\ Goto(p, "reacquire")
  /\ UNCHANGED <<entries, ranOut, faults>>

Holds(p, lease) == Lock(p) = [owner |-> p, lease |-> lease]

\* The payload goes to the file p created, whether or not it is still there.
Stamp(p) ==
  /\ step[p] = "stamp" /\ Goto(p, "recheck")
  /\ IF Holds(p, "blank") THEN SetLock(p, [owner |-> p, lease |-> "running"]) ELSE UNCHANGED locks
  /\ UNCHANGED <<entries, ranOut, faults>>

\* by_receipt again, under the lock.
Recheck(p) ==
  /\ step[p] = "recheck"
  /\ Goto(p, IF Readable(entries) /\ task[p] \notin entries THEN "sequence" ELSE "release")
  /\ UNCHANGED <<entries, locks, ranOut, faults>>

\* A mistake: any sequence that is still free will do.
CheckSequence_anyFree(p) ==
  /\ step[p] = "sequence"
  /\ Goto(p, IF Readable(entries) /\ \A e \in entries : e.seq # task[p].seq
             THEN "lineage" ELSE "release")
  /\ UNCHANGED <<entries, locks, ranOut, faults>>

\* A second reading of the registry, for the sequence.
CheckSequence(p) ==
  /\ step[p] = "sequence"
  /\ Goto(p, IF Readable(entries) /\ Follows(entries, task[p]) THEN "lineage" ELSE "release")
  /\ UNCHANGED <<entries, locks, ranOut, faults>>

\* A third one, for the projection.
CheckLineage(p) ==
  /\ step[p] = "lineage"
  /\ Goto(p, IF Readable(entries) /\ Legal(entries, task[p]) THEN "write" ELSE "release")
  /\ UNCHANGED <<entries, locks, ranOut, faults>>

\* storage.write: os.link of the finished file, which can fail; a file that is
\* there already has the same bytes.
Write(p) ==
  /\ step[p] = "write" /\ Goto(p, "release")
  /\ \/ entries' = entries \union {task[p]} /\ UNCHANGED faults
     \/ UNCHANGED entries /\ Fault
  /\ UNCHANGED <<locks, ranOut>>

\* The finally clause: only a lock file that names p is removed ...
Release(p) ==
  /\ step[p] = "release"
  /\ IF Holds(p, "running") \/ Holds(p, "expired") THEN Goto(p, "unlock") ELSE Return(p)
  /\ UNCHANGED <<entries, locks, ranOut, faults>>

\* ... by its name.
Unlock(p) ==
  /\ step[p] = "unlock"
  /\ SetLock(p, None) /\ Return(p)
  /\ UNCHANGED <<entries, ranOut, faults>>

Apply(p) ==
  \/ Begin(p) \/ Acquire(p) \/ Contend(p) \/ Steal(p) \/ Stamp(p) \/ Recheck(p)
  \/ CheckSequence(p) \/ CheckLineage(p) \/ Write(p) \/ Release(p) \/ Unlock(p)

\* The process dies, its lock file stays.
Die(p) ==
  /\ step[p] # "idle" /\ Return(p) /\ Fault
  /\ UNCHANGED <<entries, locks, ranOut>>

\* The clock passes expires_at.
Expire(i) ==
  /\ locks[i] # None /\ locks[i].lease = "running"
  /\ locks' = [locks EXCEPT ![i].lease = "expired"]
  /\ ranOut' = ranOut \union {i}
  /\ UNCHANGED <<entries, step, task, faults>>

RegistryNext ==
  \/ \E p \in Processes : Apply(p) \/ Die(p)
  \/ \E i \in Identities : Expire(i)

RegistrySpec == RegistryInit /\ [][RegistryNext]_rvars

-----------------------------------------------------------------------------
\* PR_157: a registry that can be read exposes at most one ACTIVE knowledge per
\* semantic identity.  The locks need not hold for that: registrations they let
\* through at the same time share a sequence, and storage.all refuses both.
UniqueActive ==
  Readable(entries) =>
    \A e, f \in ActiveEntries(entries) : e.identity = f.identity => e = f

\* Replay has no gaps: all sequences up to the highest are taken.
GapFree == \A e \in entries : \A n \in 1..e.seq : \E f \in entries : f.seq = n

\* Every entry of a registry that can be read has the lineage its predecessors
\* demand, although the registry was read three times before it was written.
Before(e) == {f \in entries : f.seq < e.seq}
HistoryLegal == Readable(entries) => \A e \in entries : Legal(Before(e), e)

\* While leases last, the lock of an identity keeps its registrations apart: no
\* two of its entries share a sequence, whoever died and whatever was left behind.
Collide(e, f) == e # f /\ e.identity = f.identity /\ e.seq = f.seq
LockedApart == \A e, f \in entries : Collide(e, f) => e.identity \in ranOut
=============================================================================
