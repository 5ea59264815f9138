--------------------------- MODULE PackageAssembler ---------------------------
(***************************************************************************)
(* ExecutionPackageAssembler.assemble, execution_package_assembly.py: one   *)
(* authorized decision.json becomes one execution_package.json under a new  *)
(* execution UUID, behind the durable execution_package_state.json that     *)
(* keeps market sequences from being packaged twice or backwards.           *)
(*                                                                         *)
(* One assembly runs at a time.  Every file operation is a step: it can     *)
(* fail before or after its effect, and between two of them the process can *)
(* die, the power can go, and files can be replaced, deleted or damaged.    *)
(***************************************************************************)
EXTENDS Integers, Sequences, FiniteSets

CONSTANTS
  None,            \* no file, no decision
  Damaged,         \* a file _load_state rejects
  Decisions,       \* the decisions that may appear in decision.json
  MaxPackages,     \* bound: execution UUIDs drawn
  MaxFailures,     \* bound: failed operations, crashes, power losses, damaged or deleted files
  Posix            \* os.name == "posix": _atomic_write synchronises the directory

\* A decision is known by its UUID; "authorized" is what _verify_runtime_authority,
\* the producer, version, schema and lineage checks and _validate make of it.
ASSUME DecisionsAssumption ==
  /\ \A d \in Decisions : /\ DOMAIN d = {"uuid", "seq", "authorized"}
                          /\ d.seq \in Nat /\ d.authorized \in BOOLEAN
  /\ \A d, e \in Decisions : d.uuid = e.uuid => d = e

ASSUME BoundsAssumption ==
  /\ MaxPackages \in Nat /\ MaxFailures \in Nat
  /\ Posix \in BOOLEAN

VARIABLES
  decision,   \* decision.json: a decision, or None (missing or not a decision)
  stale,      \* decisions whose heartbeat is over 30 s old
  authority,  \* execution_package_state.json: the last package recorded, None or Damaged
  survivors,  \* what a power loss may leave of execution_package_state.json
  package,    \* execution_package.json: a package, or None
  health,     \* execution_package_health.json: the last outcome recorded, or None
  step,       \* where assemble is
  chosen,     \* the decision being assembled
  minted,     \* execution UUIDs drawn so far
  issued,     \* history: the packages published, in order
  failures    \* failures so far

avars == <<decision, stale, authority, survivors, package, health, step, chosen, minted,
           issued, failures>>

\* uuid4 never repeats: an execution UUID is the how-manieth draw, next to the
\* decision_uuid the package carries.
PackageOf(n, d) == [uuid |-> <<n, d.uuid>>, seq |-> d.seq]
AssembledPackages == {PackageOf(n, d) : n \in 1..MaxPackages, d \in Decisions}

ASSUME AbsentAssumption ==
  /\ {None, Damaged} \cap (Decisions \union AssembledPackages) = {} /\ None # Damaged

AssemblerInit ==
  /\ decision = None /\ stale = {} /\ authority = None /\ survivors = {None}
  /\ package = None /\ health = None
  /\ step = "idle" /\ chosen = None /\ minted = 0 /\ issued = <<>> /\ failures = 0

-----------------------------------------------------------------------------
\* An operation fails, or the world does: one of the MaxFailures is used up.
Failure == failures < MaxFailures /\ failures' = failures + 1
NoFailure == UNCHANGED failures

Enter(label) == step' = label /\ UNCHANGED chosen
Leave(label) == step' = label /\ chosen' = None

\* The package under construction.
Draft == PackageOf(minted, chosen)

\* Everything _read_and_verify asks of the decision alone.
Executable(d) == d # None /\ d.authorized /\ d.seq >= 1 /\ d \notin stale

\* assemble begins: one immutable read of decision.json, verified.
ReadDecision ==
  /\ step = "idle" /\ minted < MaxPackages
  /\ IF Executable(decision) THEN step' = "load" /\ chosen' = decision ELSE Leave("fail")
  /\ UNCHANGED <<decision, stale, authority, survivors, package, health, minted, issued, failures>>

\* A mistake: the sequence on record may be packaged again.
Supersedes_orEqual(d) == authority = None \/ (authority \notin {None, Damaged} /\ d.seq >= authority.seq)

\* No state file is a first package; a damaged one, or a sequence not newer
\* than the one on record, rejects.
Supersedes(d) == authority = None \/ (authority \notin {None, Damaged} /\ d.seq > authority.seq)

\* _load_state and the comparison that ends _read_and_verify.
LoadAuthority ==
  /\ step = "load"
  /\ \/ Supersedes(chosen) /\ Enter("construct") /\ NoFailure
     \/ ~Supersedes(chosen) /\ Leave("fail") /\ NoFailure
     \/ Leave("fail") /\ Failure
  /\ UNCHANGED <<decision, stale, authority, survivors, package, health, minted, issued>>

\* _construct draws the execution UUID, _validate checks the copy; a trace line
\* that cannot be written abandons the assembly.
Construct ==
  /\ step = "construct"
  /\ minted' = minted + 1
  /\ \/ Enter("state") /\ NoFailure
     \/ Leave("fail") /\ Failure
  /\ UNCHANGED <<decision, stale, authority, survivors, package, health, issued>>

\* os.replace of execution_package_state.json; it survives a power loss for
\* sure only once the directory is synchronised.
Record(synchronised) ==
  /\ authority' = Draft
  /\ survivors' = IF synchronised THEN {Draft} ELSE survivors \union {Draft}

\* A mistake: a failed write is ignored.
PublishState_ignoresFailure ==
  /\ step = "state" /\ Enter("package")
  /\ \/ Record(Posix) /\ NoFailure
     \/ UNCHANGED <<authority, survivors>> /\ Failure
  /\ UNCHANGED <<decision, stale, package, health, minted, issued>>

\* _publish_state, through _atomic_write: done; failed; or replaced and then
\* failed to synchronise, which is reported as a failure as well.
PublishState ==
  /\ step = "state"
  /\ \/ Record(Posix) /\ Enter("package") /\ NoFailure
     \/ UNCHANGED <<authority, survivors>> /\ Leave("fail") /\ Failure
     \/ Posix /\ Record(FALSE) /\ Leave("fail") /\ Failure
  /\ UNCHANGED <<decision, stale, package, health, minted, issued>>

\* os.replace of execution_package.json: the executor can see it from here on.
Issue == package' = Draft /\ issued' = Append(issued, Draft)

\* The _atomic_write of the package, with the same three outcomes.
PublishPackage ==
  /\ step = "package"
  /\ \/ Issue /\ Enter("trace") /\ NoFailure
     \/ UNCHANGED <<package, issued>> /\ Leave("fail") /\ Failure
     \/ Posix /\ Issue /\ Leave("fail") /\ Failure
  /\ UNCHANGED <<decision, stale, authority, survivors, health, minted>>

\* The PUBLISHED trace line; if it cannot be written the assembly has failed,
\* although its package is out.
TracePublished ==
  /\ step = "trace"
  /\ \/ Enter("health") /\ NoFailure
     \/ Leave("fail") /\ Failure
  /\ UNCHANGED <<decision, stale, authority, survivors, package, health, minted, issued>>

\* _publish_observational_health: a failure is traced and changes nothing.
PublishHealth ==
  /\ step = "health" /\ Leave("idle")
  /\ \/ health' = [status |-> "OBSERVED", package |-> Draft] /\ NoFailure
     \/ UNCHANGED health /\ Failure
  /\ UNCHANGED <<decision, stale, authority, survivors, package, minted, issued>>

\* _record_failure, and the exception that leaves assemble.
RecordFailure ==
  /\ step = "fail" /\ Leave("idle")
  /\ \/ health' = [status |-> "REJECTED", package |-> None] /\ NoFailure
     \/ UNCHANGED health /\ Failure
  /\ UNCHANGED <<decision, stale, authority, survivors, package, minted, issued>>

Assemble == ReadDecision \/ LoadAuthority \/ Construct \/ PublishState \/ PublishPackage
            \/ TracePublished \/ PublishHealth \/ RecordFailure

-----------------------------------------------------------------------------
(* The environment.                                                         *)

\* The process dies: what it replaced stays replaced.
Die ==
  /\ step # "idle" /\ Leave("idle") /\ Failure
  /\ UNCHANGED <<decision, stale, authority, survivors, package, health, minted, issued>>

\* The power goes: a replacement not synchronised may be undone.
PowerLoss ==
  /\ Leave("idle") /\ Failure
  /\ authority' \in survivors /\ survivors' = {authority'}
  /\ UNCHANGED <<decision, stale, package, health, minted, issued>>

\* Runtime publishes a decision, or decision.json disappears.
ReplaceDecision ==
  /\ \E d \in Decisions \union {None} : d # decision /\ decision' = d
  /\ UNCHANGED <<stale, authority, survivors, package, health, step, chosen, minted, issued, failures>>

Age ==
  /\ \E d \in Decisions \ stale : stale' = stale \union {d}
  /\ UNCHANGED <<decision, authority, survivors, package, health, step, chosen, minted, issued, failures>>

\* execution_package.json is deleted, or an earlier one is put back.
RestorePackage ==
  /\ \E p \in {issued[i] : i \in DOMAIN issued} \union {None} : p # package /\ package' = p
  /\ UNCHANGED <<decision, stale, authority, survivors, health, step, chosen, minted, issued, failures>>

DamageState ==
  /\ authority \notin {None, Damaged} /\ Failure
  /\ authority' = Damaged /\ survivors' = survivors \union {Damaged}
  /\ UNCHANGED <<decision, stale, package, health, step, chosen, minted, issued>>

World == Die \/ PowerLoss \/ ReplaceDecision \/ Age \/ RestorePackage \/ DamageState

AssemblerNext == Assemble \/ World

AssemblerSpec == AssemblerInit /\ [][AssemblerNext]_avars

-----------------------------------------------------------------------------
\* The comment in assemble: authority advances first, so that a crash never
\* republishes an older sequence after deletion or rollback.  No market sequence
\* is ever packaged twice, and none after a newer one.
IssuedMonotonic ==
  \A i, j \in DOMAIN issued : i < j => issued[i].seq < issued[j].seq

\* The records that forbid everything issued so far to be issued again.
Covers(record) ==
  record = Damaged \/ \A i \in DOMAIN issued : record # None /\ issued[i].seq <= record.seq

\* Every package published is covered by the state file, and by what a power
\* loss may leave of it.
AuthorityCoversIssued == \A record \in survivors \union {authority} : Covers(record)

\* The state file names the package of its sequence, and no other, if one was
\* published: lineage stays unambiguous across crashes between the two writes.
LineageAgrees ==
  authority \notin {None, Damaged} =>
    \A i \in DOMAIN issued : issued[i].seq = authority.seq => issued[i] = authority
=============================================================================
