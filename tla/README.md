# Verification of RP AI EA in TLA+

RP AI EA turns market state into trading decisions in Python and executes them
in a MetaTrader 5 terminal. The two sides share files only. Around that core, a
learning side turns recorded outcomes into *knowledge* that is promoted,
activated, superseded and retired through append-only registries, and that the
runtime reads. This directory holds TLA+ models of the parts of the program
whose correctness depends on the order of steps, their TLC configurations, and
proofs of their main invariants.

`PROJECT.json` is the index: components, runs, the source lines every
definition stands for, hazards, findings, theorems. Source paths below are
relative to the repository's root.

## 1. Inventory

### Decision to order

| Component | State it keeps | Operations | What makes it correct |
|---|---|---|---|
| **MT5 market state writer** (`mt5/canonical/RP_Market_State_Writer_V14...mq5`) | a mutex and its heartbeat in terminal globals, `market_state.sequence`, `market_state.json` | `OnInit`, `OnTick`, `OnTimer`, `OnDeinit` on each chart | one writer at a time; numbers grow across handovers and deaths |
| **Market state reader** (`runtime/market_state_reader.py`) | last sequence, in memory | `read` | no sequence is accepted twice or out of order in a life of the reader |
| Decision engines (`bridge/`: V23, V24, **V26**, V28, V29; `brain/`) | `decision.json`; in memory the lock's counter, the bar's signals, wait and protection counters | score a snapshot, ask the soft direction lock and the signal gate, carry the decision through thirty stages and write it, in up to five attempts | a trend's lock waits only when it has weakened for long enough, and not for ever; no release, override or retry publishes a trade that a veto, the entry window or the losses before it forbade, or with half of its levels |
| **Decision publisher** (`runtime/decision_publication.py`) | `decision.json`, a sequence seeded from it | `publish` | sequences grow across restarts and failed replacements |
| **Decision writer and adapter** (`bridge/decision_writer.py`, `runtime/writer_adapter.py`) | last accepted sequence, in memory | `read` | a document is accepted once, only fresh, never after a newer one |
| **Python executor, broker safety** (`runtime/executor.py`, `broker_safety.py`) | processed sequences, in memory | `execute` with retries | one order per sequence, no retry of an ambiguous answer |
| **File synchronisation** (`bridge_sync/*.ps1`) | last sequence copied | copy by temporary and move | the far side has a whole document, eventually the newest |
| **Package assembler** (`execution_package_assembly.py`) | `execution_package_state.json`, `execution_package.json`, health, trace | `assemble` | a market sequence is packaged once, in order, whatever crashes |
| **Governed executor** (`mt5/canonical/RP_AI_Governed_Executor.mq5`) | `executor_journal.log`, `executor_state.json`, `execution_result.json` | `OnTick` | an order is sent at most once and never without a journaled intent |
| Execution context, activation (`runtime/execution_context_*.py`, `executor_activation.py`) | one read-only file; the activation's state | publish, load, activate | activation is decided once, on a context that is in force |
| Outcome capture (`runtime/live_outcome_capture.py`, `completed_trade_event.py`) | one file per outcome | append | one record per outcome, never rewritten |

The components call nothing of each other across the file boundary. The
assembler reads `decision.json` once per assembly and replaces
`execution_package.json`; the executor polls that file on every tick. Each side
keeps durable records of its own, and neither sees the other's. The publisher
and the writer share `decision.json` in the same way. The Python executor is
called with the writer's snapshot in the writer's process.

### Knowledge

| Component | State it keeps | Operations | What makes it correct |
|---|---|---|---|
| Pattern, policy and evidence packages (`learning/pattern*`, `policy`, `decision_*`, `execution_*`, ...) | one immutable record per result | evaluate, store | pure functions, records written once |
| **Promotion authority** (`learning/promotion_authority/`) | PREPARED, COMMITTED, FAILED and IN_DOUBT records, leased locks | `execute` | a decision takes effect once, its record agrees with the lifecycle |
| **Lifecycle** (`learning/lifecycle/`) | one file per transition, lock files | `append` | transitions follow the state machine, per knowledge one at a time |
| **Active knowledge registry** (`learning/active_registry/`) | one file per entry, leased lock files | `apply`, `list_active` | one ACTIVE knowledge per identity, a gapless legal history |
| **Governance registries** (`learning/release`, `runtime_activation`, `runtime_admission`, `executor_acknowledgement`, `runtime_startup`) | five append-only registries, each an immutable value | release, activate, admit, acknowledge, authorize, consume; revoke, withdraw, stop | an instance is started on one lineage of grants, within their windows |
| **Production startup** (`runtime/production_startup.py`, `production_execution_initialization.py`, `execution_package_bootstrap.py`, `learning/execution_*`, `decision_recommendation`) | per stage a directory of records and a chain of snapshots; the evidence of environments | activate, start, initialize, bootstrap | the runtime runs with a package whose whole chain is on record and was found ready; an interrupted command leaves nothing a later one cannot take up |
| Rollback and deployment (`learning/rollback_orchestration`, `deployment`) | several files per decision | authorize, deploy | a replay finds the whole decision or none of it |
| **Knowledge gateway** (`runtime/knowledge_gateway.py`) | highest sequence served, a cached snapshot | `read` by several threads | what was superseded is not served again |

### Where the difficulty lies

* **Crashes between two file operations**: journal, `OrderSend`, state and
  result in the executor; state and package in the assembler; lock, entry and
  unlock in the registry.
* **Operations that fail half way**: a torn journal line, a replacement whose
  directory cannot be synchronised, a trace line that cannot be written after
  the package is out.
* **Errors that mean two things**: MT5's error 5004 is *no such file* and
  *cannot open*.
* **Locks with leases** that run out under their holder and are removed by name.
* **Unlocked reads** that overtake each other: the gateway's projection.
* **Loss or return of files**: a package replayed, state deleted, damaged or
  undone by a power loss.
* **Answers that are no answers**: a timeout of the trade server.
* **Bounded time to recover**: an interrupted order is noticed only while its
  package is fresh.
* **Numbers kept in memory** on both sides of `decision.json`, and read back
  from that file, or not at all, after a restart.
* **Retries over a dictionary** that the failed attempt has already changed, and
  counters in module globals that every attempt moves.
* **Several authorities in a row**, each of which sees a snapshot its caller
  brings, a time its caller declares, and only the link before its own.
* **Repositories without locks** that several commands append to: records first,
  then a snapshot that must name them all.

`PROJECT.json` lists each with its line and the property that watches it, or
the reason why none does yet.

## 2. Modules

| Module | What it is |
|---|---|
| `AtMostOnceSubmission` | what an executor promises the rest of the system, whatever files it keeps |
| `GovernedExecutor` | `OnTick` and its world; refines `AtMostOnceSubmission` (`KeepsPromise`) |
| `GovernedExecutorProofs` | type correctness, monotonic and at-most-once submission, what the journal backs, the refinement |
| `PackageAssembler` | `assemble` and its world |
| `PackageAssemblerProofs` | type correctness, monotonic issue, coverage by the state file, lineage; of the pipeline: it implements the executor and its promise, and trades a sequence once |
| `ExecutionPipeline` | assembler and executor as two processes sharing `execution_package.json` |
| `ActiveKnowledgeRegistry` | `apply` by several processes, locks and storage included |
| `ActiveKnowledgeRegistryProofs` | type correctness, unique ACTIVE, gapless and legal history, locks that keep apart while leases last; of the gateway: nothing superseded is served again |
| `KnowledgeGateway` | the runtime's readers over the registry (extends it) |
| `OrderSubmission` | the Python executor, its retries and the broker's answers |
| `DecisionDispatch` | adapter, publisher, `decision.json` and writer before it (extends it) |
| `DecisionDispatchProofs` | single orders, growing numbers, nothing unread refused |
| `SignalCycle` | V26's cycle before that: soft direction lock, signal gate |
| `DecisionWrite` | V26's `write_decision`: stages, memory, attempts |
| `DecisionEngineProofs` | of the cycle: earned and finite waits, a lock that opposes nothing, no repeated signal; of `write_decision`: what is published obeys its authorities |
| `KnowledgePromotion` | promotion authority and lifecycle, locks and records included |
| `KnowledgePromotionProofs` | one request, evidence first, COMMITTED agrees, legal life cycle |
| `RuntimeGovernance` | the five registries from release to startup |
| `MarketFeed` | `market_state.json`: the experts that write it, the script that carries it, the reader |
| `MarketFeedProofs` | type correctness, growing numbers |
| `ProductionStartup` | the commands that derive, or name, an execution package |
| `ProductionRuntimeProofs` | of `RuntimeGovernance`: one lineage per instance, the sum of the windows; of `ProductionStartup`: only ready packages run, one package per readiness, readable repositories, refusals with a cause |
| `MC...` | values of the constants for TLC |

### GovernedExecutor

`pc` is where `OnTick` stands between two file operations; `pkg`, `stateSeq`,
`publication` and `reply` are its locals. One action per operation, in the
code's order:

```
ReadPackage -> LoadState -> InspectJournal -> ValidateAtBroker
  -> AppendTransition -> WriteTemporary -> MoveTemporary     (PersistTransition ACCEPTED)
  -> the same three                                          (SUBMITTING)
  -> SendOrder -> ReceiveReply
  -> the same three                                          (SUBMITTED or REJECTED)
  -> WriteTemporary -> MoveTemporary                         (the result)
```

`Persisted` and `NotPersisted` say where a persisted, or failed, transition
leads. `AppendUnknownOutcome` is the append whose outcome the code ignores:
recovery of an interrupted submission and the last resort of a tick.

The journal is the sequence of its records plus `tail`, what a reader makes of
its bytes: every line whole (`closed`), the last one without its terminator
(`open`), or some line with another number of fields (`bad`).
`InspectJournal` rejects on a field count only, so that a line torn behind its
sixth field is accepted and the next append is glued to it. A package is its
UUID and its market sequence; all that `ReadExecutionPackage`,
`ParseCanonicalPackage` and `ValidatePackage` check of the text is one verdict,
because the models' packages are the ones the assembler makes. Trace lines are
left out: nothing reads them. `OrderSend`'s return codes are four classes, of
which `ReceiveReply` makes SUBMITTED or REJECTED as lines 539-546 do.

The world: crashes (a line being appended may be whole, part or absent, a
temporary stays behind), failed operations, replaced, replayed, deleted and
aged packages, the emergency switch, a deleted state file. The broker is
external: a request may be lost, or decided at any later moment, and a timeout
or a lost connection (`AMBIGUOUS`) may come before or after that.

`StateDeletable`, `StateUnopenable` and `JournalUnopenable` say which of the
outside events may happen: the guarantees depend on them.

### PackageAssembler

`step` is where `assemble` stands, one action per file operation:

```
ReadDecision -> LoadAuthority -> Construct -> PublishState -> PublishPackage
  -> TracePublished -> PublishHealth            (each may lead to RecordFailure)
```

`_atomic_write` has three outcomes: done; failed with nothing changed; replaced
and then failed on the directory's `fsync` (POSIX only), which is reported as
a failure. `survivors` is the set of records a power loss may leave of the
state file: a synchronised replacement leaves one. `authority` is
`execution_package_state.json`; `Damaged` stands for any content `_load_state`
rejects. A decision is its UUID, its market sequence and the verdict of all
checks on its text. `issued` and `minted` are history and bound.

### ExecutionPipeline

Extends the assembler and instantiates the executor with the packages the
assembler can make; the file is one variable. An assembler step leaves the
executor's variables alone and the reverse. Ageing is left out: it only keeps
steps from being taken. Here `execution_package_state.json` may also be
deleted, which the assembler by itself cannot survive.

### ActiveKnowledgeRegistry

`entries` are the entry files, each the entry of one receipt; `locks` maps an
identity to its lock file with the state of its lease; `step` and `task` are
each process's position and receipt. `apply`, one action per file operation:

```
Begin -> Acquire -> Stamp -> Recheck -> CheckSequence -> CheckLineage -> Write
                                                  -> Release -> Unlock
Acquire -> Contend -> Steal -> Acquire again
```

The registry is read anew in `Recheck`, `CheckSequence` and `CheckLineage`, as
in the code, and other processes may write in between. A stolen lock is
removed by name, whoever owns it by then. A lock just created is `blank` until
its payload is written; a process that dies there leaves it blank, which the
code calls LOCK_CORRUPTED and never removes. `Readable` is `storage.all`'s refusal
of two entries with one sequence; `IsActive`, `IsRetired`, `Legal` are the
projection and its lineage rules as predicates on the set of entries. A lease
may run out at any moment, on every machine's clock at once.

### KnowledgeGateway

`ListActive` replays the registry before the gateway's lock is taken; `Serve`
and `Refuse` are the locked part of `_read`. `view` is the projection in a
thread's hands, `highest` the sequence the rollback check compares, `snapshot`
what was served last, `served` the history. `Unsupported` is the knowledge
of a version the gateway does not support: `Compatible` leaves it out of what is
served, although its sequence counts in the rollback check. Digests of snapshots
are not modelled.

### OrderSubmission and DecisionDispatch

A snapshot is its sequence, its payload and the number of its publication,
which the code does not know and the properties do. `Execute` is
`Executor.execute` up to the first request, with the sequence marked as
processed before any check, as in the code; `Send` is one pass of the loop in
`_submit` with any of the broker's four answers; an exception or a malformed
result counts as `AMBIGUOUS`. `brokerReady` is the verdict on symbol, market,
volume and margin.

`Publish` is `publish` with the adapter before it: `Adapt` with its consistency
rules, `Publishable` with the publisher's own, and the fail-safe document both
fall back to. `Read` is all of `DecisionWriter.read`; its refusals leave the
writer as it was and are no step. The publisher is one process, writer and
executor another. `RestartPublisher` finds the sequence in `decision.json`,
`RestartConsumer` finds nothing. The file may be deleted, or made unreadable,
by somebody else; a document ages.

### SignalCycle

One cycle of V26's `run` up to `write_decision` is one step: `EarlyReturn`, for what
`build_decision` refuses before it asks the lock, `Decide`, or `LogicError` for an exception
after it. A market is mode, band, extreme, the gap between the scores,
RSI, MACD (in hundredths) and the averages; `Classified` is what the two classifiers
make sure of, and `Proposals` over-approximates the setups: any direction the
scores allow. `decay` is the lock's memory, which after each evaluation holds one key only: that
evaluation's. `Kept` is what `reset_stale_transition_decay_keys` leaves of its count, `Counted`
what `apply_transition_decay` makes of it, `SoftState` the answer. `gate` is `can_fire`'s
memory. All of it is in module globals, which `Restart` clears. `outcome` is the last
answer, and `weak`, `waits`, `fires` are history. Overrides are left out: they let a
decision through that `can_fire` refused, and remember it apart.

### DecisionWrite

A cycle brings a candidate, of which the model keeps `facts`: what the scoring
functions find in the market, as grades. They stay the same over the attempts
of a cycle. `doc` is what the stages change in the dictionary: the verdict, its
identity, the marks and vetoes on it, its stops, the two flags of the executor's
contract. A stage is an operator on it, named after what it is about;
`Score`, `Guard` and `Publish` are their order in `write_decision`, in three parts,
and `Attempt` takes the document that the failed attempt before it has left
through all of them. A pipeline maps sets of states to sets of states, of
one state each; so written, the order of twenty stages can be reasoned about. `memory` is the module
globals: the wait counter with the setup it belongs to, and the protection in
force with its cycles. `Identified` is the check that the decision still is the
one identified; `Refuse` any failure after it, `OpenFails` one before the stages.

Stop and target are each none, on the wrong side of the entry (`CROSSED`), or on
its side. A HOLD_TRAIL of `build_decision` comes without a target, and a NO_TRADE made of a
TRADE keeps the levels it had. What is demanded of them depends on the dashboard's profile, of which
the model keeps two facts: `tpOnly`, the profile TP_ONLY_1USD_TEST, and
`marketClose`, an exit the dashboard closes at the market (the shipped default). Under
the first no stop is demanded, under the second no target is looked at, and only both together
(`SuppressionApproved`) take both levels away. Hence the four cases of `RiskPublishedValid`; with
`tpOnly` alone a stop on the wrong side is accepted, as the property says. The loader
(`bridge/trade_management_dashboard.py:141-158`) replaces TP_ONLY_1USD_TEST when the dashboard names
it; a profile file of another name that names it inside is not asked. Only decisions
with a management of `V26:5347` are repaired (`managed`): every stage that makes a
TRADE sets one.

Branches that cannot be reached are not modelled. Drawdown caution begins at the -5.00 of the daily
stop, which is asked for first (lines 259-260, 3079), so that a day is `NORMAL` or `STOP`.
The protections of session profit and of drawdown wait for flags that nothing sets.
`Directional` and `Wanted` take dominance and the decay of a transition from the facts.

The wait counter is counted up to one above the limit it is compared with.
Durations of protections are left out: at a second per cycle the limits on
cycles come first. Also left out are the stages that only report (style,
spike, compatibility, structure hold, metrics, explainability detail), those
that change the size, and the exit authority.

### KnowledgePromotion

`records` are the promotion records, a file each, named by decision and status.
`locks` are the authority's leased locks, `guards` the lifecycle's, which have
no lease, `log` the lifecycle's events. `task` is where each process stands:

```
Begin -> Lookup -> Acquire -> Stamp -> Recheck -> Prepare
  -> Guard -> Check -> Write -> Unguard                       (lifecycle.append)
  -> Commit | Doubt -> Release -> Unlink
Acquire -> Steal -> Acquire again
Transition -> Guard -> Check -> Write -> Unguard              (any other component)
```

Every write may raise before its file is linked or after it. A process may die
at any step and leaves its lock files. A power loss may take back promotion
records, whose directory is not synchronised; the lifecycle's is. The port that
hands the transition from one to the other is external: in the repository no
implementation of it is wired, and the transition's own `to_dict` has no
`idempotency_key`; the model's port hands the transition on and returns the
event.

### RuntimeGovernance

A registry is the sequence of its records, oldest first, and the value a caller
brings of an *earlier* authority's registry is any prefix of it. An authority
insists that the value of its *own* registry is the current one, under its lock,
so a call is one step. Each record holds the record it was granted on (`of`),
which is what the copied identities of the code bind it to. Times are declared
by the callers. A refused call leaves only evidence that no decision reads, and
is no step. `Later`, `Admitted`, `Attested`, `Duplicate`, `Stopped` are the
checks that relate a call to other records. One startup policy is modelled; its identity is
in the composite key of `Duplicate`, and in the contract that the key also holds.

The registries have no production callers yet. Statuses that name one
acknowledgement or one authorization are not modelled; nor is the second
`RuntimeActivationRegistry`, in `release/governance.py`, which nothing uses.

### ProductionStartup

A record is its identity, the hash of its content: a readiness is *of* a
recommendation *under* a snapshot, an environment of its evidence, and so on to
the package, which contains its whole chain. Per stage, `records` and
`snapshots` are the files of its repository; `Readable` and `Heads` are
`latest_snapshot`. The engines share one shape, and so do their steps:

```
ActivateIntelligence -> SaveActivation
Startup | Initialize | Bootstrap -> for each stage:
  Verify -> Save (each record) -> Identify -> ReadHead -> Link -> next stage
after readiness: ExactSnapshot -> SaveEvidence, and in environment: Weigh
after package:   Load, and the runtime runs
```

`run` holds the locals of each command's process. Nothing locks the
repositories, and a command may die before any step. `Healthy` captures satisfy
the environment policy; `Strong` intelligences make ready recommendations.
Reads that the code takes apart and whose mismatch can only refuse
(`identities`, `digest`, `latest_snapshot`) are taken together where nothing
else depends on them. The environment variable that carries the package's UUID
belongs to one process and needs no model. Records that are corrupt, of another
policy or of another engine are left out: they raise.

### MarketFeed

The experts of one terminal, one per chart, of which a mutex lets one work. Their
globals are `owner` and `beat`, the heartbeat as a lease that is `fresh` or
`over`; their files `journal` and `common`. `sequence` is each one's number.

```
Look -> Swap -> Beat -> Restore -> (OnTick -> PersistSequence | OnTimer)*
Detach, or a failure -> ReleaseOwner -> DeleteBeat
Peek -> Copy -> Move          (the script, every 500 ms)
Open -> Finish                (the reader)
```

A snapshot is the number of its publication; `published` maps it to the sequence
written into it, and `target` to the far side. `contested` records that two
experts were ever inside the mutex together. Any expert may die without
`OnDeinit`, the terminal may end and take the temporary globals along, and one
of the two records of the number may be deleted while the other covers it.
`Late` lets a working expert miss its timer for thirty seconds. The script
compares sequences and copies what is there when it copies, which may be newer
than what it compared; its `lastSeenSequence` moves only after the replacement.
The reader remembers a number only after its last check. `aged` is the reader's
clock against the heartbeats: the snapshots up to it are older than the limit of
30 s and are refused (`STALE_HEARTBEAT`) from then on; `Age` may come at any
time after an arrival, which covers a delayed one, and the clock is not set back.
The refusals of `Finish` that count as faults are those that may pass: a failed
read and a heartbeat still ahead of the reader's clock.

Temporary and replacement of `OnTick` are one step: with one expert inside
nobody else uses the temporary's name, and what two do to it is not modelled.
A second `GlobalVariableTemp` on an existing global is taken to succeed. A
target deleted on the far side is not modelled: the script would leave it
missing until the next number, since it skips a number already carried.

## 3. What the runs show

| Run | Bounds | Shows |
|---|---|---|
| `ge_safety` | two packages, two faults, state file deletable and unopenable | at-most-once, monotonic, intent before send, the state file never ahead of the journal, a legal journal; the refinement `KeepsPromise`; `RecoveredWhileFresh` |
| `pa_safety` | four decisions (two of one sequence, one not authorized), three assemblies, two failures, POSIX | monotonic issue, coverage, lineage |
| `ep_lossy` | one decision authorized and one not, two assemblies, two failures of the assembler and one of the executor, no synchronisation, both state files deletable | a market sequence is traded once although the assembler forgets it |
| `kg_reads` | two processes, two readers, five receipts of two identities (a supersession and a retirement among them), one fault, one knowledge of an unsupported version | unique ACTIVE, legal history, locks keep registrations apart while leases last; superseded knowledge is not served again |
| `dd_dispatch` | three publications of six packages (one malformed), two faults, one retry | one open order per sequence in a life of the executor, numbering across restarts, nothing unread refused |
| `de_cycle` | eight market states, two bars, the code's limits of the lock (4, 6, 12) and of the gate (two signals); 172 candidates, five attempts, the wait limit of the code, one restart | the lock waits only after four weakening evaluations in a row, at most three times in a row, and never against the direction proposed; no signal is repeated within the cooldown. No trade published against a hard block, a closed window or the losses before it, or with half of its levels; no protection outlives its limit |
| `kp_promotion` | one decision, two processes, three executions or other transitions, one fault, two instants | one request, evidence before it, COMMITTED only with the transition, a legal history, every call ends |
| `rg_chain` | two releases of one instance, two nonces, four instants, two records per registry, windows of one instant | one lineage per instance; consumed within the sum of the windows |
| `ec_startup` | three commands, two intelligences of which one makes ready recommendations, two healthy captures and one unhealthy | the runtime runs only with what was found ready and is on record, one chain per readiness, repositories stay readable, refusals have a cause |
| `mf_feed` | two charts, two snapshots, two faults | numbers grow as long as the mutex holds; the last snapshot arrives on the far side and is returned unless it grew too old |

Why the bounds are enough.

* `ge_safety`, `ep_lossy`: two packages with different sequences are what
  replay, reordering and recovery need: the second one makes the first one old.
  Two faults let a fault hit the recovery from another, and allow a crash with
  a deleted state file.
* `pa_safety`: three assemblies let a sequence be reissued after a newer one.
* `kg_reads`: two processes are what contention needs, and since leases may run
  out at any moment, two are also enough for a lock to be stolen from a thief.
  The receipts compete for a sequence within an identity and across identities;
  one supersedes another, one retires what is active. Two readers let one overtake
  the other.
* `dd_dispatch`: three publications let the consumer miss one and read the next;
  two faults let publisher and consumer restart, or the file be lost before the
  publisher does. One retry shows both the retry and its limit.
* `de_cycle`: the two halves of the engine share no variable, and either is followed to its
  end while the other rests in its initial state. An invariant of one half reads
  variables of that half alone, so it holds of the two together, too.
  `SignalCycle`: a rising trend that weakens in each of the ways that count or reset, recovers,
  walks its band, turns or is compressed, and a falling one. Two bars are what a
  change of bar needs, and evaluations are not bounded: the counts run through
  their limits. An evaluation expires after two ticks and a cooldown after one,
  with any number of cycles between ticks; the proofs cover other ratios.
  `DecisionWrite`: every fact is varied by itself from eight candidates: a plain trade,
  one for each veto, and blocked ones; so each stage meets each verdict of the
  stages before it. Missing and crossed levels come under each kind of profile. Counters run to their limits, which lie between three and sixty
  cycles; more attempts than five do not exist.
* `kp_promotion`: two executions of a decision race, a third comes after them;
  one fault is a failed write, a failed unlink, a death or a power loss. Two
  instants make one transition later than another, or not.
* `rg_chain`: two releases of *one* instance are the case the authorities must
  tell apart, since different instances share no record; with windows of one
  instant every sum and every off-by-one is met within four instants. Larger
  windows, mixed generations and longer registries are covered by the proofs.
* `mf_feed`: two charts are what a handover needs. Two snapshots let the second
  be numbered by another expert than the first, and overtake it in the script
  and under the reader's hand. Two faults let a refused journal or a death meet a lost file,
  and a restart of script or reader meet a locked file. `Late` is FALSE: a lease that
  expires under a working expert breaks the mutex, which `NumbersGrow` and
  `Delivered` exempt; the theorem holds with it.
* `ec_startup`: one activation is ever the sole one, so one batch suffices;
  three commands are a startup that dies, an initialization or startup that takes up
  what it left, and a third that races it or boots from named records.

Deadlock is checked in the executor, the assembler, the pipeline,
and `de_cycle`. It is not elsewhere: an active registry in which two entries share a
sequence raises for ever; publications, executions, commands, snapshots, times and records
run out at their bounds, and the system really stops there.

### Disagreements found

A run that expects a violation of a property the repository states.

| Run | Property | What happens |
|---|---|---|
| `mf_split` | `OneWriter` | two charts start together: the second finds the first one's heartbeat still missing, takes the lease for expired and swaps as well (`mt5/canonical/RP_Market_State_Writer_V14_TIME_SYNC_STANDARD_V1_COMPILE_FIX.mq5:467-468`) |
| `dw_stop` | `DailyStopHolds` | on a day of the stop the governor blocks the TRADE, whose identity check then fails; in the next attempt the veto that stands makes the governor skip the block as a duplicate (V26, line 2400), and the TRADE is published to be sent, against line 3076 ("disable new entries only") and `CURRENT_SYSTEM_STATE.md:496` ("new entries are disabled") |

The code's own defences are sound outside these cases. What else was met while
modelling, and holds of the models though no run states it:

* *Executor.* REJECTED is journaled for return codes after which the server may
  still execute the order (line 544). With the state file deleted and the
  journal present but unopenable, error 5004 makes it an empty one and the order
  is sent again; `JournalUnopenable = FALSE` is an assumption, not a bound. An
  append after a torn but six-field line makes the journal unreadable, and from
  then on no tick goes on. An interrupted submission whose package expires or is
  replaced stays SUBMITTING.
* *Assembler.* An assembly may report a failure after its package is out
  (lines 77 and 243).
* *Active registry and gateway.* A blank lock is never stolen. When the newest
  ACTIVE knowledge is retired, the highest sequence of the projection falls, and
  every read is refused as a rollback until a newer one is activated;
  `docs/architecture/PR_158_KNOWLEDGE_RUNTIME_GATEWAY.md:21` speaks of older ones.
* *Feed.* The expert publishes a number and journals it afterwards, where
  `docs/evidence/V14_GOVERNED_PRODUCER_INTEGRATION_EVIDENCE.md:48-56` has it
  reserved first; reading the larger of both makes up for it. `OnTick` never asks who
  owns the mutex, and an expert that ends deletes the heartbeat whosever it is.
* *Dispatch.* After a restart the Python executor executes the same
  `decision.json` again while its heartbeat is fresh (`executor.py:40`). The numbering
  starts anew when `decision.json` cannot be read (`decision_publication.py:163`).
* *V26.* A TRADE downgraded to NO_TRADE by the risk invariant keeps
  `executor_order_send_required`; the assembler rejects such a document. The
  wait limit, counted in cycles, may be reached within the attempts of one. A
  veto of the window alone makes the decision differ from its identity, so that
  all attempts fail and the old `decision.json` stays. The fallback is
  published without an identity. Drawdown
  caution, for which `CURRENT_SYSTEM_STATE.md:487` has trades go on in reduced size, is
  behind the daily stop of the same threshold. On a day of the stop the thesis is not
  asked for; `LossGovernorHolds` excepts it.
* *V26's lock and gate.* `REVERSAL_ALLOW`, and the lock's refusal of a direction, are documented at
  line 7524 and never reached (`LockNeverOpposes`, proved): lock and direction
  both follow the scores. A stale market state or a plain NO_TRADE uses up one of the
  bar's two signals, since the gate is asked whatever was decided. Each override clears the
  memory of the one before (line 1094), so that overrides of two kinds in turn
  pass more than the one per bar that the comment at line 760 allows.
* *Promotion.* A retry after a death between PREPARED and COMMITTED, or after
  IN_DOUBT, meets the immutable PREPARED and raises for ever; FAILED is never
  written. The lock file of a process that died in the lifecycle is never removed: every later
  call of that knowledge times out.
* *Governance.* Only staleness of the own registry is refused; PR278 speaks of
  all snapshots. The generation check at startup refuses nothing
  (`GenerationGateOpen`, proved): the instance already fixes the generation, and
  an older generation may start after a newer one. One acknowledgement may yield
  several startup authorizations, each consumable once.
* *Startup.* A repository with a snapshot cannot grow, because the head is read
  after the new records are saved and must name them all: a second
  recommendation or readiness makes it unreadable for ever. Every startup saves its own observation as
  evidence of the one readiness, and from the second on every startup is refused
  (one of the causes in `RefusedForCause`), where
  `docs/architecture/PR225_DEMO_OPERATIONAL_VALIDATION_PREFLIGHT.md:148-155`
  expects repeated startups. Two activations at once leave two, and every startup is
  ambiguous.

### Fairness

`ge_safety` uses `FairSpec`: weak fairness of `Tick` and of `BrokerDecides`. The
terminal calls `OnTick` on every price tick and runs it to its return, with no
wait in it but `OrderSend`, which has a timeout; so some step of it is taken as
long as one can be. The trade server decides the requests it has. Nothing is
assumed of packages, their ageing, faults or the operator's switch.
`RecoveredWhileFresh` therefore assumes in its own left-hand side that the
package stays in place, fresh and enabled.

`kp_promotion` uses `FairSpec` too: weak fairness of each process's `Step`. A
call of `execute` or `append` is a sequence of file operations and one wait of
ten seconds with an end, in a thread the operating system runs. Nothing is
assumed of `Begin`, of other components, of leases, the clock or faults;
a process that dies has ended its call.

`mf_feed` uses `FairSpec`: weak fairness of the script's loop, which runs every 500 ms
as long as the script does and is started again when it was ended, and of the
reader's, which the runtime calls in its own loop. Nothing is assumed of the
experts, the terminal, faults or `Age`; `Delivered` starts from a snapshot that stays
the last one, and promises its arrival always and its return where it is read in time. No other property needs fairness.

### Mutants

For each property of a passing run, `PROJECT.json` names a mistake, an operator
with a suffix such as `Newer_stateOnly`, defined next to the operator it
replaces and used by nothing in the specification. With it in place TLC finds
the property violated, so each property depends on the code it is about:

| Property | Mistake |
|---|---|
| `AtMostOneSubmission` | the order goes out before it is recorded |
| `SubmissionsMonotonic`, `KeepsPromise` | the journal's sequences are not compared |
| `IntentBeforeSend` | ACCEPTED is enough to send |
| `StateBackedByJournal` | the state file is written without the journal |
| `JournalFollowsLifecycle` | a failed SUBMITTING is tried again |
| `RecoveredWhileFresh` | an interrupted submission is rejected as a duplicate |
| `IssuedMonotonic`, `LineageAgrees` | the sequence on record may be packaged again |
| `AuthorityCoversIssued` | the failure to write the state file is ignored |
| `SequenceTradedOnce` | an equal sequence passes the executor |
| `UniqueActive` | an activation does not ask for an active one of its identity |
| `HistoryLegal` | any free sequence is accepted |
| `LockedApart` | the lock file is opened without `O_EXCL` |
| `NeverRevived` | only an empty projection counts as older |
| `OneLiveOrderPerSequence` | an ambiguous answer is tried again |
| `SequencesIncrease` | every start begins the numbering anew |
| `RefusesOnlyRead` | the sequence expected next is taken for an old one |
| `WaitEarned` | a count is kept into the next bar and for any time |
| `WaitBounded` | the cap takes effect below the limit that releases |
| `LockAgrees` | the order of the averages locks whatever the scores say |
| `CooldownHolds` | a bar may have any number of signals |
| `SendNeedsSafety` | a hard block does not count against sending |
| `RiskPublishedValid` | a stop is looked for, not at |
| `ClosedWindowHolds` | what a counter or a protection released is not asked for its window |
| `LossGovernorHolds` | the second loss in a row does not count yet |
| `ProtectionBounded` | a released protection keeps counting where it stood |
| `OneRequest` | an earlier execution's PREPARED is taken for one's own |
| `EvidenceFirst` | the transition is asked for although PREPARED failed |
| `CommittedAgrees` | whatever the lifecycle answers counts as done |
| `LifecycleLegal` | a lock that does not come free is taken over |
| `CallsEnd` | the wait for the lifecycle's lock has no end |
| `OneLineage` | admission is unique by handoff alone |
| `StartsInTime` | a handoff never grows too old |
| `RunsOnlyReady` | what the environment engine reports is not looked at |
| `OnePackage` | of several pieces of evidence a command takes its own |
| `StaysReadable` | a snapshot carries the process that made it |
| `RefusedForCause` | a head of the same identities is never taken over |
| `NumbersGrow` | a new writer restores the journal alone |
| `Delivered` | a number counts as carried although the target was locked |

## 4. What is proved

The proofs hold for all values of the constants: any packages, decisions,
processes and receipts, any number of faults.

**GovernedExecutorProofs.** `TypeCorrect`: `Spec => []TypeOK`. `Monotonicity`
and `AtMostOnce`: `Spec => []SubmissionsMonotonic` and `[]AtMostOneSubmission`,
assuming `Retained`: the journal can always be opened, or the state file can be
neither deleted nor unopenable. Without it the order can be sent twice, so the assumption is
needed. Neither property is inductive: that the next order is newer than all
earlier ones follows from a chain of facts: each order sent is on the
journal; with the state file retained it is covered by that file too; past the
sequence check the tick's package is newer than everything on the
journal, except for its own lines; and `sent` does not hold the tick's package
before `SendOrder`. The inductive invariant is their conjunction with `TypeOK`.
At most one submission then follows, since a UUID determines its package and
thereby its sequence.

`Trace`: `Spec => [](IntentBeforeSend /\ StateBackedByJournal /\
ResultBackedByJournal)`, with no assumption. Its invariant says what the
journal is certain to hold of the package in hand at each point of the tick
(`CandidateTraced`); what a torn append leaves is no record, so each of these
facts comes from the step that saw its own append succeed. `Lifecycle`
(`JournalFollowsLifecycle`) and `Refinement` (`KeepsPromise`, the implementation
of `AtMostOnceSubmission`) assume that an existing journal can always be
opened: error 5004 on a journal that is there makes the tick take it for empty and start the
lifecycle of its package over. Both rest on `PositionInv`: at each point of the
tick the last status on record of the package in hand is the one the tick
goes on from. Every append then continues its package's lifecycle, and is a
step or a stutter of the abstract service; lines of other packages do not move.

**PackageAssemblerProofs.** `AssemblerTypeCorrect` is unconditional.
`AssemblerMonotonic` and `AuthorityCovers` assume `Posix`, so that a replaced
state file is synchronised before the package is, and so does `AssemblerLineage`. The invariant says that
whatever the state file may be found to be after a power loss covers everything issued,
and that from `PublishState` to `PublishPackage` the draft is newer than
everything issued and covered by it. `LineageInv` adds that whatever may be found
on the state file is the package published under its sequence, if one was, and
that from `PublishState` to `PublishPackage` nothing but the draft, or damage,
can be found there. Without the synchronisation these properties are false, and
only the executor's journal prevents a second trade.

That it does so is `DecisionTradedOnce`: `Spec => []SequenceTradedOnce` for
`ExecutionPipeline`, with `Posix` or without, with the assembler's state file deleted or
not, assuming what `Monotonicity` assumes of the executor. It follows from
`PipelineRunsExecutor`: `Spec => Executor!Spec`, since all that an assembler's step
can be to the executor is a package replaced by one of the assembler's, or nothing.
`ExecutorAssumptions` shows that these packages are what the executor assumes
of packages, so that the theorems of `GovernedExecutorProofs`, instantiated as `Facts`, speak
of the pipeline. So does the refinement: `PipelineKeepsPromise`. (Two instances of one module define the same, which the provers see
only when all of it is expanded: `OneExecutor`.)

**ActiveKnowledgeRegistryProofs.** `RegistryTypeCorrect`, `ActiveIsUnique`,
`SequenceHasNoGaps`, `HistoryIsLegal` hold for any number of processes and
*whatever becomes of the lock files*: none of their lemmas speaks of the locks. The reason
is the shared sequence. A receipt that passed `CheckSequence` follows
the entries of that moment; an entry written since, by somebody the lock let
through or of another identity, has passed the same check and can only be of
the same sequence, or of a later one that presupposes an entry of the same
sequence. Its writing then makes the registry unreadable (`storage.all` refuses
it). As long as the registry can be read, nothing came between check and write,
and the lineage judged is the lineage recorded. The invariant: no gaps
(`GapFree`), what each process has checked so far (`Reached`, `Checked`),
`HistoryLegal` and `UniqueActive`.

What the locks do add is `LocksKeepApart` (`RegistrySpec => []LockedApart`): until a lease of
an identity runs out, no two entries of it share a sequence. `LockInv` says of each process
whose identity has seen no lease run out (`Keeps`) that it stole no lock, that the lock file is its own from
`Stamp` to `Unlock`, and that once `CheckSequence` let it through no entry of its
identity has reached its sequence. A blank lock stays with its owner, dead or
alive, and a lease is only found expired where it has run out; so nobody else is inside.

`NothingRevived` is about the gateway: `Spec => []NeverRevived`, for any readers. It
needs the registry's invariant, since the readers' projections are of a registry as
`list_active` met it: readable, gapless and legal (`Sound`). `GatewayInv` keeps one registry *R*,
the last that could be read, of which all that anybody has seen is a part, and for each
knowledge replaced its successor in *R*, at most `highest`. A reader may come with a
projection of *R* or of what *R* was. If that holds the successor, the knowledge is no longer active
in it (`SupersededIsOver`); if not, the successor came later and is above all
of it (`SupersededIsAbove`), so that the rollback check refuses the projection, or an empty one
serves nothing.

**KnowledgePromotionProofs.** `Promotion_asksOnce`, `Promotion_leavesEvidence`,
`Promotion_commitsTruth`, `Lifecycle_staysLegal` hold for any processes,
decisions, executions and faults, deaths and power losses included. The leased
locks of the authority, which can be stolen from under their owner, play no part in the
argument: PREPARED is written once and refuses the second execution. What needs
a lock is the lifecycle's promise, and its locks are removed by their owners
only. The invariant says, of each process, what it may rely on where it
stands: who asks the lifecycle has PREPARED on record (`Asked`); a success it
was answered with is on the log (`Answered`); who has passed the check owns the
lock, and its event still fits the log (`Guarded`). A power loss takes records
back and so sets aside what rests on them, which is why `lost` appears; what COMMITTED stands for
survives it. PromotionAssumption asks of the other components only that they
request transitions the life cycle allows, which `validate_artifact` refuses
otherwise.

**ProductionRuntimeProofs.** Of `RuntimeGovernance`, `Lineage` and `InTime`: `Spec => []OneLineage` and
`[]StartsInTime` for any requests, generations, nonces, windows and lengths of
the registries. `OneLineage` follows a chain of uniqueness: an admission is the
only one of its instance, an acknowledgement the only one of its admission, so
that two startups of an instance lead to one acknowledgement; every grant rests
on one that is on record, whatever prefix the caller brought. `InTime` adds up
what each grant was checked against: its time is within its window of the
grant below. `GenerationGateOpen` shows that the generation check never
refuses.

Of `ProductionStartup`, `ReadyOnly`, `PackagesAreOne` and `NeverUnreadable`: `StartupSpec => []P` for
`RunsOnlyReady`, `OnePackage` and `StaysReadable`, and `RefusalsHaveCause` for the action
property `RefusedForCause`; for any processes, intelligences, captures and approvals, any
interleaving and any deaths. `StartupInv` says of what is on file that every record
has its whole chain on file, each link found ready (`Chained`), that a snapshot with a
predecessor left records out (`Linked`), and that any two records of a stage which
share what they were made of are one (`Same`), not only of those on file but of
those a command is about to save (`Held`); and of each command what it relies on where it stands
(`Working`). The key is `SingleSnapshot`: a repository with a snapshot that can be read has *one*,
of all its records. So whatever two commands derive of one record they derive under
one snapshot, and it is the same; that is why commands without a lock cannot
make two packages of one readiness. `PreparedInv`, on top of it, says that what a
command has passed is under a snapshot, so that each later refusal of it must
have one of the causes; the stages that merely were interrupted are taken up.

**MarketFeedProofs.** `FeedTypeCorrect` and `PublishedNumbersGrow`: `Spec =>
[](NumbersGrow)` for any charts, snapshots and faults. Numbers grow because a
working expert's number is at least every one published, which has to survive that
the number is in a different place at each moment: in the expert's memory, in
the published file, in the journal. The invariant `FeedInv`: journal and
publication together always hold the last number (`Recoverable`), at most one
expert is inside while the mutex was never broken (`Alone`), the one that
works stands at the last number (`AtTop`), and the numbers so far grow
(`Increasing`). `LoseRecord`'s guard is what `Recoverable` rests on: were both
records lost, the numbering would start anew.

**DecisionEngineProofs.** `WaitsAreEarned`, `WaitsAreBounded`, `LockNeverOpposes`:
`Spec => []WaitEarned`, `[]WaitBounded`, `[]LockAgrees` for any market states that the
classifiers can produce, any bars and restarts, and any limits that are in the
code's order (1 < Required <= MaxCycles <= MaxKeep, in `LimitsAssumption`). Without the
last, or with Required = 1, the wait has no end. `WaitsCounted`, the invariant, ties the
waits so far to what the count has passed since Required; a count beyond the
cap therefore belongs to no wait. `CountEarned` keeps the count behind the evaluations
it stands for, across resets and the cap. `NoRepeatInCooldown` assumes at most two
signals to a bar, which the code's constant grants, and rests on what `can_fire`
knows of the bar (`GateKnows`); with three signals it is false.

`SendSafety`, `RiskValidity`, `WindowHolds`, `GovernorHolds`, `ProtectionEnds`:
`WriteSpec => []P` for the invariants of `DecisionWrite` that hold (`DailyStopHolds`
does not), for any candidates whose facts
agree with each other (`CasesAssumption`: a TRADE of `build_decision` has a direction and
a price and no hard block, the losses in one direction are among all), any number of attempts and
restarts. `WriteInv` says what a failed attempt may leave: a document, with the identity of
the cycle's candidate or, once replaced by a fallback, with none, and a protection within its
limit. The argument is about the order of the stages. Up to the last governor any of them may make a TRADE
of the decision, and all that is known of the state is its identity (`StatesOf`).
From there on none can (`Lowered`), so each adds its condition to those before it:
`Agreed`, `Levelled` (both levels or, where the profile has it so, neither), `Aimed` (the
target on its side), `Windowed`, `Contracted`, `Priced` (the stop on its side where one is
demanded). Levels are kept from the ratio on (`Preserved`), but for a repair. The one way to lose a condition is the
fallback, which has no facts for the later stages to see; it is no TRADE, and the risk
invariant lets none come of it, because it has no identity. A TRADE that is published has
therefore the candidate's identity, so the candidate was a TRADE, and its facts
are those that `CasesAssumption` speaks of. `ProtectionEnds` needs the order of tests in
`Protection`: the count is compared before it is stored.

**DecisionDispatchProofs.** `OrdersAreSingle`, `NumbersIncrease`, `NothingUnreadRefused`:
`Spec => []OneLiveOrderPerSequence`, `[]SequencesIncrease`, `[]RefusesOnlyRead` for any
packages, retries, restarts and losses of `decision.json`, from no assumption. An order is
single because the executor enters the sequence in `processed` before it sends anything,
and ends the submission with the first answer that leaves an order open; the invariant
(`Accounted`) says this of what is open and of what is still being submitted, in this
life. `Numbered` says where the highest number is: the publisher has it in memory and the
file on disk, so either restores the other, and the writer holds the number of a
publication or none. Both break when a publisher starts without a readable file
(`restarted`), which is why the two numbering properties are stated up to then.

Every invariant of a passing run is stated by a theorem, and so is every action
property, and the refinement. Only TLC speaks for liveness: `RecoveredWhileFresh`, `CallsEnd` and
`Delivered`, because fairness and ENABLED are outside the prover. Some theorems carry an assumption that TLC
shows to be needed or that a run does not exercise: `Posix`, `Retained`, `~JournalUnopenable`, at most two signals to a
bar. Only the proofs speak for `ResultBackedByJournal`, `GapFree` and the
type invariants.

## 5. Limits of the models

* One instance of the expert and one assembly at a time. The code locks
  neither; `mt5/README.md` and the runtime deploy one each.
* A torn append leaves a prefix of its line; a file system that loses earlier
  bytes is not modelled.
* Entries of the active registry survive: `storage.write` does not synchronise the directory,
  and a power loss that takes an entry back is not modelled. The records of the
  promotion authority, written the same way, may be lost.
* Leases are judged by one clock. Lifecycle files that cannot be read are
  skipped by the code; the models have none.
* Digests, signatures, canonical JSON and field checks are assumed to tell a
  genuine record from another; the models start behind them.
* UUIDs of an assembler never repeat; a hash stands for one content.
* V26's scores are facts a candidate comes with; they are the same in every
  attempt of a cycle. Sizes are not modelled, nor the cut of the size after
  losing streaks, which a later stage undoes (line 1986).
* The release registry has one owner. Of a release only the outcome of its
  assessment is modelled.
* The commands of the startup resolve their arguments; one that is refused
  before it changes anything is no step.
* Not modelled, with the reasons in `PROJECT.json`: scoring and analysis (pure
  functions), dashboards and voice (output), earlier engines and experts
  (superseded), tests and tools, and the parts planned below.

## 6. Plan

1. *Done*: `GovernedExecutor`, `AtMostOnceSubmission`, with proofs of both.
2. *Done*: `PackageAssembler`, `ExecutionPipeline`, with proofs.
3. *Done*: `ActiveKnowledgeRegistry`, `KnowledgeGateway`, with proofs.
4. *Done*: `KnowledgePromotion` with proofs.
5. *Done*: `OrderSubmission`, `DecisionDispatch`, `DecisionWrite`, `SignalCycle`, with
   proofs.
6. *Done*: `RuntimeGovernance`, `ProductionStartup`, with proofs.
7. *Done*: `MarketFeed` with proofs.
8. Next: the older decision script (`sync_decision_to_vps.ps1`) and the writer's optional bridge
   directory (`UseAbsoluteDBridge`). The engines upstream of the recommendation (context,
   intelligence, selection, confidence), which share the shape of
   `ProductionStartup`'s stages. Rollback and deployment: a replay finds the
   whole decision or none of it. Publication and consumption of the execution
   context. V26's bypass of the timing cooldown and its smoothing of the band.
9. Proofs: a promise of the gateway to its readers, and one of the registries' history,
   stated as abstract specifications that the models implement.
