--------------------------- MODULE ExecutionPipeline ---------------------------
(***************************************************************************)
(* From decision.json to the broker: the Python assembler                   *)
(* (execution_package_assembly.py) and the MT5 executor                     *)
(* (RP_AI_Governed_Executor.mq5), two processes that share nothing but      *)
(* execution_package.json and know nothing of each other's records.  The    *)
(* executor knows a duplicate by its execution UUID, and the assembler      *)
(* draws a new one for every assembly: that one decision is not traded      *)
(* twice rests on the market sequence it keeps through both.                *)
(***************************************************************************)
EXTENDS PackageAssembler

CONSTANTS
  StateRemovable,  \* may execution_package_state.json be deleted from outside?
  MaxFaults,                                           \* bound: the executor's faults
  StateDeletable, StateUnopenable, JournalUnopenable   \* as in GovernedExecutor

VARIABLES expired, disabled, journal, tail, state, result, temps,
          sent, inflight, live, pc, pkg, stateSeq, publication, reply, faults

\* The executor, fed by the assembler's packages: its "package" is ours.
Executor == INSTANCE GovernedExecutor WITH Packages <- AssembledPackages

ASSUME PipelineAssumption ==
  /\ MaxFaults \in Nat
  /\ {StateRemovable, StateDeletable, StateUnopenable, JournalUnopenable} \subseteq BOOLEAN
  /\ None \notin Executor!Records
  /\ None \notin Executor!Transitions \union Executor!Replies \union {"result"}

evars == <<expired, disabled, journal, tail, state, result, temps,
           sent, inflight, live, pc, pkg, stateSeq, publication, reply, faults>>

Init ==
  /\ AssemblerInit
  /\ expired = {} /\ disabled = FALSE
  /\ journal = <<>> /\ tail = "closed" /\ state = None /\ result = None /\ temps = {}
  /\ sent = <<>> /\ inflight = {} /\ live = {}
  /\ pc = "idle" /\ pkg = None /\ stateSeq = 0 /\ publication = None /\ reply = None
  /\ faults = 0

RemoveState ==
  /\ StateRemovable /\ authority # None /\ Failure
  /\ authority' = None /\ survivors' = survivors \union {None}
  /\ UNCHANGED <<decision, stale, package, health, step, chosen, minted, issued>>

\* Assembling, and what happens to the assembler's files: the executor sees no
\* more of it than a replaced package.  Neither decisions nor packages age here:
\* age only keeps a step from being taken, so leaving it out leaves more to go wrong.
AssemblerStep ==
  /\ \/ Assemble \/ Die \/ PowerLoss \/ ReplaceDecision \/ RestorePackage
     \/ DamageState \/ RemoveState
  /\ UNCHANGED evars

\* The executor and what happens to its files; it never writes the package.
ExecutorStep ==
  /\ \/ Executor!Tick \/ Executor!Crash \/ Executor!DeleteState \/ Executor!BrokerDecides
  /\ UNCHANGED avars

Next == AssemblerStep \/ ExecutorStep

Spec == Init /\ [][Next]_<<avars, evars>>

-----------------------------------------------------------------------------
\* Every market sequence, and so every decision, reaches OrderSend at most once,
\* although re-assembly gives it a new execution UUID, and although the state
\* file of either side is lost, rolled back or damaged.
SequenceTradedOnce ==
  \A i, j \in DOMAIN sent : sent[i].seq = sent[j].seq => i = j
=============================================================================
