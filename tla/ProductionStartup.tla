-------------------------- MODULE ProductionStartup --------------------------
(***************************************************************************)
(* How an activated decision intelligence becomes the package the V26       *)
(* runtime runs with (runtime/production_startup.py, ..._initialization.py, *)
(* execution_package_bootstrap.py).  Every stage is an engine of learning/  *)
(* that verifies the stages before it, appends its records to a repository  *)
(* of files and links a snapshot of the whole repository to a chain.  Each  *)
(* command is a process; nothing locks the repositories against the others. *)
(* An identity is the hash of a content, so here a record is its identity;  *)
(* a recommendation's content follows from its intelligence, and is it.     *)
(***************************************************************************)

CONSTANTS
  None,
  Starts,         \* the processes, each of which carries out one command
  Intelligences,  \* the decision intelligences of the snapshot operators activate from
  Rejected,       \* those of state REJECTED,
  Strong,         \* and those ready and of a quality that makes READY recommendations
  Approvals,      \* what operators may activate: an intelligence, and when it was approved
  Captures,       \* environment observations with their captured_at
  Healthy         \* those that satisfy ExecutionEnvironmentPolicy

ASSUME StartupAssumption ==
  /\ Rejected \union Strong \subseteq Intelligences /\ Rejected \intersect Strong = {}
  /\ \A a \in Approvals : a.intelligence \in Intelligences \ Rejected
  /\ Healthy \subseteq Captures

VARIABLES
  activated,    \* learning_data/decision_intelligence/activations
  records,      \* per stage: the records in its repository
  snapshots,    \* per stage: the snapshots [ids, previous, at] in its repository
  evidence,     \* learning_data/execution_environment/evidence
  run,          \* per process: the command's locals
  ran           \* history: the packages the runtime was run with, and by which command

svars == <<activated, records, snapshots, evidence, run, ran>>

Stages == {"recommendation", "readiness", "environment", "feasibility", "package"}

New == [step |-> "new", command |-> None, approval |-> None, capture |-> None, stage |-> None,
        made |-> [s \in Stages |-> None], todo |-> {}, ids |-> {}, snapshot |-> {}]

\* Operators may have activated before the first of the commands.
StartupInit ==
  /\ activated \in {{}} \union {{a} : a \in Approvals}
  /\ records = [s \in Stages |-> {}] /\ snapshots = [s \in Stages |-> {}]
  /\ evidence = {} /\ ran = {}
  /\ run = [p \in Starts |-> New]

-----------------------------------------------------------------------------
\* What latest_snapshot makes of a repository: one head, of which all other snapshots
\* are predecessors, that names the records on file.  Any other raises.  A snapshot that
\* there may be is the set of it: previous, under, and the snapshot a command holds.
Heads(s) == {n \in snapshots[s] : \A m \in snapshots[s] : n \notin m.previous}
Readable(s) == snapshots[s] = {} \/ \E n \in Heads(s) : Heads(s) = {n} /\ n.ids = records[s]

\* The states of the records, as the engines derive them from what a record is of.
RecommendationReady(r) == r \in Strong
ReadinessReady(d) == RecommendationReady(d.of)
EnvironmentReady(v) == v.of.of.of \notin Rejected /\ v.of.capture \in Healthy
FeasibilityReady(f) == ReadinessReady(f.of.of.of) /\ EnvironmentReady(f.of)

-----------------------------------------------------------------------------
Over == {"over", "refused"}
Become(p, step) == run' = [run EXCEPT ![p] = IF step \in Over THEN [New EXCEPT !.step = step]
                                            ELSE [@ EXCEPT !.step = step]]

\* A process is given its command; one whose arguments or activation do not resolve is
\* refused before it changes anything, and left out.
Begin(p, command, locals) ==
  /\ run[p].step = "new"
  /\ run' = [run EXCEPT ![p] = [locals EXCEPT !.command = command]]
  /\ UNCHANGED <<activated, records, snapshots, evidence, ran>>

\* activate: an activation is saved only where there is none, but the two are apart.
ActivateIntelligence(p) ==
  activated = {} /\ \E a \in Approvals :
    Begin(p, "activate", [New EXCEPT !.step = "activate", !.approval = a])

SaveActivation(p) ==
  /\ run[p].step = "activate"
  /\ activated' = activated \union {run[p].approval}
  /\ Become(p, "over")
  /\ UNCHANGED <<records, snapshots, evidence, ran>>

\* production_startup: the environment is observed, the sole activation resolved, and the
\* recommendation engine run on the whole snapshot the activation names.
Startup(p) ==
  \E c \in Captures, a \in activated : activated = {a} /\
    Begin(p, "startup", [New EXCEPT !.step = "verify", !.approval = a, !.capture = c,
                           !.stage = "recommendation", !.made["recommendation"] = a.intelligence])

\* production_execution_initialization: an operator names a recommendation on record.
Initialize(p) ==
  \E c \in Captures, r \in records["recommendation"] :
    Begin(p, "initialize", [New EXCEPT !.step = "verify", !.capture = c,
                              !.stage = "readiness", !.made["recommendation"] = r])

\* execution_package_bootstrap: an operator names three records on record.
Bootstrap(p) ==
  \E d \in records["readiness"], v \in records["environment"], f \in records["feasibility"] :
    Begin(p, "bootstrap", [New EXCEPT !.step = "verify", !.stage = "package",
            !.made["readiness"] = d, !.made["environment"] = v, !.made["feasibility"] = f])

-----------------------------------------------------------------------------
\* The repositories an engine verifies before it constructs anything.
Upstream(s) == CASE s = "recommendation" -> {}
                 [] s = "readiness" -> {"recommendation"}
                 [] s = "environment" -> {"readiness"}
                 [] s = "feasibility" -> {"readiness", "environment"}
                 [] s = "package" -> {"readiness", "environment", "feasibility"}

\* _verify_lineage: what a record is of, and the snapshots it was made under, are the
\* records given and the heads found.
LineageVerified(s, made) ==
  /\ s \in {"feasibility", "package"} =>
       made["environment"].of.of = made["readiness"] /\ made["environment"].of.under = Heads("readiness")
  /\ s = "package" =>
       made["feasibility"].of = made["environment"] /\ made["feasibility"].under = Heads("environment")

Verified(s, made) ==
  /\ \A u \in Upstream(s) : snapshots[u] # {} /\ Readable(u) /\ made[u] \in records[u]
  /\ LineageVerified(s, made)
  /\ s = "package" => Readable("package")

\* The records the engine constructs; an environment is of its evidence (see Weigh).
Product(p) ==
  LET made == run[p].made IN
  CASE run[p].stage = "recommendation" -> Intelligences
    [] run[p].stage = "readiness" -> {[of |-> made["recommendation"], under |-> Heads("recommendation")]}
    [] run[p].stage = "feasibility" -> {[of |-> made["environment"], under |-> Heads("environment")]}
    [] run[p].stage = "package" -> {[of |-> made["feasibility"], under |-> Heads("feasibility")]}

\* The engine sets out to save those of its records R that are not on file.
Construct(p, R) ==
  LET s == run[p].stage IN
  run' = [run EXCEPT ![p].step = "save", ![p].todo = R \ records[s],
            ![p].made[s] = IF s = "recommendation" THEN @ ELSE CHOOSE r \in R : TRUE]

Verify(p) ==
  /\ run[p].step = "verify"
  /\ IF ~Verified(run[p].stage, run[p].made) THEN Become(p, "refused")
     ELSE IF run[p].stage # "environment" THEN Construct(p, Product(p))
     ELSE run' = [run EXCEPT ![p].step = "weigh", ![p].snapshot = Heads("readiness")]
  /\ UNCHANGED <<activated, records, snapshots, evidence, ran>>

\* A mistake: among several pieces of evidence the process's own is taken.
Weighed_own(p, e) == e.of = run[p].made["readiness"] /\ e.capture = run[p].capture

\* for_readiness and _verify_evidence_partition: the only evidence of the readiness,
\* taken under the snapshot verified.
Weighed(p, e) ==
  /\ {f \in evidence : f.of = run[p].made["readiness"]} = {e}
  /\ e.under = run[p].snapshot

\* The environment engine reads the evidence; any number but one is a REPLAY_COLLISION.
Weigh(p) ==
  /\ run[p].step = "weigh"
  /\ IF \E e \in evidence : Weighed(p, e)
     THEN \E e \in evidence : Weighed(p, e) /\ Construct(p, {[of |-> e, under |-> run[p].snapshot]})
     ELSE Become(p, "refused")
  /\ UNCHANGED <<activated, records, snapshots, evidence, ran>>

\* _append: a file is linked whole; one of the same content may be there.  Records are
\* saved in the order of their intelligences' identities, which is any order but one.
Save(p) ==
  LET r == CHOOSE r \in run[p].todo : TRUE IN
  /\ run[p].step = "save" /\ run[p].todo # {}
  /\ records' = [records EXCEPT ![run[p].stage] = @ \union {r}]
  /\ run' = [run EXCEPT ![p].todo = @ \ {r}]
  /\ UNCHANGED <<activated, snapshots, evidence, ran>>

\* identities(): the records on file, which a new snapshot would name.
Identify(p) ==
  /\ run[p].step = "save" /\ run[p].todo = {}
  /\ run' = [run EXCEPT ![p].step = "head", ![p].ids = records[run[p].stage]]
  /\ UNCHANGED <<activated, records, snapshots, evidence, ran>>

\* generated_at: the time of the snapshot activated from, the created_at of the
\* intelligence, or the time of the capture.
GeneratedAt(p) ==
  CASE run[p].stage = "recommendation" -> None
    [] run[p].stage \in {"readiness", "environment"} -> run[p].made["recommendation"]
    [] run[p].stage = "feasibility" -> run[p].made["environment"].of.capture
    [] run[p].stage = "package" -> run[p].made["feasibility"].of.of.capture

\* A mistake: what the environment engine reports is not looked at.
Ready_unread(p) == run[p].stage \in {"recommendation", "readiness"} => RecommendationReady(run[p].made["recommendation"])

\* The states the commands require before they go on; of a package none.
Ready(p) ==
  LET made == run[p].made IN
  CASE run[p].stage = "recommendation" -> RecommendationReady(made["recommendation"])
    [] run[p].stage = "readiness" -> ReadinessReady(made["readiness"])
    [] run[p].stage = "environment" -> EnvironmentReady(made["environment"])
    [] run[p].stage = "feasibility" -> FeasibilityReady(made["feasibility"])
    [] run[p].stage = "package" -> TRUE

\* The engine reports the snapshot in n; the command goes on to the next stage or refuses.
Report(p, n) ==
  LET s == run[p].stage
      step == CASE s = "readiness" -> "lineage" [] s = "package" -> "load" [] OTHER -> "verify"
      next == CASE s = "recommendation" -> "readiness" [] s = "readiness" -> "environment"
                [] s = "environment" -> "feasibility" [] OTHER -> "package"
  IN IF ~Ready(p) THEN Become(p, "refused")
     ELSE run' = [run EXCEPT ![p].step = step, ![p].stage = next, ![p].snapshot = n, ![p].ids = {}]

\* A mistake: the head is never taken over.
Reuses_never(n, ids) == FALSE

Reuses(n, ids) == \E h \in n : h.ids = ids

\* latest_snapshot() of the engine's own repository; a head of these identities is
\* reported, otherwise a snapshot after it is to be linked.
ReadHead(p) ==
  /\ run[p].step = "head"
  /\ LET n == Heads(run[p].stage) IN
     IF ~Readable(run[p].stage) THEN Become(p, "refused")
     ELSE IF Reuses(n, run[p].ids) THEN Report(p, n)
     ELSE run' = [run EXCEPT ![p].step = "link", ![p].snapshot = n]
  /\ UNCHANGED <<activated, records, snapshots, evidence, ran>>

\* A mistake: a snapshot carries the process that made it.
Snapshot_stamped(p) == [ids |-> run[p].ids, previous |-> run[p].snapshot, at |-> p]

Snapshot(p) == [ids |-> run[p].ids, previous |-> run[p].snapshot, at |-> GeneratedAt(p)]

Link(p) ==
  /\ run[p].step = "link"
  /\ snapshots' = [snapshots EXCEPT ![run[p].stage] = @ \union {Snapshot(p)}]
  /\ Report(p, {Snapshot(p)})
  /\ UNCHANGED <<activated, records, evidence, ran>>

\* exact_snapshot_for: the snapshot reported is still the whole repository's.
ExactSnapshot(p) ==
  /\ run[p].step = "lineage"
  /\ Become(p, IF Readable("readiness") /\ Heads("readiness") = run[p].snapshot THEN "evidence" ELSE "refused")
  /\ UNCHANGED <<activated, records, snapshots, evidence, ran>>

SaveEvidence(p) ==
  /\ run[p].step = "evidence"
  /\ evidence' = evidence \union {[of |-> run[p].made["readiness"], under |-> run[p].snapshot, capture |-> run[p].capture]}
  /\ Become(p, "verify")
  /\ UNCHANGED <<activated, records, snapshots, ran>>

\* The consumer loads the package from the repository, and the runtime is run with it.
Load(p) ==
  /\ run[p].step = "load"
  /\ IF Readable("package") /\ run[p].made["package"] \in records["package"]
     THEN Become(p, "over") /\ ran' = ran \union {[command |-> run[p].command, package |-> run[p].made["package"]]}
     ELSE Become(p, "refused") /\ UNCHANGED ran
  /\ UNCHANGED <<activated, records, snapshots, evidence>>

\* A command that is killed, or that the file system fails.
Die(p) ==
  /\ run[p].step \notin Over \union {"new"}
  /\ Become(p, "over")
  /\ UNCHANGED <<activated, records, snapshots, evidence, ran>>

Step(p) ==
  \/ ActivateIntelligence(p) \/ SaveActivation(p) \/ Startup(p) \/ Initialize(p) \/ Bootstrap(p)
  \/ Verify(p) \/ Weigh(p) \/ Save(p) \/ Identify(p) \/ ReadHead(p) \/ Link(p)
  \/ ExactSnapshot(p) \/ SaveEvidence(p) \/ Load(p)

StartupNext == \E p \in Starts : Step(p) \/ Die(p)

StartupSpec == StartupInit /\ [][StartupNext]_svars

-----------------------------------------------------------------------------
\* The runtime runs only with a package that is of a ready recommendation and a healthy
\* capture, every link of whose chain is on record, whoever assembled it, whatever
\* commands were refused or died before, and although nobody looks at package_state.
RunsOnlyReady ==
  \A x \in ran : LET f == x.package.of IN
    /\ x.package \in records["package"] /\ f \in records["feasibility"]
    /\ f.of \in records["environment"] /\ f.of.of \in evidence
    /\ f.of.of.of \in records["readiness"] /\ f.of.of.of.of \in records["recommendation"]
    /\ FeasibilityReady(f)

\* "The same activation and package identities" (PR225): the environments, feasibilities
\* and packages on record of one readiness are one each, although commands race each
\* other and bring captures of their own.
OnePackage ==
  /\ \A v, w \in records["environment"] : v.of.of = w.of.of => v = w
  /\ \A f, g \in records["feasibility"] : f.of.of.of = g.of.of.of => f = g
  /\ \A x, y \in records["package"] : x.of.of.of.of = y.of.of.of.of => x = y

\* As long as there is one readiness, no order of steps and no death of a command makes
\* a repository one that cannot be read, which would be so for ever.
StaysReadable ==
  (\A d, e \in records["readiness"] : d = e) => \A s \in Stages : Readable(s)

\* "Replay is idempotent": a command that derives the chain is refused only for what it
\* was given, a second capture of the readiness, or a repository that has outgrown its
\* snapshot; never for where an earlier command was interrupted.
RefusedForCause ==
  [][\A p \in Starts :
       run[p].step # "refused" /\ run'[p].step = "refused" /\ run[p].command \in {"startup", "initialize"} =>
         \/ ~RecommendationReady(run[p].made["recommendation"])
         \/ run[p].command = "initialize" /\ snapshots["recommendation"] = {}
         \/ run[p].capture \notin Healthy
         \/ \E e, f \in evidence : e # f /\ e.of = f.of
         \/ \E s \in Stages : ~Readable(s)]_svars
=============================================================================
