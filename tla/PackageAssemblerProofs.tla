------------------------- MODULE PackageAssemblerProofs -------------------------
(***************************************************************************)
(* Type correctness of the assembler and its promise: where directories are *)
(* synchronised and nobody deletes the state file, market sequences are     *)
(* packaged in strictly increasing order and lineage never splits, whatever *)
(* fails.  And the pipeline: fed by the assembler, whose state file may     *)
(* now be deleted, the executor still trades no market sequence twice.      *)
(***************************************************************************)
EXTENDS ExecutionPipeline, TLAPS

Steps == {"idle", "load", "construct", "state", "package", "trace", "health", "fail"}

\* Of what types the files and assemble's locals are.
AssemblerTypeOK ==
  /\ decision \in Decisions \union {None}
  /\ stale \subseteq Decisions
  /\ authority \in AssembledPackages \union {None, Damaged}
  /\ survivors \subseteq AssembledPackages \union {None, Damaged}
  /\ package \in AssembledPackages \union {None}
  /\ health \in [status : {"OBSERVED"}, package : AssembledPackages]
                  \union [status : {"REJECTED"}, package : {None}] \union {None}
  /\ step \in Steps
  /\ chosen \in IF step \in {"idle", "fail"} THEN {None} ELSE Decisions
  /\ minted \in 0..MaxPackages
  /\ step \in {"load", "construct"} => minted < MaxPackages
  /\ step \in {"state", "package", "trace", "health"} => minted > 0
  /\ issued \in Seq(AssembledPackages)
  /\ failures \in Nat

\* What an assembled package is: a natural sequence, and never an absent file.
LEMMA PackageFacts ==
  ASSUME NEW p \in AssembledPackages
  PROVE  p.seq \in Nat /\ p # None /\ p # Damaged
<1>1. PICK n \in 1..MaxPackages, d \in Decisions : p = [uuid |-> <<n, d.uuid>>, seq |-> d.seq]
  BY DEF AssembledPackages, PackageOf
<1>2. p.seq = d.seq
  BY <1>1
<1> QED
  BY <1>2, DecisionsAssumption, AbsentAssumption

\* Once its UUID is drawn, the draft is a package of the decision's sequence.
LEMMA DraftFacts ==
  ASSUME AssemblerTypeOK, step \in {"state", "package", "trace", "health"}
  PROVE  /\ Draft \in AssembledPackages /\ Draft.seq = chosen.seq
         /\ chosen \in Decisions /\ chosen.seq \in Nat
<1>1. chosen \in Decisions /\ minted \in 1..MaxPackages
  BY DEF AssemblerTypeOK
<1>2. Draft \in AssembledPackages
  BY <1>1 DEF Draft, AssembledPackages
<1>3. Draft.seq = chosen.seq
  BY DEF Draft, PackageOf
<1> QED
  BY <1>1, <1>2, <1>3, DecisionsAssumption

-----------------------------------------------------------------------------
(* Types.                                                                   *)

LEMMA TypeInit == AssemblerInit => AssemblerTypeOK
BY BoundsAssumption DEF AssemblerInit, AssemblerTypeOK, Steps

LEMMA TypeStep == AssemblerTypeOK /\ [AssemblerNext]_avars => AssemblerTypeOK'
<1> SUFFICES ASSUME AssemblerTypeOK, [AssemblerNext]_avars PROVE AssemblerTypeOK'
  OBVIOUS
<1> USE DEF AssemblerTypeOK, Steps, Enter, Leave, Failure, NoFailure
<1>1. CASE ReadDecision
  BY <1>1 DEF ReadDecision, Executable
<1>2. CASE LoadAuthority
  BY <1>2 DEF LoadAuthority
<1>3. CASE Construct
  BY <1>3, BoundsAssumption DEF Construct
<1>4. CASE PublishState
  BY <1>4, DraftFacts DEF PublishState, Record
<1>5. CASE PublishPackage
  <2>1. Draft \in AssembledPackages
    BY <1>5, DraftFacts DEF PublishPackage
  <2>2. Issue \/ UNCHANGED <<package, issued>>
    BY <1>5 DEF PublishPackage
  <2>3. package' \in AssembledPackages \union {None}
    BY <2>1, <2>2 DEF Issue
  <2>4. issued' \in Seq(AssembledPackages)
    BY <2>1, <2>2 DEF Issue
  <2> QED
    BY <1>5, <2>3, <2>4 DEF PublishPackage
<1>6. CASE TracePublished
  BY <1>6 DEF TracePublished
<1>7. CASE PublishHealth
  BY <1>7, DraftFacts DEF PublishHealth
<1>8. CASE RecordFailure
  BY <1>8 DEF RecordFailure
<1>9. CASE Die
  BY <1>9 DEF Die
<1>10. CASE PowerLoss
  BY <1>10 DEF PowerLoss
<1>11. CASE ReplaceDecision
  BY <1>11 DEF ReplaceDecision
<1>12. CASE Age
  BY <1>12 DEF Age
<1>13. CASE RestorePackage
  BY <1>13 DEF RestorePackage
<1>14. CASE DamageState
  BY <1>14 DEF DamageState
<1>15. CASE UNCHANGED avars
  BY <1>15 DEF avars
<1> QED
  BY <1>1, <1>2, <1>3, <1>4, <1>5, <1>6, <1>7, <1>8, <1>9, <1>10, <1>11, <1>12, <1>13,
     <1>14, <1>15 DEF AssemblerNext, Assemble, World

\* Every file of the assembler, and every local of assemble, has its type.
THEOREM AssemblerTypeCorrect == AssemblerSpec => []AssemblerTypeOK
BY TypeInit, TypeStep, PTL DEF AssemblerSpec

-----------------------------------------------------------------------------
(* Monotonicity.                                                            *)

\* The decision being assembled is newer than every package published.
Fresh == \A i \in DOMAIN issued : issued[i].seq < chosen.seq

\* A record that forbids the decision being assembled to be assembled again.
Spends(record) == record = Damaged \/ (record # None /\ chosen.seq <= record.seq)

\* Inductive: the state file, and what a power loss may leave of it, covers what
\* is published; an assembly past its check is newer than that; one about to
\* publish has its sequence spent already.
MonotonicInv ==
  /\ IssuedMonotonic
  /\ AuthorityCoversIssued
  /\ step \in {"construct", "state", "package"} => Fresh
  /\ step = "package" => \A record \in survivors \union {authority} : Spends(record)

LEMMA MonotonicInit == AssemblerInit => MonotonicInv
BY DEF AssemblerInit, MonotonicInv, IssuedMonotonic, AuthorityCoversIssued, Covers

\* The check of LoadAuthority makes the decision newer than all that is covered.
LEMMA LoadPreserves ==
  ASSUME AssemblerTypeOK, MonotonicInv, LoadAuthority PROVE MonotonicInv'
<1>1. UNCHANGED <<issued, authority, survivors>>
  BY DEF LoadAuthority
<1>2. IssuedMonotonic' /\ AuthorityCoversIssued'
  BY <1>1 DEF MonotonicInv, IssuedMonotonic, AuthorityCoversIssued, Covers
<1>3. step' \in {"construct", "fail"}
  BY DEF LoadAuthority, Enter, Leave
<1>4. ASSUME step' = "construct" PROVE Fresh'
  <2>1. Supersedes(chosen) /\ chosen' = chosen /\ chosen \in Decisions
    BY <1>4 DEF LoadAuthority, Enter, Leave, AssemblerTypeOK
  <2>2. SUFFICES ASSUME NEW i \in DOMAIN issued PROVE issued[i].seq < chosen.seq
    BY <1>1, <2>1 DEF Fresh
  <2>3. Covers(authority)
    BY DEF MonotonicInv, AuthorityCoversIssued
  <2>4. issued[i] \in AssembledPackages
    BY DEF AssemblerTypeOK
  <2>5. authority # None /\ authority # Damaged
    BY <2>1, <2>3, <2>2, AbsentAssumption DEF Supersedes, Covers
  <2>6. issued[i].seq \in Nat /\ authority.seq \in Nat
    BY <2>4, <2>5, PackageFacts DEF AssemblerTypeOK
  <2>7. issued[i].seq <= authority.seq /\ chosen.seq > authority.seq
    BY <2>1, <2>3, <2>5 DEF Supersedes, Covers
  <2>8. chosen.seq \in Nat
    BY <2>1, DecisionsAssumption
  <2> QED
    BY <2>6, <2>7, <2>8
<1> QED
  BY <1>2, <1>3, <1>4 DEF MonotonicInv

\* Whatever PublishState leaves of the state file covers what is published.
LEMMA PublishStatePreserves ==
  ASSUME AssemblerTypeOK, MonotonicInv, Posix, PublishState PROVE MonotonicInv'
<1>1. /\ Draft \in AssembledPackages /\ Draft.seq = chosen.seq
      /\ chosen \in Decisions /\ chosen.seq \in Nat
  BY DraftFacts DEF PublishState
<1>2. issued' = issued /\ Fresh
  BY DEF PublishState, MonotonicInv
<1>3. IssuedMonotonic'
  BY <1>2 DEF MonotonicInv, IssuedMonotonic
<1>4. survivors' \union {authority'} \subseteq survivors \union {authority, Draft}
  BY DEF PublishState, Record
<1>5. Covers(Draft)
  <2>1. ASSUME NEW i \in DOMAIN issued PROVE Draft # None /\ issued[i].seq <= Draft.seq
    <3>1. issued[i] \in AssembledPackages
      BY DEF AssemblerTypeOK
    <3>2. issued[i].seq \in Nat
      BY <3>1, PackageFacts
    <3>3. issued[i].seq < chosen.seq
      BY <1>2 DEF Fresh
    <3> QED
      BY <1>1, <3>2, <3>3, PackageFacts
  <2> QED
    BY <2>1 DEF Covers
<1>6. AuthorityCoversIssued'
  <2>1. SUFFICES ASSUME NEW record \in survivors' \union {authority'}
                 PROVE  Covers(record)
    BY <1>2 DEF AuthorityCoversIssued, Covers
  <2> QED
    BY <2>1, <1>4, <1>5 DEF MonotonicInv, AuthorityCoversIssued
<1>7. step' \in {"package", "fail"}
  BY DEF PublishState, Enter, Leave
<1>8. ASSUME step' = "package"
      PROVE  Fresh' /\ \A record \in survivors' \union {authority'} : Spends(record)'
  <2>1. authority' = Draft /\ survivors' = {Draft} /\ chosen' = chosen
    BY <1>8 DEF PublishState, Record, Enter, Leave
  <2>2. Draft # None /\ chosen.seq <= Draft.seq
    BY <1>1, PackageFacts
  <2>3. ASSUME NEW record \in survivors' \union {authority'} PROVE Spends(record)'
    BY <2>1, <2>2, <2>3 DEF Spends
  <2> QED
    BY <1>2, <2>1, <2>3 DEF Fresh
<1> QED
  BY <1>3, <1>6, <1>7, <1>8 DEF MonotonicInv

\* A package published is newer than all before it, and spent already.
LEMMA PublishPackagePreserves ==
  ASSUME AssemblerTypeOK, MonotonicInv, PublishPackage PROVE MonotonicInv'
<1>1. /\ Draft \in AssembledPackages /\ Draft.seq = chosen.seq
      /\ chosen \in Decisions /\ chosen.seq \in Nat
  BY DraftFacts DEF PublishPackage
<1>2. UNCHANGED <<authority, survivors>> /\ step' \in {"trace", "fail"}
  BY DEF PublishPackage, Enter, Leave
<1>3. /\ Fresh
      /\ \A record \in survivors \union {authority} : Spends(record) /\ Covers(record)
  BY DEF PublishPackage, MonotonicInv, AuthorityCoversIssued
<1>4. CASE issued' = issued
  BY <1>2, <1>4 DEF MonotonicInv, IssuedMonotonic, AuthorityCoversIssued, Covers
<1>5. CASE issued' = Append(issued, Draft)
  <2>1. /\ issued \in Seq(AssembledPackages) /\ Len(issued) \in Nat
        /\ DOMAIN issued = 1..Len(issued)
    BY DEF AssemblerTypeOK
  <2>2. /\ DOMAIN issued' = 1..(Len(issued) + 1)
        /\ \A i \in 1..Len(issued) : issued'[i] = issued[i]
        /\ issued'[Len(issued) + 1] = Draft
    BY <1>1, <1>5, <2>1
  <2>3. IssuedMonotonic'
    <3>1. SUFFICES ASSUME NEW i \in DOMAIN issued', NEW j \in DOMAIN issued', i < j
                   PROVE  issued'[i].seq < issued'[j].seq
      BY DEF IssuedMonotonic
    <3>2. i \in 1..Len(issued)
      BY <2>1, <2>2, <3>1
    <3>3. CASE j \in 1..Len(issued)
      BY <2>1, <2>2, <3>1, <3>2, <3>3 DEF MonotonicInv, IssuedMonotonic
    <3>4. CASE j = Len(issued) + 1
      BY <1>1, <1>3, <2>1, <2>2, <3>2, <3>4 DEF Fresh
    <3> QED
      BY <2>1, <2>2, <3>3, <3>4
  <2>4. AuthorityCoversIssued'
    <3>1. SUFFICES ASSUME NEW record \in survivors \union {authority}, record # Damaged,
                          NEW i \in DOMAIN issued'
                   PROVE  record # None /\ issued'[i].seq <= record.seq
      BY <1>2 DEF AuthorityCoversIssued, Covers
    <3>2. record # None /\ chosen.seq <= record.seq
      BY <1>3, <3>1 DEF Spends
    <3>3. CASE i \in 1..Len(issued)
      BY <1>3, <2>1, <2>2, <3>1, <3>2, <3>3 DEF Covers
    <3>4. CASE i = Len(issued) + 1
      BY <1>1, <2>2, <3>2, <3>4
    <3> QED
      BY <2>1, <2>2, <3>3, <3>4
  <2> QED
    BY <1>2, <2>3, <2>4 DEF MonotonicInv
<1> QED
  BY <1>4, <1>5 DEF PublishPackage, Issue

LEMMA MonotonicStep ==
  ASSUME Posix, AssemblerTypeOK, MonotonicInv, [AssemblerNext]_avars PROVE MonotonicInv'
\* All that the invariant speaks of is left alone, or the assembly is over.
<1>1. ASSUME UNCHANGED <<issued, authority, survivors>>,
             \/ step' \notin {"construct", "state", "package"}
             \/ UNCHANGED <<step, chosen>>
             \/ step = "construct" /\ step' = "state" /\ chosen' = chosen
      PROVE  MonotonicInv'
  BY <1>1 DEF MonotonicInv, IssuedMonotonic, AuthorityCoversIssued, Covers, Fresh, Spends
<1>2. CASE ReadDecision
  BY <1>1, <1>2 DEF ReadDecision, Leave
<1>3. CASE LoadAuthority
  BY <1>3, LoadPreserves
<1>4. CASE Construct
  BY <1>1, <1>4 DEF Construct, Enter, Leave
<1>5. CASE PublishState
  BY <1>5, PublishStatePreserves
<1>6. CASE PublishPackage
  BY <1>6, PublishPackagePreserves
<1>7. CASE TracePublished \/ PublishHealth \/ RecordFailure \/ Die
  BY <1>1, <1>7 DEF TracePublished, PublishHealth, RecordFailure, Die, Enter, Leave
<1>8. CASE PowerLoss
  BY <1>8 DEF PowerLoss, Leave, MonotonicInv, IssuedMonotonic, AuthorityCoversIssued, Covers
<1>9. CASE ReplaceDecision \/ Age \/ RestorePackage
  BY <1>1, <1>9 DEF ReplaceDecision, Age, RestorePackage
<1>10. CASE DamageState
  BY <1>10 DEF DamageState, MonotonicInv, IssuedMonotonic, AuthorityCoversIssued, Covers, Fresh, Spends
<1>11. CASE UNCHANGED avars
  BY <1>1, <1>11 DEF avars
<1> QED
  BY <1>2, <1>3, <1>4, <1>5, <1>6, <1>7, <1>8, <1>9, <1>10, <1>11
     DEF AssemblerNext, Assemble, World

\* Where directories are synchronised no market sequence is packaged twice, and none after
\* a newer one, for any decisions and any number of failures, crashes and power
\* losses (the comment in assemble, lines 70-71).
THEOREM AssemblerMonotonic ==
  ASSUME Posix PROVE AssemblerSpec => []IssuedMonotonic
<1>1. AssemblerInit => AssemblerTypeOK /\ MonotonicInv
  BY TypeInit, MonotonicInit
<1>2. AssemblerTypeOK /\ MonotonicInv /\ [AssemblerNext]_avars => (AssemblerTypeOK /\ MonotonicInv)'
  BY Posix, TypeStep, MonotonicStep
<1>3. MonotonicInv => IssuedMonotonic
  BY DEF MonotonicInv
<1> QED
  BY <1>1, <1>2, <1>3, PTL DEF AssemblerSpec

\* And at every moment every package published is covered by the state file, and
\* by whatever a power loss would leave of it.
THEOREM AuthorityCovers ==
  ASSUME Posix PROVE AssemblerSpec => []AuthorityCoversIssued
<1>1. AssemblerInit => AssemblerTypeOK /\ MonotonicInv
  BY TypeInit, MonotonicInit
<1>2. AssemblerTypeOK /\ MonotonicInv /\ [AssemblerNext]_avars => (AssemblerTypeOK /\ MonotonicInv)'
  BY Posix, TypeStep, MonotonicStep
<1>3. MonotonicInv => AuthorityCoversIssued
  BY DEF MonotonicInv
<1> QED
  BY <1>1, <1>2, <1>3, PTL DEF AssemblerSpec

-----------------------------------------------------------------------------
(* Lineage.                                                                 *)

\* A record is the package published under its sequence, if there is one.
Names(record) ==
  record \in {None, Damaged} \/ \A i \in DOMAIN issued : issued[i].seq = record.seq => issued[i] = record

\* Inductive: so is the state file and what a power loss may leave of it; an assembly
\* about to publish has left nothing else there but its own draft, or damage.
LineageInv ==
  /\ \A record \in survivors \union {authority} : Names(record)
  /\ step = "package" => survivors \union {authority} \subseteq {Draft, Damaged}

\* The draft recorded is newer than all that is published, and stands alone.
LEMMA PublishStateLineage ==
  ASSUME Posix, AssemblerTypeOK, MonotonicInv, LineageInv, PublishState PROVE LineageInv'
<1>1. Draft \in AssembledPackages /\ Draft.seq = chosen.seq
  BY DraftFacts DEF PublishState
<1>2. issued' = issued /\ minted' = minted /\ Fresh
  BY DEF PublishState, MonotonicInv
<1>3. Names(Draft)
  <2> SUFFICES ASSUME NEW i \in DOMAIN issued PROVE issued[i].seq # Draft.seq
    BY DEF Names
  <2>1. issued[i].seq \in Nat /\ issued[i].seq < Draft.seq
    BY <1>1, <1>2, PackageFacts DEF Fresh, AssemblerTypeOK
  <2> QED
    BY <2>1
<1>4. survivors' \union {authority'} \subseteq survivors \union {authority, Draft}
  BY DEF PublishState, Record
<1>5. ASSUME step' = "package" PROVE survivors' \union {authority'} \subseteq {Draft, Damaged}'
  <2>1. authority' = Draft /\ survivors' = {Draft} /\ chosen' = chosen
    BY <1>5 DEF PublishState, Record, Enter, Leave
  <2> QED
    BY <1>2, <2>1 DEF Draft
<1>6. \A record \in survivors' \union {authority'} : Names(record)'
  BY <1>2, <1>3, <1>4 DEF LineageInv, Names
<1> QED
  BY <1>5, <1>6 DEF LineageInv

\* What is published is what is recorded.
LEMMA PublishPackageLineage ==
  ASSUME AssemblerTypeOK, LineageInv, PublishPackage PROVE LineageInv'
<1>1. UNCHANGED <<authority, survivors>> /\ step' \in {"trace", "fail"}
  BY DEF PublishPackage, Enter, Leave
<1>2. survivors \union {authority} \subseteq {Draft, Damaged} /\ Draft \in AssembledPackages
  BY DraftFacts DEF PublishPackage, LineageInv
<1>3. CASE issued' = issued
  BY <1>1, <1>3 DEF LineageInv, Names
<1>4. CASE issued' = Append(issued, Draft)
  <2>1. /\ \A i \in DOMAIN issued' : issued'[i] = Draft \/ (i \in DOMAIN issued /\ issued'[i] = issued[i])
    BY <1>2, <1>4 DEF AssemblerTypeOK
  <2>2. ASSUME NEW record \in survivors \union {authority} PROVE Names(record)'
    <3>1. Names(record) /\ record \in {Draft, Damaged}
      BY <1>2 DEF LineageInv
    <3> QED
      BY <2>1, <3>1 DEF Names
  <2> QED
    BY <1>1, <2>2 DEF LineageInv
<1> QED
  BY <1>3, <1>4 DEF PublishPackage, Issue

LEMMA LineageStep ==
  ASSUME Posix, AssemblerTypeOK, MonotonicInv, LineageInv, [AssemblerNext]_avars PROVE LineageInv'
\* The records and the packages are left alone, and the draft with them.
<1>1. ASSUME UNCHANGED <<issued, authority, survivors>>,
             step' # "package" \/ UNCHANGED <<step, chosen, minted>>
      PROVE  LineageInv'
  BY <1>1 DEF LineageInv, Names, Draft
<1>2. CASE ReadDecision \/ LoadAuthority \/ Construct
  BY <1>1, <1>2 DEF ReadDecision, LoadAuthority, Construct, Enter, Leave
<1>3. CASE PublishState
  BY <1>3, PublishStateLineage
<1>4. CASE PublishPackage
  BY <1>4, PublishPackageLineage
<1>5. CASE TracePublished \/ PublishHealth \/ RecordFailure \/ Die
  BY <1>1, <1>5 DEF TracePublished, PublishHealth, RecordFailure, Die, Enter, Leave
<1>6. CASE PowerLoss
  BY <1>6 DEF PowerLoss, Leave, LineageInv, Names
<1>7. CASE ReplaceDecision \/ Age \/ RestorePackage
  BY <1>1, <1>7 DEF ReplaceDecision, Age, RestorePackage
<1>8. CASE DamageState
  BY <1>8 DEF DamageState, LineageInv, Names, Draft
<1>9. CASE UNCHANGED avars
  BY <1>1, <1>9 DEF avars
<1> QED
  BY <1>2, <1>3, <1>4, <1>5, <1>6, <1>7, <1>8, <1>9 DEF AssemblerNext, Assemble, World

\* Where directories are synchronised the state file never names another package of a
\* sequence than the one published: no crash between the two writes splits a lineage.
THEOREM AssemblerLineage ==
  ASSUME Posix PROVE AssemblerSpec => []LineageAgrees
<1>1. AssemblerInit => AssemblerTypeOK /\ MonotonicInv /\ LineageInv
  BY TypeInit, MonotonicInit DEF AssemblerInit, LineageInv, Names
<1>2. AssemblerTypeOK /\ MonotonicInv /\ LineageInv /\ [AssemblerNext]_avars
        => (AssemblerTypeOK /\ MonotonicInv /\ LineageInv)'
  BY Posix, TypeStep, MonotonicStep, LineageStep
<1>3. LineageInv => LineageAgrees
  BY DEF LineageInv, Names, LineageAgrees
<1> QED
  BY <1>1, <1>2, <1>3, PTL DEF AssemblerSpec

-----------------------------------------------------------------------------
(* ExecutionPipeline: the executor, fed by the assembler.                   *)

\* What GovernedExecutorProofs proves of the executor, read for the assembler's packages.
Facts == INSTANCE GovernedExecutorProofs WITH Packages <- AssembledPackages

\* What the executor assumes of its packages the assembler's fulfil.
LEMMA ExecutorAssumptions ==
  Facts!PackagesAssumption /\ Facts!FaultsAssumption /\ Facts!NoneAssumption
<1>1. ASSUME NEW p \in AssembledPackages PROVE DOMAIN p = {"uuid", "seq"} /\ p.seq \in Nat
  BY PackageFacts DEF AssembledPackages, PackageOf
<1>2. ASSUME NEW p \in AssembledPackages, NEW q \in AssembledPackages, p.uuid = q.uuid PROVE p = q
  <2>1. PICK n \in 1..MaxPackages, d \in Decisions : p = [uuid |-> <<n, d.uuid>>, seq |-> d.seq]
    BY DEF AssembledPackages, PackageOf
  <2>2. PICK m \in 1..MaxPackages, e \in Decisions : q = [uuid |-> <<m, e.uuid>>, seq |-> e.seq]
    BY DEF AssembledPackages, PackageOf
  <2>3. n = m /\ d.uuid = e.uuid
    BY <1>2, <2>1, <2>2
  <2>4. d = e
    BY <2>3, DecisionsAssumption
  <2> QED
    BY <2>1, <2>2, <2>3, <2>4
<1>3. Facts!PackagesAssumption
  BY <1>1, <1>2 DEF Facts!PackagesAssumption
<1>4. Facts!FaultsAssumption
  BY PipelineAssumption DEF Facts!FaultsAssumption
<1>5. None \notin AssembledPackages
  BY AbsentAssumption
<1>6. Facts!NoneAssumption
  BY <1>5, PipelineAssumption DEF Facts!NoneAssumption, Facts!Records, Facts!Transitions,
     Facts!Replies, Facts!Uuids, Executor!Records, Executor!Transitions, Executor!Replies, Executor!Uuids
<1> QED
  BY <1>3, <1>4, <1>6

\* Every step of the pipeline keeps the assembler's types.
LEMMA PipelineTypes == AssemblerTypeOK /\ [Next]_<<avars, evars>> => AssemblerTypeOK'
<1> SUFFICES ASSUME AssemblerTypeOK, [Next]_<<avars, evars>> PROVE AssemblerTypeOK'
  OBVIOUS
<1>1. CASE RemoveState
  BY <1>1 DEF RemoveState, Failure, AssemblerTypeOK
<1>2. CASE [AssemblerNext]_avars
  BY <1>2, TypeStep
<1> QED
  BY <1>1, <1>2 DEF Next, AssemblerStep, ExecutorStep, AssemblerNext, World

\* To the executor a step of the pipeline is one of its own, or a package replaced.
LEMMA PipelineSteps ==
  ASSUME AssemblerTypeOK, [Next]_<<avars, evars>> PROVE [Executor!Next]_(Executor!vars)
<1> USE DEF Executor!vars, Executor!feed, Executor!durable, Executor!broker, Executor!volatile
<1>1. CASE AssemblerStep
  <2>1. UNCHANGED evars /\ AssemblerTypeOK'
    BY <1>1, PipelineTypes DEF AssemblerStep
  <2>2. package' \in AssembledPackages \union {None}
    BY <2>1 DEF AssemblerTypeOK
  <2>3. CASE package' = package
    BY <2>1, <2>3 DEF evars
  <2>4. CASE package' # package
    <3>1. Executor!ReplacePackage
      BY <2>1, <2>2, <2>4 DEF evars, Executor!ReplacePackage
    <3> QED
      BY <3>1 DEF Executor!Next
  <2> QED
    BY <2>3, <2>4
<1>2. CASE ExecutorStep
  BY <1>2 DEF ExecutorStep, Executor!Next
<1>3. CASE UNCHANGED <<avars, evars>>
  BY <1>3 DEF avars, evars
<1> QED
  BY <1>1, <1>2, <1>3 DEF Next

\* Composed with the assembler the executor does nothing it does not do alone: whatever
\* the assembler, its crashes and its lost files do is to the executor a package replaced.
THEOREM PipelineRunsExecutor == Spec => Executor!Spec
<1>1. Init => AssemblerTypeOK /\ Executor!Init
  BY TypeInit DEF Init, AssemblerInit, Executor!Init
<1>2. AssemblerTypeOK /\ [Next]_<<avars, evars>> => AssemblerTypeOK' /\ [Executor!Next]_(Executor!vars)
  BY PipelineTypes, PipelineSteps
<1> QED
  BY <1>1, <1>2, PTL DEF Spec, Executor!Spec

\* The executor of the pipeline and the one of those theorems are one: two instances of one
\* module, which the provers see when everything is expanded.
LEMMA OneExecutor ==
  /\ Executor!Init => Facts!Init
  /\ [Executor!Next]_(Executor!vars) => [Facts!Next]_(Facts!vars)
BY DEF Executor!durable, Facts!durable, Executor!broker, Facts!broker,
   Executor!feed, Facts!feed, Executor!volatile, Facts!volatile, Executor!vars, Facts!vars,
   Executor!Terminals, Facts!Terminals, Executor!Replies, Facts!Replies,
   Executor!Init, Facts!Init, Executor!Return, Facts!Return, Executor!Goto, Facts!Goto,
   Executor!Persist, Facts!Persist, Executor!Fault, Facts!Fault,
   Executor!NoFault, Facts!NoFault, Executor!Persisted, Facts!Persisted,
   Executor!NotPersisted, Facts!NotPersisted, Executor!Record, Facts!Record,
   Executor!WriteLine, Facts!WriteLine, Executor!WritePart, Facts!WritePart,
   Executor!Entries, Facts!Entries, Executor!LastStatus, Facts!LastStatus,
   Executor!Parsed, Facts!Parsed, Executor!Valid, Facts!Valid,
   Executor!ReadPackage, Facts!ReadPackage, Executor!LoadedSequence, Facts!LoadedSequence,
   Executor!LoadState, Facts!LoadState, Executor!Newer, Facts!Newer,
   Executor!Dispatch, Facts!Dispatch, Executor!InspectJournal, Facts!InspectJournal,
   Executor!ValidateAtBroker, Facts!ValidateAtBroker,
   Executor!AppendTransition, Facts!AppendTransition,
   Executor!AppendUnknownOutcome, Facts!AppendUnknownOutcome,
   Executor!Temporary, Facts!Temporary, Executor!WriteTemporary, Facts!WriteTemporary,
   Executor!MoveTemporary, Facts!MoveTemporary, Executor!SendOrder, Facts!SendOrder,
   Executor!ReceiveReply, Facts!ReceiveReply, Executor!Tick, Facts!Tick,
   Executor!Crash, Facts!Crash, Executor!ReplacePackage, Facts!ReplacePackage,
   Executor!Expire, Facts!Expire, Executor!ToggleDisable, Facts!ToggleDisable,
   Executor!DeleteState, Facts!DeleteState, Executor!BrokerDecides, Facts!BrokerDecides,
   Executor!Next, Facts!Next

\* One decision, one order: no market sequence reaches OrderSend twice, under whatever
\* execution UUIDs it is assembled again and whatever of the assembler's and the executor's
\* files is lost, provided an existing journal can be opened, or the executor's state file
\* is neither deleted nor unopenable.
THEOREM DecisionTradedOnce ==
  ASSUME ~JournalUnopenable \/ (~StateDeletable /\ ~StateUnopenable)
  PROVE  Spec => []SequenceTradedOnce
<1>1. Facts!Spec => []Facts!SubmissionsMonotonic
  <2>1. Facts!PackagesAssumption /\ Facts!FaultsAssumption /\ Facts!NoneAssumption /\ Facts!Retained
    BY ExecutorAssumptions DEF Facts!Retained, Facts!StateRetained
  <2> QED
    BY <2>1, Facts!Monotonicity, PTL
<1>2. Facts!Spec => [](Facts!TypeOK /\ Facts!LocalsOK)
  BY ExecutorAssumptions, Facts!TypeCorrect, PTL
<1>3. Executor!Spec => Facts!Spec
  BY OneExecutor, PTL DEF Executor!Spec, Facts!Spec
<1>4. Facts!TypeOK /\ Facts!SubmissionsMonotonic => SequenceTradedOnce
  <2> SUFFICES ASSUME Facts!TypeOK, Facts!SubmissionsMonotonic, NEW i \in DOMAIN sent,
                      NEW j \in DOMAIN sent, sent[i].seq = sent[j].seq
               PROVE  i = j
    BY DEF SequenceTradedOnce
  <2>1. sent \in Seq(AssembledPackages)
    BY DEF Facts!TypeOK
  <2>2. i \in Nat /\ j \in Nat /\ sent[i].seq \in Nat /\ sent[j].seq \in Nat
    BY <2>1, PackageFacts
  <2>3. ~(i < j) /\ ~(j < i)
    BY <2>2 DEF Facts!SubmissionsMonotonic
  <2> QED
    BY <2>2, <2>3
<1> QED
  BY <1>1, <1>2, <1>3, <1>4, PipelineRunsExecutor, PTL

\* The pipeline as a whole keeps the promise of AtMostOnceSubmission to the rest of the
\* system, with the assembler's packages, provided an existing journal can be opened.
THEOREM PipelineKeepsPromise == ASSUME ~JournalUnopenable PROVE Spec => Facts!KeepsPromise
<1>1. Facts!Spec => Facts!KeepsPromise
  <2>1. Facts!PackagesAssumption /\ Facts!FaultsAssumption /\ Facts!NoneAssumption
    BY ExecutorAssumptions
  <2> QED
    BY <2>1, Facts!Refinement, PTL
<1>2. Executor!Spec => Facts!Spec
  BY OneExecutor, PTL DEF Executor!Spec, Facts!Spec
<1> QED
  BY <1>1, <1>2, PipelineRunsExecutor, PTL
=============================================================================
