---------------------- MODULE ProductionRuntimeProofs ----------------------
(***************************************************************************)
(* Proofs about what lets the runtime trade, for any requests, generations, *)
(* windows and bounds of RuntimeGovernance, and any processes, approvals    *)
(* and captures of ProductionStartup.                                       *)
(*                                                                          *)
(* RuntimeGovernance: every link of the chain keeps two facts about what it *)
(* has granted: it is unique in the way its authority insists on, and it    *)
(* rests on something the link before it granted, at a time within its      *)
(* window.  OneLineage and StartsInTime follow by walking the links.        *)
(*                                                                          *)
(* ProductionStartup: a repository that can be read has one snapshot.  So   *)
(* whatever is saved after it was verified is under the same snapshot, one  *)
(* piece of evidence makes one environment, and with one readiness nothing  *)
(* is ever saved that a snapshot leaves out.                                *)
(***************************************************************************)
EXTENDS RuntimeGovernance, ProductionStartup, TLAPS

-----------------------------------------------------------------------------
(* RuntimeGovernance                                                         *)


ReleaseRecords == [request : Requests, at : Times]
ActivationRecords == [of : ReleaseRecords, at : Times]
AdmissionRecords == [of : ActivationRecords, at : Times]
AcknowledgementRecords == [of : AdmissionRecords, nonce : Nonces, at : Times]
StartupRecords == [of : AcknowledgementRecords, nonce : Nonces, at : Times]

\* The records of each registry.
ReleaseLog == [kind : {"granted", "withdrawn"}, content : ReleaseRecords]
ActivationLog == [kind : {"granted", "revoked"}, content : ActivationRecords]
AdmissionLog ==
  [kind : {"granted"}, content : AdmissionRecords]
    \union [kind : {"revoked"}, content : [of : AdmissionRecords, at : Times]]
AcknowledgementLog == [kind : {"granted"}, content : AcknowledgementRecords]
StartupLog ==
  [kind : {"granted"}, content : StartupRecords]
    \union [kind : {"consumed"}, content : [of : StartupRecords, at : Times]]
    \union [kind : {"status"}, content : [generations : SUBSET Nat, at : Times]]

RegistryTypes ==
  /\ releases \in Seq(ReleaseLog)
  /\ activations \in Seq(ActivationLog)
  /\ admissions \in Seq(AdmissionLog)
  /\ acknowledgements \in Seq(AcknowledgementLog)
  /\ startups \in Seq(StartupLog)

ActivationLink ==
  \A x \in Recorded(activations, "granted") :
    x.of.at <= x.at /\ x.at < x.of.at + Window

AdmissionLink ==
  /\ \A y \in Recorded(admissions, "granted") :
       /\ y.of \in Recorded(activations, "granted")
       /\ y.of.at <= y.at /\ y.at <= y.of.at + HandoffAge
  /\ \A y, v \in Recorded(admissions, "granted") :
       Instance(y.of.of) = Instance(v.of.of) => y = v

AcknowledgementLink ==
  /\ \A z \in Recorded(acknowledgements, "granted") :
       /\ z.of \in Recorded(admissions, "granted")
       /\ z.of.at <= z.at /\ z.at < z.of.at + Admission
  /\ \A z, v \in Recorded(acknowledgements, "granted") : z.of = v.of => z = v

StartupLink ==
  \A w \in Recorded(startups, "granted") :
    /\ w.of \in Recorded(acknowledgements, "granted")
    /\ w.of.at <= w.at /\ w.at <= w.of.at + AcknowledgementAge

ConsumptionLink ==
  \A c \in Recorded(startups, "consumed") :
    /\ c.of \in Recorded(startups, "granted")
    /\ c.of.at <= c.at /\ c.at < c.of.at + Lifetime

ChainInv ==
  /\ RegistryTypes
  /\ ActivationLink
  /\ AdmissionLink
  /\ AcknowledgementLink
  /\ StartupLink
  /\ ConsumptionLink

-----------------------------------------------------------------------------
\* What a registry records after one more record: what it recorded before
\* and, of the kind appended, the content appended (Append1).
LEMMA Growth ==
  ASSUME NEW S, NEW registry \in Seq(S), NEW kind, NEW content, NEW k
  PROVE  Recorded(Append(registry, Record(kind, content)), k)
           = Recorded(registry, k) \union (IF k = kind THEN {content} ELSE {})
<1> DEFINE grown == Append(registry, Record(kind, content))
<1> DEFINE n == Len(registry)
<1>1. /\ n \in Nat /\ DOMAIN registry = 1 .. n /\ DOMAIN grown = 1 .. n + 1
      /\ \A i \in 1 .. n : grown[i] = registry[i]
      /\ grown[n + 1] = Record(kind, content)
  OBVIOUS
<1> HIDE DEF n, grown
<1>2. ASSUME NEW e \in Recorded(grown, k)
      PROVE  e \in Recorded(registry, k) \union (IF k = kind THEN {content} ELSE {})
  <2>1. PICK i \in 1 .. n + 1 : grown[i].kind = k /\ e = grown[i].content
    BY <1>1, <1>2 DEF Recorded
  <2>2. CASE i \in 1 .. n
    BY <1>1, <2>1, <2>2 DEF Recorded
  <2>3. CASE i = n + 1
    BY <1>1, <2>1, <2>3 DEF Record
  <2>4. QED BY <1>1, <2>2, <2>3
<1>3. ASSUME NEW e \in Recorded(registry, k) PROVE e \in Recorded(grown, k)
  <2>1. PICK i \in 1 .. n : registry[i].kind = k /\ e = registry[i].content
    BY <1>1, <1>3 DEF Recorded
  <2>2. i \in DOMAIN grown /\ grown[i] = registry[i]
    BY <1>1
  <2>3. QED BY <2>1, <2>2 DEF Recorded
<1>4. ASSUME k = kind PROVE content \in Recorded(grown, k)
  <2>1. n + 1 \in DOMAIN grown /\ grown[n + 1].kind = k /\ grown[n + 1].content = content
    BY <1>1, <1>4 DEF Record
  <2>2. QED BY <2>1 DEF Recorded
<1>5. Recorded(grown, k)
        = Recorded(registry, k) \union (IF k = kind THEN {content} ELSE {})
  BY <1>2, <1>3, <1>4
<1>6. QED BY <1>5 DEF grown

\* What a registry records is the content of one of its records.
LEMMA RecordedFrom ==
  ASSUME NEW S, NEW registry \in Seq(S), NEW k, NEW e \in Recorded(registry, k)
  PROVE  \E r \in S : r.kind = k /\ r.content = e
<1>1. PICK i \in DOMAIN registry : registry[i].kind = k /\ registry[i].content = e
  BY DEF Recorded
<1>2. registry[i] \in S
  BY <1>1
<1>3. QED BY <1>1, <1>2

\* What the registries record has the shape of its registry's records.
LEMMA RecordedShapes ==
  ASSUME RegistryTypes
  PROVE  /\ \A e \in Recorded(releases, "granted") : e \in ReleaseRecords
         /\ \A x \in Recorded(activations, "granted") : x \in ActivationRecords
         /\ \A y \in Recorded(admissions, "granted") : y \in AdmissionRecords
         /\ \A z \in Recorded(acknowledgements, "granted") : z \in AcknowledgementRecords
         /\ \A w \in Recorded(startups, "granted") : w \in StartupRecords
         /\ \A c \in Recorded(startups, "consumed") : c \in [of : StartupRecords, at : Times]
<1>1. \A e \in Recorded(releases, "granted") : e \in ReleaseRecords
  <2>1. releases \in Seq(ReleaseLog)
    BY DEF RegistryTypes
  <2>2. \A k : \A e \in Recorded(releases, k) : \E r \in ReleaseLog : r.kind = k /\ r.content = e
    BY <2>1, RecordedFrom
  <2>3. QED BY <2>2 DEF ReleaseLog
<1>2. \A x \in Recorded(activations, "granted") : x \in ActivationRecords
  <2>1. activations \in Seq(ActivationLog)
    BY DEF RegistryTypes
  <2>2. \A k : \A e \in Recorded(activations, k) : \E r \in ActivationLog : r.kind = k /\ r.content = e
    BY <2>1, RecordedFrom
  <2>3. QED BY <2>2 DEF ActivationLog
<1>3. \A y \in Recorded(admissions, "granted") : y \in AdmissionRecords
  <2>1. admissions \in Seq(AdmissionLog)
    BY DEF RegistryTypes
  <2>2. \A k : \A e \in Recorded(admissions, k) : \E r \in AdmissionLog : r.kind = k /\ r.content = e
    BY <2>1, RecordedFrom
  <2>3. QED BY <2>2 DEF AdmissionLog
<1>4. \A z \in Recorded(acknowledgements, "granted") : z \in AcknowledgementRecords
  <2>1. acknowledgements \in Seq(AcknowledgementLog)
    BY DEF RegistryTypes
  <2>2. \A k : \A e \in Recorded(acknowledgements, k) : \E r \in AcknowledgementLog : r.kind = k /\ r.content = e
    BY <2>1, RecordedFrom
  <2>3. QED BY <2>2 DEF AcknowledgementLog
<1>5. \A w \in Recorded(startups, "granted") : w \in StartupRecords
  <2>1. startups \in Seq(StartupLog)
    BY DEF RegistryTypes
  <2>2. \A k : \A e \in Recorded(startups, k) : \E r \in StartupLog : r.kind = k /\ r.content = e
    BY <2>1, RecordedFrom
  <2>3. QED BY <2>2 DEF StartupLog
<1>6. \A c \in Recorded(startups, "consumed") : c \in [of : StartupRecords, at : Times]
  <2>1. startups \in Seq(StartupLog)
    BY DEF RegistryTypes
  <2>2. \A k : \A e \in Recorded(startups, k) : \E r \in StartupLog : r.kind = k /\ r.content = e
    BY <2>1, RecordedFrom
  <2>3. QED BY <2>2 DEF StartupLog
<1>7. QED BY <1>1, <1>2, <1>3, <1>4, <1>5, <1>6

-----------------------------------------------------------------------------
\* Every call of an authority keeps the links of the chain.
LEMMA ChainStep == ChainInv /\ [Next]_vars => ChainInv'
<1> SUFFICES ASSUME ChainInv, [Next]_vars PROVE ChainInv'
  OBVIOUS
<1> USE GovernanceAssumption
<1>0. RegistryTypes
  BY DEF ChainInv
<1>1. ASSUME NEW q \in Requests, NEW at \in Times, Register(q, at) PROVE ChainInv'
  <2>1. RegistryTypes'
    BY <1>0, <1>1 DEF RegistryTypes, Register, Append1, Record, ReleaseLog, ReleaseRecords
  <2>2. QED
    BY <1>1, <2>1 DEF Register, ChainInv, ActivationLink, AdmissionLink,
      AcknowledgementLink, StartupLink, ConsumptionLink, Recorded
<1>2. ASSUME NEW e \in Recorded(releases, "granted"), Withdraw(e) PROVE ChainInv'
  <2>1. RegistryTypes'
    BY <1>0, <1>2, RecordedShapes DEF RegistryTypes, Withdraw, Append1, Record, ReleaseLog
  <2>2. QED
    BY <1>2, <2>1 DEF Withdraw, ChainInv, ActivationLink, AdmissionLink,
      AcknowledgementLink, StartupLink, ConsumptionLink, Recorded
<1>3. ASSUME NEW known, NEW e \in Recorded(releases, "granted"), NEW at \in Times,
             Activate(known, e, at)
      PROVE  ChainInv'
  <2> DEFINE x == [of |-> e, at |-> at]
  <2>1. x \in ActivationRecords
    BY <1>0, RecordedShapes DEF ActivationRecords
  <2>2. RegistryTypes'
    BY <1>0, <1>3, <2>1 DEF RegistryTypes, Activate, Append1, Record, ActivationLog
  <2>3. Recorded(activations', "granted") = Recorded(activations, "granted") \union {x}
    <3>1. activations \in Seq(ActivationLog) /\ activations' = Append(activations, Record("granted", x))
      BY <1>0, <1>3 DEF RegistryTypes, Activate, Append1
    <3>2. \A k : Recorded(activations', k) = Recorded(activations, k) \union
                   (IF k = "granted" THEN {x} ELSE {})
      BY <3>1, Growth
    <3>3. QED BY <3>2
  <2>4. ActivationLink'
    BY <1>3, <2>3 DEF ChainInv, ActivationLink, Activate
  <2>5. AdmissionLink'
    BY <1>3, <2>3 DEF ChainInv, AdmissionLink, Activate
  <2>6. QED
    BY <1>3, <2>2, <2>4, <2>5 DEF Activate, ChainInv, AcknowledgementLink,
      StartupLink, ConsumptionLink, Recorded
<1>4. ASSUME NEW e \in Recorded(releases, "granted"), NEW at \in Times,
             RevokeActivation(e, at)
      PROVE  ChainInv'
  <2>1. [of |-> e, at |-> at] \in ActivationRecords
    BY <1>0, RecordedShapes DEF ActivationRecords
  <2>2. RegistryTypes'
    BY <1>0, <1>4, <2>1 DEF RegistryTypes, RevokeActivation, Append1, Record, ActivationLog
  <2>3. Recorded(activations', "granted") = Recorded(activations, "granted")
    <3>1. activations \in Seq(ActivationLog) /\ activations' = Append(activations, Record("revoked", [of |-> e, at |-> at]))
      BY <1>0, <1>4 DEF RegistryTypes, RevokeActivation, Append1
    <3>2. \A k : Recorded(activations', k) = Recorded(activations, k) \union
                   (IF k = "revoked" THEN {[of |-> e, at |-> at]} ELSE {})
      BY <3>1, Growth
    <3>3. QED BY <3>2
  <2>4. QED
    BY <1>4, <2>2, <2>3 DEF RevokeActivation, ChainInv, ActivationLink, AdmissionLink,
      AcknowledgementLink, StartupLink, ConsumptionLink
<1>5. ASSUME NEW known, NEW handed, NEW x \in Recorded(activations, "granted"),
             NEW at \in Times, Admit(known, handed, x, at)
      PROVE  ChainInv'
  <2> DEFINE y == [of |-> x, at |-> at]
  <2>1. y \in AdmissionRecords
    BY <1>0, RecordedShapes DEF AdmissionRecords
  <2>2. RegistryTypes'
    BY <1>0, <1>5, <2>1 DEF RegistryTypes, Admit, Append1, Record, AdmissionLog
  <2>3. Recorded(admissions', "granted") = Recorded(admissions, "granted") \union {y}
    <3>1. admissions \in Seq(AdmissionLog) /\ admissions' = Append(admissions, Record("granted", y))
      BY <1>0, <1>5 DEF RegistryTypes, Admit, Append1
    <3>2. \A k : Recorded(admissions', k) = Recorded(admissions, k) \union
                   (IF k = "granted" THEN {y} ELSE {})
      BY <3>1, Growth
    <3>3. QED BY <3>2
  <2>4. x.at <= at /\ at <= x.at + HandoffAge
    <3>1. x.at \in Nat /\ at \in Nat
      BY <1>0, RecordedShapes DEF ActivationRecords, Times
    <3>2. QED BY <1>5, <3>1 DEF Admit, FreshHandoff
  <2>5. \A v \in Recorded(admissions, "granted") : Instance(v.of.of) # Instance(x.of)
    BY <1>5 DEF Admit, Admitted
  <2>6. AdmissionLink'
    <3>1. \A v \in Recorded(admissions', "granted") :
            /\ v.of \in Recorded(activations', "granted")
            /\ v.of.at <= v.at /\ v.at <= v.of.at + HandoffAge
      BY <1>5, <2>3, <2>4 DEF ChainInv, AdmissionLink, Admit
    <3>2. \A u, v \in Recorded(admissions', "granted") :
            Instance(u.of.of) = Instance(v.of.of) => u = v
      BY <2>3, <2>5 DEF ChainInv, AdmissionLink
    <3>3. QED BY <3>1, <3>2 DEF AdmissionLink, Instance, GenerationOf
  <2>7. AcknowledgementLink'
    BY <1>5, <2>3 DEF ChainInv, AcknowledgementLink, Admit
  <2>8. QED
    BY <1>5, <2>2, <2>6, <2>7 DEF Admit, ChainInv, ActivationLink, StartupLink,
      ConsumptionLink, Recorded
<1>6. ASSUME NEW y \in Recorded(admissions, "granted"), NEW at \in Times,
             RevokeAdmission(y, at)
      PROVE  ChainInv'
  <2>1. [of |-> y, at |-> at] \in [of : AdmissionRecords, at : Times]
    BY <1>0, RecordedShapes
  <2>2. RegistryTypes'
    BY <1>0, <1>6, <2>1 DEF RegistryTypes, RevokeAdmission, Append1, Record, AdmissionLog
  <2>3. Recorded(admissions', "granted") = Recorded(admissions, "granted")
    <3>1. admissions \in Seq(AdmissionLog) /\ admissions' = Append(admissions, Record("revoked", [of |-> y, at |-> at]))
      BY <1>0, <1>6 DEF RegistryTypes, RevokeAdmission, Append1
    <3>2. \A k : Recorded(admissions', k) = Recorded(admissions, k) \union
                   (IF k = "revoked" THEN {[of |-> y, at |-> at]} ELSE {})
      BY <3>1, Growth
    <3>3. QED BY <3>2
  <2>4. QED
    BY <1>6, <2>2, <2>3 DEF RevokeAdmission, ChainInv, ActivationLink, AdmissionLink,
      AcknowledgementLink, StartupLink, ConsumptionLink, Instance, GenerationOf
<1>7. ASSUME NEW admitted, NEW y \in Recorded(admissions, "granted"),
             NEW accepted \in Times, NEW nonce \in Nonces, NEW at \in Times,
             Acknowledge(admitted, y, accepted, nonce, at)
      PROVE  ChainInv'
  <2> DEFINE z == [of |-> y, nonce |-> nonce, at |-> at]
  <2>1. z \in AcknowledgementRecords
    BY <1>0, RecordedShapes DEF AcknowledgementRecords
  <2>2. RegistryTypes'
    BY <1>0, <1>7, <2>1
    DEF RegistryTypes, Acknowledge, Append1, Record, AcknowledgementLog
  <2>3. Recorded(acknowledgements', "granted")
          = Recorded(acknowledgements, "granted") \union {z}
    <3>1. acknowledgements \in Seq(AcknowledgementLog) /\ acknowledgements' = Append(acknowledgements, Record("granted", z))
      BY <1>0, <1>7 DEF RegistryTypes, Acknowledge, Append1
    <3>2. \A k : Recorded(acknowledgements', k) = Recorded(acknowledgements, k) \union
                   (IF k = "granted" THEN {z} ELSE {})
      BY <3>1, Growth
    <3>3. QED BY <3>2
  <2>4. y.at <= at /\ at < y.at + Admission
    <3>1. y.at \in Nat /\ at \in Nat /\ accepted \in Nat
      BY <1>0, RecordedShapes DEF AdmissionRecords, Times
    <3>2. QED BY <1>7, <3>1 DEF Acknowledge
  <2>5. \A v \in Recorded(acknowledgements, "granted") : v.of # y
    BY <1>7 DEF Acknowledge, Attested
  <2>6. AcknowledgementLink'
    BY <1>7, <2>3, <2>4, <2>5 DEF ChainInv, AcknowledgementLink, Acknowledge
  <2>7. StartupLink'
    BY <1>7, <2>3 DEF ChainInv, StartupLink, Acknowledge
  <2>8. QED
    BY <1>7, <2>2, <2>6, <2>7 DEF Acknowledge, ChainInv, ActivationLink, AdmissionLink,
      ConsumptionLink, Recorded, Instance, GenerationOf
<1>8. ASSUME NEW generations \in SUBSET {Generation[q] : q \in Requests},
             NEW at \in Times, RecordStatus(generations, at)
      PROVE  ChainInv'
  <2>1. [generations |-> generations, at |-> at] \in [generations : SUBSET Nat, at : Times]
    OBVIOUS
  <2>2. RegistryTypes'
    BY <1>0, <1>8, <2>1 DEF RegistryTypes, RecordStatus, Append1, Record, StartupLog
  <2>3. /\ Recorded(startups', "granted") = Recorded(startups, "granted")
        /\ Recorded(startups', "consumed") = Recorded(startups, "consumed")
    <3>1. startups \in Seq(StartupLog) /\ startups' = Append(startups, Record("status", [generations |-> generations, at |-> at]))
      BY <1>0, <1>8 DEF RegistryTypes, RecordStatus, Append1
    <3>2. \A k : Recorded(startups', k) = Recorded(startups, k) \union
                   (IF k = "status" THEN {[generations |-> generations, at |-> at]} ELSE {})
      BY <3>1, Growth
    <3>3. QED BY <3>2
  <2>4. QED
    BY <1>8, <2>2, <2>3 DEF RecordStatus, ChainInv, ActivationLink, AdmissionLink,
      AcknowledgementLink, StartupLink, ConsumptionLink, Instance, GenerationOf
<1>9. ASSUME NEW z \in Recorded(acknowledgements, "granted"), NEW nonce \in Nonces,
             NEW at \in Times, AuthorizeStartup(z, nonce, at)
      PROVE  ChainInv'
  <2> DEFINE w == [of |-> z, nonce |-> nonce, at |-> at]
  <2>1. w \in StartupRecords
    BY <1>0, RecordedShapes DEF StartupRecords
  <2>2. RegistryTypes'
    BY <1>0, <1>9, <2>1 DEF RegistryTypes, AuthorizeStartup, Append1, Record, StartupLog
  <2>3. /\ Recorded(startups', "granted") = Recorded(startups, "granted") \union {w}
        /\ Recorded(startups', "consumed") = Recorded(startups, "consumed")
    <3>1. startups \in Seq(StartupLog) /\ startups' = Append(startups, Record("granted", w))
      BY <1>0, <1>9 DEF RegistryTypes, AuthorizeStartup, Append1
    <3>2. \A k : Recorded(startups', k) = Recorded(startups, k) \union
                   (IF k = "granted" THEN {w} ELSE {})
      BY <3>1, Growth
    <3>3. QED BY <3>2
  <2>4. z.at <= at /\ at <= z.at + AcknowledgementAge
    <3>1. z.at \in Nat /\ at \in Nat
      BY <1>0, RecordedShapes DEF AcknowledgementRecords, Times
    <3>2. QED BY <1>9, <3>1 DEF AuthorizeStartup
  <2>5. StartupLink'
    BY <1>9, <2>3, <2>4 DEF ChainInv, StartupLink, AuthorizeStartup
  <2>6. ConsumptionLink'
    BY <2>3 DEF ChainInv, ConsumptionLink
  <2>7. QED
    BY <1>9, <2>2, <2>5, <2>6 DEF AuthorizeStartup, ChainInv, ActivationLink,
      AdmissionLink, AcknowledgementLink, Recorded, Instance, GenerationOf
<1>10. ASSUME NEW w \in Recorded(startups, "granted"), NEW at \in Times, Consume(w, at)
       PROVE  ChainInv'
  <2> DEFINE c == [of |-> w, at |-> at]
  <2>1. c \in [of : StartupRecords, at : Times]
    BY <1>0, RecordedShapes
  <2>2. RegistryTypes'
    BY <1>0, <1>10, <2>1 DEF RegistryTypes, Consume, Append1, Record, StartupLog
  <2>3. /\ Recorded(startups', "granted") = Recorded(startups, "granted")
        /\ Recorded(startups', "consumed") = Recorded(startups, "consumed") \union {c}
    <3>1. startups \in Seq(StartupLog) /\ startups' = Append(startups, Record("consumed", c))
      BY <1>0, <1>10 DEF RegistryTypes, Consume, Append1
    <3>2. \A k : Recorded(startups', k) = Recorded(startups, k) \union
                   (IF k = "consumed" THEN {c} ELSE {})
      BY <3>1, Growth
    <3>3. QED BY <3>2
  <2>4. StartupLink'
    BY <1>10, <2>3 DEF ChainInv, StartupLink, Consume
  <2>5. ConsumptionLink'
    BY <1>10, <2>3 DEF ChainInv, ConsumptionLink, Consume
  <2>6. QED
    BY <1>10, <2>2, <2>4, <2>5 DEF Consume, ChainInv, ActivationLink,
      AdmissionLink, AcknowledgementLink, Recorded, Instance, GenerationOf
<1>11. CASE UNCHANGED vars
  BY <1>11 DEF vars, ChainInv, RegistryTypes, ActivationLink, AdmissionLink,
    AcknowledgementLink, StartupLink, ConsumptionLink, Recorded, Instance, GenerationOf
<1>12. QED
  BY <1>1, <1>2, <1>3, <1>4, <1>5, <1>6, <1>7, <1>8, <1>9, <1>10, <1>11 DEF Next

\* The chain starts empty and every call keeps its links.
THEOREM Chain == Spec => []ChainInv
<1>1. Init => ChainInv
  <2> SUFFICES ASSUME Init PROVE ChainInv
    OBVIOUS
  <2>1. \A k : /\ Recorded(activations, k) = {} /\ Recorded(admissions, k) = {}
               /\ Recorded(acknowledgements, k) = {} /\ Recorded(startups, k) = {}
    BY DEF Init, Recorded
  <2>2. RegistryTypes
    BY DEF Init, RegistryTypes
  <2>3. QED
    BY <2>1, <2>2 DEF ChainInv, ActivationLink, AdmissionLink, AcknowledgementLink,
      StartupLink, ConsumptionLink
<1>2. QED BY <1>1, ChainStep, PTL DEF Spec

\* One lineage per instance, whatever snapshots the callers bring: two
\* startups of an instance rest on acknowledgements of one admission.
THEOREM Lineage == Spec => []OneLineage
<1>1. ChainInv => OneLineage
  BY DEF ChainInv, StartupLink, AcknowledgementLink, AdmissionLink, OneLineage,
    ReleaseOfStartup
<1>2. QED BY <1>1, Chain, PTL

\* The windows add up: from the assessment of a release to the consumption
\* of its startup.
THEOREM InTime == Spec => []StartsInTime
<1>1. ChainInv => StartsInTime
  <2> SUFFICES ASSUME ChainInv, NEW c \in Recorded(startups, "consumed")
               PROVE  /\ ReleaseOfStartup(c.of).at <= c.at
                      /\ c.at + 3 <= ReleaseOfStartup(c.of).at + Window + HandoffAge
                                       + Admission + AcknowledgementAge + Lifetime
    BY DEF StartsInTime
  <2> DEFINE w == c.of
             z == w.of
             y == z.of
             x == y.of
             e == x.of
  <2>1. /\ w \in Recorded(startups, "granted")
        /\ w.at <= c.at /\ c.at < w.at + Lifetime
    BY DEF ChainInv, ConsumptionLink
  <2>2. /\ z \in Recorded(acknowledgements, "granted")
        /\ z.at <= w.at /\ w.at <= z.at + AcknowledgementAge
    BY <2>1 DEF ChainInv, StartupLink
  <2>3. /\ y \in Recorded(admissions, "granted")
        /\ y.at <= z.at /\ z.at < y.at + Admission
    BY <2>2 DEF ChainInv, AcknowledgementLink
  <2>4. /\ x \in Recorded(activations, "granted")
        /\ x.at <= y.at /\ y.at <= x.at + HandoffAge
    BY <2>3 DEF ChainInv, AdmissionLink
  <2>5. e.at <= x.at /\ x.at < e.at + Window
    BY <2>4 DEF ChainInv, ActivationLink
  <2>6. c \in [of : StartupRecords, at : Times]
    BY RecordedShapes DEF ChainInv
  <2>7. /\ e.at \in Nat /\ x.at \in Nat /\ y.at \in Nat
        /\ z.at \in Nat /\ w.at \in Nat /\ c.at \in Nat
    BY <2>6 DEF StartupRecords, AcknowledgementRecords, AdmissionRecords,
      ActivationRecords, ReleaseRecords, Times
  <2>8. /\ Window \in Nat /\ HandoffAge \in Nat /\ Admission \in Nat
        /\ AcknowledgementAge \in Nat /\ Lifetime \in Nat
    BY GovernanceAssumption
  <2>9. ReleaseOfStartup(c.of).at = e.at
    BY DEF ReleaseOfStartup
  <2> HIDE DEF w, z, y, x, e
  <2>10. QED BY <2>1, <2>2, <2>3, <2>4, <2>5, <2>7, <2>8, <2>9
<1>2. QED BY <1>1, Chain, PTL

\* The gate against an older generation never closes: it compares runtimes
\* by their instance identity, and generations of one runtime differ in it
\* (learning/runtime_startup/authority.py:64).
THEOREM GenerationGateOpen == Spec => [](\A release : ~HigherGeneration(release))
<1>1. ChainInv => \A release : ~HigherGeneration(release)
  <2> SUFFICES ASSUME ChainInv, NEW release, NEW w \in Recorded(startups, "granted"),
                      Instance(ReleaseOfStartup(w)) = Instance(release),
                      GenerationOf(ReleaseOfStartup(w)) > GenerationOf(release)
               PROVE  FALSE
    BY DEF HigherGeneration
  <2>1. GenerationOf(ReleaseOfStartup(w)) = GenerationOf(release)
    BY DEF Instance
  <2>2. GenerationOf(ReleaseOfStartup(w)) \in Nat
    BY RecordedShapes, GovernanceAssumption
    DEF ChainInv, GenerationOf, ReleaseOfStartup, StartupRecords,
      AcknowledgementRecords, AdmissionRecords, ActivationRecords, ReleaseRecords
  <2>3. QED BY <2>1, <2>2
<1>2. QED BY <1>1, Chain, PTL

-----------------------------------------------------------------------------
(* ProductionStartup: what holds of records, snapshots and commands.        *)

Resting == {"new", "over", "refused", "activate"}
Saving == {"save", "head", "link"}

\* A command's locals.
Fields == {"step", "command", "approval", "capture", "stage", "made", "todo", "ids", "snapshot"}
IsLocals(L) == L = [x \in Fields |-> L[x]] /\ L.made = [s \in Stages |-> L.made[s]]

\* A record, of records R, snapshots S and evidence E: what it is of is on record, and
\* an environment is under the snapshot its evidence was taken under.
Chained(s, r, R, S, E) ==
  /\ s = "recommendation" => r \in Intelligences
  /\ s = "readiness" => r.of \in R["recommendation"]
  /\ s = "environment" =>
       r = [of |-> r.of, under |-> r.of.under] /\ r.of \in E /\ r.of.of \in R["readiness"]
  /\ s = "feasibility" =>
       /\ r = [of |-> r.of, under |-> r.under] /\ r.of \in R["environment"] /\ FeasibilityReady(r)
       /\ \E n \in S["environment"] : r.under = {n}
  /\ s = "package" =>
       /\ r = [of |-> r.of, under |-> r.under] /\ r.of \in R["feasibility"]
       /\ \E n \in S["feasibility"] : r.under = {n}

\* Two records of a stage: one environment of a readiness, one snapshot for all
\* feasibilities, one for all packages.
Same(s, x, y) ==
  /\ s = "environment" /\ x.of.of = y.of.of => x = y
  /\ s \in {"feasibility", "package"} => x.under = y.under

\* The time a record's snapshot carries.
At(s, r) ==
  CASE s = "readiness" -> r.of
    [] s = "environment" -> r.of.of.of
    [] s = "feasibility" -> r.of.of.capture
    [] s = "package" -> r.of.of.of.capture
    [] s = "recommendation" -> None

\* A snapshot of records R: one with a predecessor left records out when it was made.
Linked(s, n, R) ==
  /\ n = [ids |-> n.ids, previous |-> n.previous, at |-> n.at]
  /\ n.ids \subseteq R[s]
  /\ n.previous = {} \/ n.ids # R[s]
  /\ \A m \in n.previous : m.previous = {}
  /\ s = "recommendation" => n.ids = Intelligences /\ n.at = None
  /\ s # "recommendation" => \E r \in n.ids : n.at = At(s, r)

\* What a command made of what.
Derived(s, made) ==
  /\ s = "readiness" => made["readiness"].of = made["recommendation"]
  /\ s = "environment" => made["environment"].of.of = made["readiness"]
  /\ s = "feasibility" => made["feasibility"].of = made["environment"]
  /\ s = "package" => made["package"].of = made["feasibility"]

\* A command of locals L, wherever it stands.
Working(L, R, S, E) ==
  /\ L.step \notin Resting => L.stage \in Stages
  /\ L.step # "save" => L.todo = {}
  /\ \A r \in L.todo : Chained(L.stage, r, R, S, E)
  /\ L.step \in Saving => Derived(L.stage, L.made)
  /\ L.step = "save" => /\ L.stage = "recommendation" => Intelligences \subseteq R["recommendation"] \union L.todo
                        /\ L.stage # "recommendation" => L.made[L.stage] \in R[L.stage] \union L.todo
  /\ L.step \in {"head", "link"} => /\ L.ids \subseteq R[L.stage]
                                    /\ L.stage = "recommendation" => L.ids = Intelligences
                                    /\ L.stage # "recommendation" => L.made[L.stage] \in L.ids
  /\ L.step = "link" => /\ \A m \in L.snapshot : m.previous = {}
                        /\ L.snapshot = {} \/ L.ids # R[L.stage]
  /\ L.step \notin Resting /\ L.stage \in {"environment", "feasibility"} =>
       Derived("readiness", L.made) /\ ReadinessReady(L.made["readiness"])
  /\ L.step \notin Resting /\ L.stage = "feasibility" =>
       Derived("environment", L.made) /\ EnvironmentReady(L.made["environment"])
  /\ L.step = "weigh" => L.stage = "environment" /\ L.made["readiness"] \in R["readiness"]

\* The records of a stage that are on file or about to be.
Held(s) == records[s] \union UNION {run[p].todo : p \in {q \in Starts : run[q].stage = s}}

Shapes ==
  /\ records = [s \in Stages |-> records[s]] /\ snapshots = [s \in Stages |-> snapshots[s]]
  /\ run = [p \in Starts |-> run[p]] /\ \A p \in Starts : IsLocals(run[p])

StartupInv ==
  /\ Shapes
  /\ \A s \in Stages : \A r \in records[s] : Chained(s, r, records, snapshots, evidence)
  /\ \A s \in Stages : \A n \in snapshots[s] : Linked(s, n, records)
  /\ \A p \in Starts : Working(run[p], records, snapshots, evidence)
  /\ \A s \in Stages : \A x, y \in Held(s) : Same(s, x, y)
  /\ \A x \in ran : x.package \in records["package"]

-----------------------------------------------------------------------------
(* A repository that can be read has one snapshot, of all its records: one   *)
(* that has a predecessor never names them all, so it is no head that could  *)
(* be read, and none that could be a predecessor.                            *)

LEMMA SingleSnapshot ==
  ASSUME NEW s \in Stages, \A n \in snapshots[s] : Linked(s, n, records), Readable(s), snapshots[s] # {}
  PROVE  \E n \in snapshots[s] :
           snapshots[s] = {n} /\ Heads(s) = {n} /\ n.ids = records[s] /\ n.previous = {}
<1>1. PICK n \in Heads(s) : Heads(s) = {n} /\ n.ids = records[s]
  BY DEF Readable
<1>2. n \in snapshots[s] /\ n.previous = {}
  BY <1>1 DEF Heads, Linked
<1>3. ASSUME NEW m \in snapshots[s], m # n PROVE FALSE
  <2>1. PICK k \in snapshots[s] : m \in k.previous
    BY <1>1, <1>3 DEF Heads
  <2>2. k # n
    BY <1>2, <2>1
  <2>3. PICK l \in snapshots[s] : k \in l.previous
    BY <1>1, <2>2 DEF Heads
  <2>4. k.previous = {}
    BY <2>3 DEF Linked
  <2> QED
    BY <2>1, <2>4
<1> QED
  BY <1>1, <1>2, <1>3

\* Records, snapshots and evidence are only added to.
Grown(R, S, E, R2, S2, E2) ==
  (\A s \in Stages : R[s] \subseteq R2[s] /\ S[s] \subseteq S2[s]) /\ E \subseteq E2

LEMMA ChainedGrows ==
  ASSUME NEW R, NEW S, NEW E, NEW R2, NEW S2, NEW E2, Grown(R, S, E, R2, S2, E2),
         NEW s, NEW r, Chained(s, r, R, S, E)
  PROVE  Chained(s, r, R2, S2, E2)
<1>1. /\ R["recommendation"] \subseteq R2["recommendation"] /\ R["readiness"] \subseteq R2["readiness"]
      /\ R["environment"] \subseteq R2["environment"] /\ R["feasibility"] \subseteq R2["feasibility"]
      /\ S["environment"] \subseteq S2["environment"] /\ S["feasibility"] \subseteq S2["feasibility"]
      /\ E \subseteq E2
  BY DEF Grown, Stages
<1> QED
  BY <1>1 DEF Chained

LEMMA LinkedGrows ==
  ASSUME NEW s, NEW R, NEW R2, R[s] \subseteq R2[s], NEW n, Linked(s, n, R)
  PROVE  Linked(s, n, R2)
BY DEF Linked

LEMMA WorkingGrows ==
  ASSUME NEW R, NEW S, NEW E, NEW R2, NEW S2, NEW E2, Grown(R, S, E, R2, S2, E2),
         NEW L, Working(L, R, S, E)
  PROVE  Working(L, R2, S2, E2)
<1>1. \A r \in L.todo : Chained(L.stage, r, R2, S2, E2)
  BY ChainedGrows DEF Working
<1>2. \A s \in Stages : R[s] \subseteq R2[s]
  BY DEF Grown
<1>3. L.step \in {"save", "head", "link", "weigh"} => L.stage \in Stages
  BY DEF Working, Resting
<1>4. R["recommendation"] \subseteq R2["recommendation"] /\ R["readiness"] \subseteq R2["readiness"]
  BY <1>2 DEF Stages
<1> QED
  BY <1>1, <1>2, <1>3, <1>4 DEF Working, Saving

\* What is left of a command that is over holds nothing.
LEMMA NewWorks ==
  ASSUME NEW step \in {"new", "over", "refused"}, NEW R, NEW S, NEW E
  PROVE  /\ IsLocals([New EXCEPT !.step = step]) /\ Working([New EXCEPT !.step = step], R, S, E)
         /\ [New EXCEPT !.step = step].todo = {} /\ [New EXCEPT !.step = step].stage = None
<1> DEFINE L == [New EXCEPT !.step = step]
<1>1. IsLocals(L) /\ L.step = step /\ L.stage = None /\ L.todo = {}
  BY DEF IsLocals, Fields, New
<1> HIDE DEF L
<1>2. Working(L, R, S, E)
  BY <1>1 DEF Working, Resting, Saving
<1> QED
  BY <1>1, <1>2 DEF L

LEMMA StepFrame ==
  ASSUME StartupInv, NEW p \in Starts, NEW L, IsLocals(L), run' = [run EXCEPT ![p] = L],
         records' = [s \in Stages |-> records'[s]], snapshots' = [s \in Stages |-> snapshots'[s]],
         Grown(records, snapshots, evidence, records', snapshots', evidence'),
         \A s \in Stages : \A r \in records'[s] : r \in records[s] \/ (s = run[p].stage /\ r \in run[p].todo),
         \A s \in Stages : \A n \in snapshots'[s] : n \in snapshots[s] \/ Linked(s, n, records'),
         Working(L, records', snapshots', evidence'),
         \A r \in L.todo : \/ L.stage = run[p].stage /\ r \in run[p].todo
                           \/ \A x \in Held(L.stage) \union L.todo : Same(L.stage, x, r),
         \A x \in ran' : x \in ran \/ x.package \in records'["package"]
  PROVE  StartupInv'
<1>1. /\ \A q \in Starts \ {p} : run'[q] = run[q]
      /\ run'[p] = L /\ run' = [q \in Starts |-> run'[q]]
  BY DEF StartupInv, Shapes
<1>2. Shapes'
  BY <1>1 DEF StartupInv, Shapes
<1>3. \A s \in Stages : \A r \in records'[s] : Chained(s, r, records', snapshots', evidence')
  <2> SUFFICES ASSUME NEW s \in Stages, NEW r \in records'[s]
               PROVE  Chained(s, r, records', snapshots', evidence')
    OBVIOUS
  <2>1. Chained(s, r, records, snapshots, evidence)
    BY DEF StartupInv, Working
  <2> QED
    BY <2>1, ChainedGrows
<1>4. \A s \in Stages : \A n \in snapshots'[s] : Linked(s, n, records')
  <2> SUFFICES ASSUME NEW s \in Stages, NEW n \in snapshots[s] PROVE Linked(s, n, records')
    OBVIOUS
  <2>1. Linked(s, n, records) /\ records[s] \subseteq records'[s]
    BY DEF StartupInv, Grown
  <2> QED
    BY <2>1, LinkedGrows
<1>5. \A q \in Starts : Working(run'[q], records', snapshots', evidence')
  <2> SUFFICES ASSUME NEW q \in Starts PROVE Working(run'[q], records', snapshots', evidence')
    OBVIOUS
  <2>1. CASE q = p
    BY <1>1, <2>1
  <2>2. CASE q # p
    <3>1. Working(run[q], records, snapshots, evidence)
      BY DEF StartupInv
    <3> QED
      BY <1>1, <2>2, <3>1, WorkingGrows
  <2> QED
    BY <2>1, <2>2
<1>6. \A s \in Stages : \A x, y \in Held(s)' : Same(s, x, y)
  <2> SUFFICES ASSUME NEW s \in Stages, NEW x \in Held(s)', NEW y \in Held(s)' PROVE Same(s, x, y)
    OBVIOUS
  <2>1. ASSUME NEW z \in Held(s)' PROVE z \in Held(s) \/ (s = L.stage /\ z \in L.todo)
    BY <1>1 DEF Held
  <2>2. \A z, w : Same(s, z, w) => Same(s, w, z)
    BY DEF Same
  <2>3. \A z, w \in Held(s) : Same(s, z, w)
    BY DEF StartupInv
  <2>4. \A z \in run[p].todo : s = run[p].stage => z \in Held(s)
    BY DEF Held
  <2> HIDE DEF Held, Same
  <2>5. \A z \in L.todo : s = L.stage => z \in Held(s) \/ \A w \in Held(s) \union L.todo : Same(s, w, z)
    BY <2>4
  <2> QED
    BY <2>1, <2>2, <2>3, <2>5
<1>7. \A x \in ran' : x.package \in records'["package"]
  BY DEF StartupInv, Grown, Stages
<1> QED
  BY <1>2, <1>3, <1>4, <1>5, <1>6, <1>7 DEF StartupInv

\* A step that saves nothing and has nothing to save.
LEMMA LocalStep ==
  ASSUME StartupInv, NEW p \in Starts, NEW L, IsLocals(L), run' = [run EXCEPT ![p] = L],
         UNCHANGED <<records, snapshots>>, evidence \subseteq evidence', L.todo = {},
         Working(L, records, snapshots, evidence'),
         \A x \in ran' : x \in ran \/ x.package \in records["package"]
  PROVE  StartupInv'
<1>1. /\ records' = [s \in Stages |-> records'[s]] /\ snapshots' = [s \in Stages |-> snapshots'[s]]
      /\ Grown(records, snapshots, evidence, records', snapshots', evidence')
  BY DEF StartupInv, Shapes, Grown
<1> QED
  BY <1>1, StepFrame

\* A command that ends, as it should or not.
LEMMA OverStep ==
  ASSUME StartupInv, NEW p \in Starts, NEW step \in Over, Become(p, step), UNCHANGED <<records, snapshots, evidence>>,
         \A x \in ran' : x \in ran \/ x.package \in records["package"]
  PROVE  StartupInv'
<1>1. run' = [run EXCEPT ![p] = [New EXCEPT !.step = step]]
  BY DEF Become
<1>2. step \in {"new", "over", "refused"}
  BY DEF Over
<1> QED
  BY <1>1, <1>2, NewWorks, LocalStep

LEMMA BeginStep ==
  ASSUME StartupInv, NEW p \in Starts, NEW c, NEW K, IsLocals(K), K.todo = {}, Begin(p, c, K),
         K.step = "activate" \/ (K.step = "verify" /\ K.stage \in {"recommendation", "readiness", "package"})
  PROVE  StartupInv'
<1> DEFINE L == [K EXCEPT !.command = c]
<1>1. IsLocals(L) /\ L.step = K.step /\ L.stage = K.stage /\ L.todo = {} /\ L.made = K.made
  BY DEF IsLocals, Fields
<1>2. run' = [run EXCEPT ![p] = L] /\ UNCHANGED <<records, snapshots, evidence, ran>>
  BY DEF Begin
<1> HIDE DEF L
<1>3. Working(L, records, snapshots, evidence)
  BY <1>1 DEF Working, Resting, Saving, Stages
<1> QED
  BY <1>1, <1>2, <1>3, LocalStep

\* The commands' beginnings.
LEMMA BeginSteps ==
  ASSUME StartupInv, NEW p \in Starts,
         ActivateIntelligence(p) \/ Startup(p) \/ Initialize(p) \/ Bootstrap(p)
  PROVE  StartupInv'
<1>1. IsLocals(New) /\ New.todo = {}
  BY DEF IsLocals, Fields, New
<1>2. CASE ActivateIntelligence(p)
  <2>1. PICK a \in Approvals : Begin(p, "activate", [New EXCEPT !.step = "activate", !.approval = a])
    BY <1>2 DEF ActivateIntelligence
  <2> DEFINE K == [New EXCEPT !.step = "activate", !.approval = a]
  <2>2. IsLocals(K) /\ K.todo = {} /\ K.step = "activate"
    BY <1>1 DEF IsLocals, Fields
  <2> HIDE DEF K
  <2>3. Begin(p, "activate", K)
    BY <2>1 DEF K
  <2> QED
    BY <2>2, <2>3, BeginStep
<1>3. CASE Startup(p)
  <2>1. PICK c \in Captures, a \in activated :
          Begin(p, "startup", [New EXCEPT !.step = "verify", !.approval = a, !.capture = c,
                                 !.stage = "recommendation", !.made["recommendation"] = a.intelligence])
    BY <1>3 DEF Startup
  <2> DEFINE K == [New EXCEPT !.step = "verify", !.approval = a, !.capture = c,
                                 !.stage = "recommendation", !.made["recommendation"] = a.intelligence]
  <2>2. IsLocals(K) /\ K.todo = {} /\ K.step = "verify" /\ K.stage = "recommendation"
    BY <1>1 DEF IsLocals, Fields, Stages
  <2> HIDE DEF K
  <2>3. Begin(p, "startup", K)
    BY <2>1 DEF K
  <2> QED
    BY <2>2, <2>3, BeginStep
<1>4. CASE Initialize(p)
  <2>1. PICK c \in Captures, r \in records["recommendation"] :
          Begin(p, "initialize", [New EXCEPT !.step = "verify", !.capture = c,
                                    !.stage = "readiness", !.made["recommendation"] = r])
    BY <1>4 DEF Initialize
  <2> DEFINE K == [New EXCEPT !.step = "verify", !.capture = c,
                                    !.stage = "readiness", !.made["recommendation"] = r]
  <2>2. IsLocals(K) /\ K.todo = {} /\ K.step = "verify" /\ K.stage = "readiness"
    BY <1>1 DEF IsLocals, Fields, Stages
  <2> HIDE DEF K
  <2>3. Begin(p, "initialize", K)
    BY <2>1 DEF K
  <2> QED
    BY <2>2, <2>3, BeginStep
<1>5. CASE Bootstrap(p)
  <2>1. PICK d \in records["readiness"], v \in records["environment"], f \in records["feasibility"] :
          Begin(p, "bootstrap", [New EXCEPT !.step = "verify", !.stage = "package",
                  !.made["readiness"] = d, !.made["environment"] = v, !.made["feasibility"] = f])
    BY <1>5 DEF Bootstrap
  <2> DEFINE K == [New EXCEPT !.step = "verify", !.stage = "package",
                  !.made["readiness"] = d, !.made["environment"] = v, !.made["feasibility"] = f]
  <2>2. IsLocals(K) /\ K.todo = {} /\ K.step = "verify" /\ K.stage = "package"
    BY <1>1 DEF IsLocals, Fields, Stages
  <2> HIDE DEF K
  <2>3. Begin(p, "bootstrap", K)
    BY <2>1 DEF K
  <2> QED
    BY <2>2, <2>3, BeginStep
<1> QED
  BY <1>2, <1>3, <1>4, <1>5

\* Of what is on file or about to be, what it is of is on file.
LEMMA HeldChained ==
  ASSUME StartupInv, NEW s \in Stages, NEW x \in Held(s)
  PROVE  Chained(s, x, records, snapshots, evidence)
BY DEF StartupInv, Held, Working

LEMMA OnlyOne == ASSUME NEW r PROVE (CHOOSE x \in {r} : TRUE) = r
OBVIOUS

\* An engine sets out to save what it derived.
LEMMA ConstructStep ==
  ASSUME StartupInv, NEW p \in Starts, NEW R, Construct(p, R), UNCHANGED <<records, snapshots, evidence, ran>>,
         run[p].stage \in Stages, run[p].step \notin Resting,
         \/ run[p].stage = "recommendation" /\ R = Intelligences
         \/ \E r : R = {r} /\ run[p].stage # "recommendation" /\ Derived(run[p].stage, [run[p].made EXCEPT ![run[p].stage] = r]),
         \A r \in R : /\ Chained(run[p].stage, r, records, snapshots, evidence)
                      /\ \A x \in Held(run[p].stage) \union R : Same(run[p].stage, x, r)
  PROVE  StartupInv'
<1> DEFINE L == run'[p]
           s == run[p].stage
           made == run[p].made
<1>1. IsLocals(run[p]) /\ run = [q \in Starts |-> run[q]]
  BY DEF StartupInv, Shapes
<1>2. PICK r : IF s = "recommendation" THEN R = Intelligences /\ r = made[s] ELSE R = {r} /\ Derived(s, [made EXCEPT ![s] = r])
  OBVIOUS
<1>3. (IF s = "recommendation" THEN made[s] ELSE CHOOSE x \in R : TRUE) = r
  BY <1>2, OnlyOne
<1>4. run' = [run EXCEPT ![p].step = "save", ![p].todo = R \ records[s], ![p].made[s] = r]
  BY <1>3 DEF Construct
<1>5. /\ run' = [run EXCEPT ![p] = L] /\ IsLocals(L)
      /\ L.step = "save" /\ L.stage = s /\ L.todo = R \ records[s] /\ L.made = [made EXCEPT ![s] = r]
  BY <1>1, <1>4 DEF IsLocals, Fields
<1> HIDE DEF L
<1>6. /\ L.made[s] = r /\ \A u \in Stages \ {s} : L.made[u] = made[u]
  BY <1>1, <1>5 DEF IsLocals
<1>7. Derived(s, L.made)
  <2>1. CASE s = "recommendation"
    BY <2>1 DEF Derived
  <2>2. CASE s # "recommendation"
    BY <1>2, <1>5, <2>2
  <2> QED
    BY <2>1, <2>2
<1>8. Working(run[p], records, snapshots, evidence)
  BY DEF StartupInv
<1>9. Working(L, records, snapshots, evidence)
  <2>1. \A x \in L.todo : Chained(s, x, records, snapshots, evidence)
    BY <1>5
  <2>2. /\ s = "recommendation" => Intelligences \subseteq records["recommendation"] \union L.todo
        /\ s # "recommendation" => L.made[s] \in records[s] \union L.todo
    BY <1>2, <1>5, <1>6
  <2>3. s \in {"environment", "feasibility"} => Derived("readiness", L.made) /\ ReadinessReady(L.made["readiness"])
    BY <1>6, <1>8 DEF Working, Derived, Stages
  <2>4. s = "feasibility" => Derived("environment", L.made) /\ EnvironmentReady(L.made["environment"])
    BY <1>6, <1>8 DEF Working, Derived, Stages
  <2> HIDE DEF s
  <2> QED
    BY <1>5, <1>7, <2>1, <2>2, <2>3, <2>4 DEF Working, Resting, s
<1>10. /\ records' = [u \in Stages |-> records'[u]] /\ snapshots' = [u \in Stages |-> snapshots'[u]]
       /\ Grown(records, snapshots, evidence, records', snapshots', evidence')
  BY DEF StartupInv, Shapes, Grown
<1>11. \A x \in L.todo : \A y \in Held(L.stage) \union L.todo : Same(L.stage, y, x)
  BY <1>5
<1> QED
  BY <1>5, <1>9, <1>10, <1>11, StepFrame

LEMMA VerifiedUpstream ==
  ASSUME NEW s, NEW made, Verified(s, made)
  PROVE  /\ s = "readiness" => made["recommendation"] \in records["recommendation"]
         /\ s = "environment" => made["readiness"] \in records["readiness"]
         /\ s = "feasibility" => /\ made["environment"] \in records["environment"]
                                /\ Readable("environment") /\ snapshots["environment"] # {}
         /\ s = "package" => /\ made["feasibility"] \in records["feasibility"]
                            /\ Readable("feasibility") /\ snapshots["feasibility"] # {}
<1>1. \A u \in Upstream(s) : snapshots[u] # {} /\ Readable(u) /\ made[u] \in records[u]
  BY DEF Verified
<1>2. Upstream("readiness") = {"recommendation"}
  BY DEF Upstream
<1>3. Upstream("environment") = {"readiness"}
  BY DEF Upstream
<1>4. "environment" \in Upstream("feasibility")
  BY DEF Upstream
<1>5. "feasibility" \in Upstream("package")
  BY DEF Upstream
<1> QED
  BY <1>1, <1>2, <1>3, <1>4, <1>5

\* Whoever is under the one snapshot of a repository that can be read is under the same.
LEMMA UnderTheHead ==
  ASSUME StartupInv, NEW s \in {"feasibility", "package"},
         NEW u \in Stages, u = IF s = "feasibility" THEN "environment" ELSE "feasibility",
         Readable(u), snapshots[u] # {}
  PROVE  /\ \E n \in snapshots[u] : Heads(u) = {n}
         /\ \A x \in Held(s) : x.under = Heads(u)
<1>1. PICK n \in snapshots[u] : snapshots[u] = {n} /\ Heads(u) = {n}
  BY SingleSnapshot DEF StartupInv
<1>2. ASSUME NEW x \in Held(s) PROVE x.under = {n}
  <2>1. Chained(s, x, records, snapshots, evidence)
    BY HeldChained DEF Stages
  <2>2. \E m \in snapshots[u] : x.under = {m}
    BY <2>1 DEF Chained
  <2> QED
    BY <1>1, <2>2
<1> QED
  BY <1>1, <1>2

LEMMA VerifyStep ==
  ASSUME StartupInv, NEW p \in Starts, Verify(p)
  PROVE  StartupInv'
<1> DEFINE s == run[p].stage
           made == run[p].made
<1>1. /\ IsLocals(run[p]) /\ run = [q \in Starts |-> run[q]] /\ Working(run[p], records, snapshots, evidence)
      /\ run[p].step = "verify" /\ run[p].step \notin Resting /\ UNCHANGED <<records, snapshots, evidence, ran>>
  BY DEF Verify, StartupInv, Shapes, Resting
<1>2. s \in Stages /\ run[p].todo = {}
  BY <1>1 DEF Working
<1>3. CASE ~Verified(s, made)
  <2>1. Become(p, "refused")
    BY <1>3 DEF Verify
  <2> QED
    BY <1>1, <2>1, OverStep DEF Over
<1>4. CASE Verified(s, made) /\ s = "environment"
  <2> DEFINE L == run'[p]
  <2>1. run' = [run EXCEPT ![p].step = "weigh", ![p].snapshot = Heads("readiness")]
    BY <1>4 DEF Verify
  <2>2. /\ run' = [run EXCEPT ![p] = L] /\ IsLocals(L)
        /\ L.step = "weigh" /\ L.stage = s /\ L.todo = {} /\ L.made = made
    BY <1>1, <1>2, <2>1 DEF IsLocals, Fields
  <2> HIDE DEF L
  <2>3. made["readiness"] \in records["readiness"]
    BY <1>4, VerifiedUpstream
  <2>4. Working(L, records, snapshots, evidence)
    BY <1>1, <1>2, <1>4, <2>2, <2>3 DEF Working, Resting, Saving
  <2> QED
    BY <1>1, <2>2, <2>4, LocalStep
<1>5. CASE Verified(s, made) /\ s # "environment"
  <2> DEFINE R == Product(p)
  <2>1. Construct(p, R)
    BY <1>5 DEF Verify
  <2>2. CASE s = "recommendation"
    <3>1. R = Intelligences
      BY <2>2 DEF Product
    <3>2. \A r \in R : Chained(s, r, records, snapshots, evidence) /\ \A x \in Held(s) \union R : Same(s, x, r)
      BY <2>2, <3>1 DEF Chained, Same
    <3> HIDE DEF R
    <3> QED
      BY <1>1, <1>2, <2>1, <2>2, <3>1, <3>2, ConstructStep
  <2>3. CASE s = "readiness"
    <3> DEFINE r == [of |-> made["recommendation"], under |-> Heads("recommendation")]
    <3>1. R = {r}
      BY <2>3 DEF Product
    <3>2. r.of = made["recommendation"]
      OBVIOUS
    <3> HIDE DEF R, r
    <3>3. Chained(s, r, records, snapshots, evidence) /\ \A x : Same(s, x, r)
      BY <1>5, <2>3, <3>2, VerifiedUpstream DEF Chained, Same
    <3>4. [made EXCEPT ![s] = r]["readiness"] = r /\ [made EXCEPT ![s] = r]["recommendation"] = made["recommendation"]
      BY <1>1, <2>3 DEF IsLocals, Stages
    <3>5. Derived(s, [made EXCEPT ![s] = r])
      BY <2>3, <3>2, <3>4 DEF Derived
    <3> QED
      BY <1>1, <1>2, <2>1, <2>3, <3>1, <3>3, <3>5, ConstructStep
  <2>4. CASE s = "feasibility"
    <3> DEFINE r == [of |-> made["environment"], under |-> Heads("environment")]
    <3>1. R = {r}
      BY <2>4 DEF Product
    <3>2. r.of = made["environment"] /\ r.under = Heads("environment") /\ r = [of |-> r.of, under |-> r.under]
      OBVIOUS
    <3> HIDE DEF R, r
    <3>3. made["environment"] \in records["environment"] /\ Readable("environment") /\ snapshots["environment"] # {}
      BY <1>5, <2>4, VerifiedUpstream
    <3>4. /\ \E n \in snapshots["environment"] : r.under = {n}
          /\ \A x \in Held(s) \union R : x.under = r.under
      BY <2>4, <3>1, <3>2, <3>3, UnderTheHead DEF Stages
    <3>5. FeasibilityReady(r)
      <4>1. made["environment"].of.of = made["readiness"] /\ ReadinessReady(made["readiness"]) /\ EnvironmentReady(made["environment"])
        BY <1>1, <2>4 DEF Working, Derived
      <4> QED
        BY <3>2, <4>1 DEF FeasibilityReady
    <3>6. Chained(s, r, records, snapshots, evidence)
      BY <2>4, <3>2, <3>3, <3>4, <3>5 DEF Chained
    <3>7. \A x \in Held(s) \union R : Same(s, x, r)
      BY <2>4, <3>4 DEF Same
    <3>8. [made EXCEPT ![s] = r]["feasibility"] = r /\ [made EXCEPT ![s] = r]["environment"] = made["environment"]
      BY <1>1, <2>4 DEF IsLocals, Stages
    <3>9. Derived(s, [made EXCEPT ![s] = r])
      BY <2>4, <3>2, <3>8 DEF Derived
    <3> QED
      BY <1>1, <1>2, <2>1, <2>4, <3>1, <3>6, <3>7, <3>9, ConstructStep
  <2>5. CASE s = "package"
    <3> DEFINE r == [of |-> made["feasibility"], under |-> Heads("feasibility")]
    <3>1. R = {r}
      BY <2>5 DEF Product
    <3>2. r.of = made["feasibility"] /\ r.under = Heads("feasibility") /\ r = [of |-> r.of, under |-> r.under]
      OBVIOUS
    <3> HIDE DEF R, r
    <3>3. made["feasibility"] \in records["feasibility"] /\ Readable("feasibility") /\ snapshots["feasibility"] # {}
      BY <1>5, <2>5, VerifiedUpstream
    <3>4. /\ \E n \in snapshots["feasibility"] : r.under = {n}
          /\ \A x \in Held(s) \union R : x.under = r.under
      BY <2>5, <3>1, <3>2, <3>3, UnderTheHead DEF Stages
    <3>5. Chained(s, r, records, snapshots, evidence)
      BY <2>5, <3>2, <3>3, <3>4 DEF Chained
    <3>6. \A x \in Held(s) \union R : Same(s, x, r)
      BY <2>5, <3>4 DEF Same
    <3>7. [made EXCEPT ![s] = r]["package"] = r /\ [made EXCEPT ![s] = r]["feasibility"] = made["feasibility"]
      BY <1>1, <2>5 DEF IsLocals, Stages
    <3>8. Derived(s, [made EXCEPT ![s] = r])
      BY <2>5, <3>2, <3>7 DEF Derived
    <3> QED
      BY <1>1, <1>2, <2>1, <2>5, <3>1, <3>5, <3>6, <3>8, ConstructStep
  <2> QED
    BY <1>2, <1>5, <2>2, <2>3, <2>4, <2>5 DEF Stages
<1> QED
  BY <1>3, <1>4, <1>5

\* The evidence weighed is the only one of its readiness, so that no second environment
\* of the readiness can be: what is of a readiness is of evidence of it.
LEMMA WeighStep ==
  ASSUME StartupInv, NEW p \in Starts, Weigh(p)
  PROVE  StartupInv'
<1> DEFINE s == run[p].stage
           made == run[p].made
<1>1. /\ IsLocals(run[p]) /\ Working(run[p], records, snapshots, evidence)
      /\ run[p].step = "weigh" /\ run[p].step \notin Resting /\ UNCHANGED <<records, snapshots, evidence, ran>>
  BY DEF Weigh, StartupInv, Shapes, Resting
<1>2. s = "environment" /\ made["readiness"] \in records["readiness"]
  BY <1>1 DEF Working
<1>3. CASE ~\E e \in evidence : Weighed(p, e)
  <2>1. Become(p, "refused")
    BY <1>3 DEF Weigh
  <2> QED
    BY <1>1, <2>1, OverStep DEF Over
<1>4. CASE \E e \in evidence : Weighed(p, e)
  <2>1. PICK e \in evidence : Weighed(p, e) /\ Construct(p, {[of |-> e, under |-> run[p].snapshot]})
    BY <1>4 DEF Weigh
  <2> DEFINE r == [of |-> e, under |-> run[p].snapshot]
  <2>2. r.of = e /\ e.of = made["readiness"] /\ \A f \in evidence : f.of = made["readiness"] => f = e
    BY <2>1 DEF Weighed
  <2>3. r = [of |-> r.of, under |-> r.of.under]
    BY <2>1 DEF Weighed
  <2>4. Construct(p, {r})
    BY <2>1
  <2> HIDE DEF r
  <2>5. Chained(s, r, records, snapshots, evidence)
    BY <1>2, <2>2, <2>3 DEF Chained
  <2>6. ASSUME NEW x \in Held("environment") \union {r} PROVE Same(s, x, r)
    <3>1. Chained("environment", x, records, snapshots, evidence)
      BY <1>2, <2>5, HeldChained DEF Stages
    <3>2. x = [of |-> x.of, under |-> x.of.under] /\ x.of \in evidence
      BY <3>1 DEF Chained
    <3>3. x.of.of = r.of.of => x = r
      BY <2>2, <2>3, <3>2
    <3> QED
      BY <1>2, <3>3 DEF Same
  <2>7. [made EXCEPT ![s] = r]["environment"] = r /\ [made EXCEPT ![s] = r]["readiness"] = made["readiness"]
    BY <1>1, <1>2 DEF IsLocals, Stages
  <2>8. Derived(s, [made EXCEPT ![s] = r])
    BY <1>2, <2>2, <2>7 DEF Derived
  <2> QED
    BY <1>1, <1>2, <2>4, <2>5, <2>6, <2>8, ConstructStep DEF Stages
<1> QED
  BY <1>3, <1>4

LEMMA SaveStep ==
  ASSUME StartupInv, NEW p \in Starts, Save(p)
  PROVE  StartupInv'
<1> DEFINE s == run[p].stage
           r == CHOOSE x \in run[p].todo : TRUE
           L == run'[p]
<1>1. /\ IsLocals(run[p]) /\ run = [q \in Starts |-> run[q]] /\ Working(run[p], records, snapshots, evidence)
      /\ run[p].step = "save" /\ UNCHANGED <<snapshots, evidence, ran>>
      /\ records' = [records EXCEPT ![s] = @ \union {r}] /\ run' = [run EXCEPT ![p].todo = @ \ {r}]
      /\ r \in run[p].todo
  BY DEF Save, StartupInv, Shapes
<1> HIDE DEF r
<1>2. s \in Stages
  BY <1>1 DEF Working, Resting
<1>3. /\ run' = [run EXCEPT ![p] = L] /\ IsLocals(L)
      /\ L.step = "save" /\ L.stage = s /\ L.todo = run[p].todo \ {r} /\ L.made = run[p].made
  BY <1>1 DEF IsLocals, Fields
<1> HIDE DEF L
<1>4. /\ records = [u \in Stages |-> records[u]] /\ snapshots = [u \in Stages |-> snapshots[u]]
      /\ records' = [u \in Stages |-> records'[u]] /\ snapshots' = [u \in Stages |-> snapshots'[u]]
      /\ records'[s] = records[s] \union {r} /\ \A u \in Stages \ {s} : records'[u] = records[u]
  BY <1>1, <1>2 DEF StartupInv, Shapes
<1>5. Grown(records, snapshots, evidence, records', snapshots', evidence')
  BY <1>1, <1>4 DEF Grown
<1>6. Working(run[p], records', snapshots', evidence')
  BY <1>1, <1>5, WorkingGrows
<1>7. Working(L, records', snapshots', evidence')
  <2>1. \A x \in L.todo : Chained(s, x, records', snapshots', evidence')
    BY <1>3, <1>6 DEF Working
  <2>2. /\ s = "recommendation" => Intelligences \subseteq records'[s] \union L.todo
        /\ s # "recommendation" => L.made[s] \in records'[s] \union L.todo
    BY <1>1, <1>3, <1>4 DEF Working
  <2>3. /\ Derived(s, L.made)
        /\ s \in {"environment", "feasibility"} => Derived("readiness", L.made) /\ ReadinessReady(L.made["readiness"])
        /\ s = "feasibility" => Derived("environment", L.made) /\ EnvironmentReady(L.made["environment"])
    BY <1>1, <1>3 DEF Working, Resting, Saving
  <2> HIDE DEF s
  <2> QED
    BY <1>2, <1>3, <2>1, <2>2, <2>3 DEF Working, Resting
<1>8. \A u \in Stages : \A x \in records'[u] : x \in records[u] \/ (u = s /\ x \in run[p].todo)
  BY <1>1, <1>4
<1>9. \A x \in L.todo : L.stage = run[p].stage /\ x \in run[p].todo
  BY <1>3
<1> QED
  BY <1>1, <1>3, <1>4, <1>5, <1>7, <1>8, <1>9, StepFrame

LEMMA IdentifyStep ==
  ASSUME StartupInv, NEW p \in Starts, Identify(p)
  PROVE  StartupInv'
<1> DEFINE s == run[p].stage
           L == run'[p]
<1>1. /\ IsLocals(run[p]) /\ run = [q \in Starts |-> run[q]] /\ Working(run[p], records, snapshots, evidence)
      /\ run[p].step = "save" /\ run[p].todo = {} /\ UNCHANGED <<records, snapshots, evidence, ran>>
      /\ run' = [run EXCEPT ![p].step = "head", ![p].ids = records[s]]
  BY DEF Identify, StartupInv, Shapes
<1>2. s \in Stages
  BY <1>1 DEF Working, Resting
<1>3. /\ run' = [run EXCEPT ![p] = L] /\ IsLocals(L)
      /\ L.step = "head" /\ L.stage = s /\ L.todo = {} /\ L.made = run[p].made /\ L.ids = records[s]
  BY <1>1 DEF IsLocals, Fields
<1> HIDE DEF L
<1>4. records["recommendation"] \subseteq Intelligences
  BY DEF StartupInv, Chained, Stages
<1>5. /\ s = "recommendation" => L.ids = Intelligences
      /\ s # "recommendation" => L.made[s] \in L.ids
  BY <1>1, <1>3, <1>4 DEF Working
<1>6. /\ Derived(s, L.made)
      /\ s \in {"environment", "feasibility"} => Derived("readiness", L.made) /\ ReadinessReady(L.made["readiness"])
      /\ s = "feasibility" => Derived("environment", L.made) /\ EnvironmentReady(L.made["environment"])
  BY <1>1, <1>3 DEF Working, Resting, Saving
<1>7. Working(L, records, snapshots, evidence)
  <2> HIDE DEF s
  <2> QED
    BY <1>2, <1>3, <1>5, <1>6 DEF Working, Resting
<1> QED
  BY <1>1, <1>3, <1>7, LocalStep

\* What the engine reports is ready before the next stage begins.
LEMMA ReportWorks ==
  ASSUME StartupInv, NEW p \in Starts, NEW n, Report(p, n), run[p].step \in {"head", "link"}
  PROVE  /\ run' = [run EXCEPT ![p] = run'[p]] /\ IsLocals(run'[p]) /\ run'[p].todo = {}
         /\ Working(run'[p], records, snapshots, evidence)
<1> DEFINE s == run[p].stage
           L == run'[p]
           step == CASE s = "readiness" -> "lineage" [] s = "package" -> "load" [] OTHER -> "verify"
           next == CASE s = "recommendation" -> "readiness" [] s = "readiness" -> "environment"
                     [] s = "environment" -> "feasibility" [] OTHER -> "package"
<1>1. /\ IsLocals(run[p]) /\ run = [q \in Starts |-> run[q]] /\ Working(run[p], records, snapshots, evidence)
      /\ run[p].todo = {}
  BY DEF StartupInv, Shapes, Working
<1>2. s \in Stages /\ Derived(s, run[p].made)
  BY <1>1 DEF Working, Resting, Saving
<1>3. CASE ~Ready(p)
  <2>1. run' = [run EXCEPT ![p] = [New EXCEPT !.step = "refused"]]
    BY <1>3 DEF Report, Become, Over
  <2>2. L = [New EXCEPT !.step = "refused"]
    BY <1>1, <2>1
  <2> HIDE DEF L
  <2>3. IsLocals(L) /\ Working(L, records, snapshots, evidence) /\ L.todo = {}
    BY <2>2, NewWorks
  <2> QED
    BY <2>1, <2>2, <2>3 DEF L
<1>4. CASE Ready(p)
  <2>1. run' = [run EXCEPT ![p].step = step, ![p].stage = next, ![p].snapshot = n, ![p].ids = {}]
    BY <1>4 DEF Report
  <2>2. step \in {"lineage", "load", "verify"} /\ next \in Stages
    BY DEF Stages
  <2>3. /\ next = "environment" => s = "readiness"
        /\ next = "feasibility" => s = "environment"
    BY <1>2 DEF Stages
  <2> HIDE DEF step, next
  <2>4. /\ run' = [run EXCEPT ![p] = L] /\ IsLocals(L)
        /\ L.step = step /\ L.stage = next /\ L.todo = {} /\ L.made = run[p].made
    BY <1>1, <2>1 DEF IsLocals, Fields
  <2> HIDE DEF L
  <2>5. next = "environment" => Derived("readiness", L.made) /\ ReadinessReady(L.made["readiness"])
    BY <1>2, <1>4, <2>3, <2>4 DEF Ready
  <2>6. next = "feasibility" =>
          /\ Derived("readiness", L.made) /\ ReadinessReady(L.made["readiness"])
          /\ Derived("environment", L.made) /\ EnvironmentReady(L.made["environment"])
    <3>1. s = "environment" => Derived("readiness", L.made) /\ ReadinessReady(L.made["readiness"])
      BY <1>1, <2>4 DEF Working, Resting
    <3>2. s = "environment" => EnvironmentReady(L.made["environment"])
      BY <1>4, <2>4 DEF Ready
    <3> QED
      BY <1>2, <2>3, <2>4, <3>1, <3>2
  <2>7. Working(L, records, snapshots, evidence)
    BY <2>2, <2>4, <2>5, <2>6 DEF Working, Resting, Saving
  <2> QED
    BY <2>4, <2>7 DEF L
<1> QED
  BY <1>3, <1>4

LEMMA ReadHeadStep ==
  ASSUME StartupInv, NEW p \in Starts, ReadHead(p)
  PROVE  StartupInv'
<1> DEFINE s == run[p].stage
<1>1. /\ IsLocals(run[p]) /\ run = [q \in Starts |-> run[q]] /\ Working(run[p], records, snapshots, evidence)
      /\ run[p].step = "head" /\ UNCHANGED <<records, snapshots, evidence, ran>> /\ run[p].todo = {}
  BY DEF ReadHead, StartupInv, Shapes, Working
<1>2. s \in Stages
  BY <1>1 DEF Working, Resting
<1>3. CASE ~Readable(s)
  <2>1. Become(p, "refused")
    BY <1>3 DEF ReadHead
  <2> QED
    BY <1>1, <2>1, OverStep DEF Over
<1>4. CASE Readable(s) /\ Reuses(Heads(s), run[p].ids)
  <2>1. Report(p, Heads(s))
    BY <1>4 DEF ReadHead
  <2> QED
    BY <1>1, <2>1, ReportWorks, LocalStep
<1>5. CASE Readable(s) /\ ~Reuses(Heads(s), run[p].ids)
  <2> DEFINE L == run'[p]
  <2>1. run' = [run EXCEPT ![p].step = "link", ![p].snapshot = Heads(s)]
    BY <1>5 DEF ReadHead
  <2>2. /\ run' = [run EXCEPT ![p] = L] /\ IsLocals(L)
        /\ L.step = "link" /\ L.stage = s /\ L.todo = {} /\ L.made = run[p].made /\ L.ids = run[p].ids
        /\ L.snapshot = Heads(s)
    BY <1>1, <2>1 DEF IsLocals, Fields
  <2> HIDE DEF L
  <2>3. (\A m \in Heads(s) : m.previous = {}) /\ (Heads(s) = {} \/ run[p].ids # records[s])
    <3>1. CASE snapshots[s] = {}
      BY <3>1 DEF Heads
    <3>2. CASE snapshots[s] # {}
      <4>1. PICK n \in snapshots[s] : Heads(s) = {n} /\ n.ids = records[s] /\ n.previous = {}
        BY <1>2, <1>5, <3>2, SingleSnapshot DEF StartupInv
      <4> QED
        BY <1>5, <4>1 DEF Reuses
    <3> QED
      BY <3>1, <3>2
  <2>4. /\ L.ids \subseteq records[s]
        /\ s = "recommendation" => L.ids = Intelligences
        /\ s # "recommendation" => L.made[s] \in L.ids
    BY <1>1, <2>2 DEF Working
  <2>5. /\ Derived(s, L.made)
        /\ s \in {"environment", "feasibility"} => Derived("readiness", L.made) /\ ReadinessReady(L.made["readiness"])
        /\ s = "feasibility" => Derived("environment", L.made) /\ EnvironmentReady(L.made["environment"])
    BY <1>1, <2>2 DEF Working, Resting, Saving
  <2>6. (\A m \in L.snapshot : m.previous = {}) /\ (L.snapshot = {} \/ L.ids # records[s])
    BY <2>2, <2>3
  <2>7. Working(L, records, snapshots, evidence)
    <3> HIDE DEF s
    <3> QED
      BY <1>2, <2>2, <2>4, <2>5, <2>6 DEF Working, Resting
  <2> QED
    BY <1>1, <2>2, <2>7, LocalStep
<1> QED
  BY <1>3, <1>4, <1>5

\* A snapshot with a predecessor leaves out a record that is already on file.
LEMMA LinkStep ==
  ASSUME StartupInv, NEW p \in Starts, Link(p)
  PROVE  StartupInv'
<1> DEFINE s == run[p].stage
           made == run[p].made
           n == Snapshot(p)
           L == run'[p]
<1>1. /\ IsLocals(run[p]) /\ Working(run[p], records, snapshots, evidence)
      /\ run[p].step = "link" /\ UNCHANGED <<records, evidence, ran>>
      /\ snapshots' = [snapshots EXCEPT ![s] = @ \union {n}] /\ Report(p, {n})
  BY DEF Link, StartupInv, Shapes
<1>2. s \in Stages /\ Derived(s, made)
  BY <1>1 DEF Working, Resting, Saving
<1>3. /\ run' = [run EXCEPT ![p] = L] /\ IsLocals(L) /\ L.todo = {}
      /\ Working(L, records, snapshots, evidence)
  BY <1>1, ReportWorks
<1>4. n.ids = run[p].ids /\ n.previous = run[p].snapshot /\ n.at = GeneratedAt(p)
      /\ n = [ids |-> n.ids, previous |-> n.previous, at |-> n.at]
  BY DEF Snapshot
<1> HIDE DEF n, L
<1>5. s = "recommendation" => n.at = None
  BY <1>4 DEF GeneratedAt
<1>6. s # "recommendation" => n.at = At(s, made[s])
  <2>1. CASE s = "readiness"
    BY <1>2, <1>4, <2>1 DEF GeneratedAt, At, Derived
  <2>2. CASE s = "environment"
    <3>1. Derived("readiness", made)
      BY <1>1, <2>2 DEF Working, Resting
    <3> QED
      BY <1>2, <1>4, <2>2, <3>1 DEF GeneratedAt, At, Derived
  <2>3. CASE s = "feasibility"
    BY <1>2, <1>4, <2>3 DEF GeneratedAt, At, Derived
  <2>4. CASE s = "package"
    BY <1>2, <1>4, <2>4 DEF GeneratedAt, At, Derived
  <2> QED
    BY <1>2, <2>1, <2>2, <2>3, <2>4 DEF Stages
<1>7. Linked(s, n, records)
  <2>1. /\ n.ids \subseteq records[s] /\ (n.previous = {} \/ n.ids # records[s])
        /\ (\A m \in n.previous : m.previous = {}) /\ (s = "recommendation" => n.ids = Intelligences)
        /\ (s # "recommendation" => made[s] \in n.ids)
    BY <1>1, <1>4 DEF Working
  <2> QED
    BY <1>4, <1>5, <1>6, <2>1 DEF Linked
<1>8. /\ records = [u \in Stages |-> records[u]] /\ snapshots = [u \in Stages |-> snapshots[u]]
      /\ records' = [u \in Stages |-> records'[u]] /\ snapshots' = [u \in Stages |-> snapshots'[u]]
      /\ snapshots'[s] = snapshots[s] \union {n} /\ \A u \in Stages \ {s} : snapshots'[u] = snapshots[u]
  BY <1>1, <1>2 DEF StartupInv, Shapes
<1>9. Grown(records, snapshots, evidence, records', snapshots', evidence')
  BY <1>1, <1>8 DEF Grown
<1>10. Working(L, records', snapshots', evidence')
  BY <1>3, <1>9, WorkingGrows
<1>11. \A u \in Stages : \A m \in snapshots'[u] : m \in snapshots[u] \/ Linked(u, m, records')
  BY <1>1, <1>7, <1>8
<1> QED
  BY <1>1, <1>3, <1>8, <1>9, <1>10, <1>11, StepFrame

\* The steps at which a command moves on by itself.
LEMMA OtherSteps ==
  ASSUME StartupInv, NEW p \in Starts,
         SaveActivation(p) \/ ExactSnapshot(p) \/ SaveEvidence(p) \/ Load(p) \/ Die(p)
  PROVE  StartupInv'
<1>1. /\ IsLocals(run[p]) /\ run = [q \in Starts |-> run[q]] /\ Working(run[p], records, snapshots, evidence)
      /\ UNCHANGED <<records, snapshots>>
  BY DEF StartupInv, Shapes, SaveActivation, ExactSnapshot, SaveEvidence, Load, Die
<1>2. CASE \E step \in Over : Become(p, step) /\ UNCHANGED <<evidence, ran>>
  BY <1>1, <1>2, OverStep
<1>3. CASE \E step \in {"evidence", "verify"} : Become(p, step) /\ evidence \subseteq evidence' /\ UNCHANGED ran
                                           /\ run[p].step \in {"lineage", "evidence"}
  <2>1. PICK step \in {"evidence", "verify"} : Become(p, step)
    BY <1>3
  <2> DEFINE L == run'[p]
  <2>2. run' = [run EXCEPT ![p] = [@ EXCEPT !.step = step]]
    BY <2>1 DEF Become, Over
  <2>3. run[p].todo = {} /\ run[p].step \notin Resting
    BY <1>1, <1>3 DEF Working, Resting
  <2>4. /\ run' = [run EXCEPT ![p] = L] /\ IsLocals(L)
        /\ L.step = step /\ L.stage = run[p].stage /\ L.todo = {} /\ L.made = run[p].made
    BY <1>1, <2>2, <2>3 DEF IsLocals, Fields
  <2> HIDE DEF L
  <2>5. /\ L.stage \in Stages
        /\ L.stage \in {"environment", "feasibility"} => Derived("readiness", L.made) /\ ReadinessReady(L.made["readiness"])
        /\ L.stage = "feasibility" => Derived("environment", L.made) /\ EnvironmentReady(L.made["environment"])
    BY <1>1, <2>3, <2>4 DEF Working
  <2>6. Working(L, records, snapshots, evidence')
    BY <2>4, <2>5 DEF Working, Resting, Saving
  <2> QED
    BY <1>1, <1>3, <2>4, <2>6, LocalStep
<1>4. CASE Load(p)
  <2>1. \E step \in Over : Become(p, step)
    BY <1>4 DEF Load, Over
  <2>2. \A x \in ran' : x \in ran \/ x.package \in records["package"]
    BY <1>4 DEF Load
  <2> QED
    BY <1>1, <1>4, <2>1, <2>2, OverStep DEF Load
<1>5. CASE SaveActivation(p)
  BY <1>2, <1>5 DEF SaveActivation, Over
<1>6. CASE ExactSnapshot(p)
  BY <1>2, <1>3, <1>6 DEF ExactSnapshot, Over
<1>7. CASE SaveEvidence(p)
  BY <1>3, <1>7 DEF SaveEvidence
<1>8. CASE Die(p)
  BY <1>2, <1>8 DEF Die, Over
<1> QED
  BY <1>4, <1>5, <1>6, <1>7, <1>8

LEMMA StartupStarts == StartupInit => StartupInv
<1> SUFFICES ASSUME StartupInit PROVE StartupInv
  OBVIOUS
<1>1. IsLocals(New) /\ New.todo = {} /\ New.step = "new"
  BY DEF IsLocals, Fields, New
<1>2. Shapes
  BY <1>1 DEF StartupInit, Shapes
<1>3. \A p \in Starts : Working(run[p], records, snapshots, evidence)
  BY <1>1 DEF StartupInit, Working, Resting, Saving
<1>4. \A s \in Stages : Held(s) = {}
  BY <1>1 DEF StartupInit, Held
<1> QED
  BY <1>2, <1>3, <1>4 DEF StartupInit, StartupInv

LEMMA StartupSteps == StartupInv /\ [StartupNext]_svars => StartupInv'
<1> SUFFICES ASSUME StartupInv, [StartupNext]_svars PROVE StartupInv'
  OBVIOUS
<1>1. CASE UNCHANGED svars
  BY <1>1 DEF svars, StartupInv, Shapes, Held
<1>2. ASSUME NEW p \in Starts, Step(p) \/ Die(p) PROVE StartupInv'
  BY <1>2, BeginSteps, VerifyStep, WeighStep, SaveStep, IdentifyStep, ReadHeadStep, LinkStep, OtherSteps DEF Step
<1> QED
  BY <1>1, <1>2 DEF StartupNext

LEMMA StartupAlways == StartupSpec => []StartupInv
BY StartupStarts, StartupSteps, PTL DEF StartupSpec

\* Whatever runs, runs with a package on record, and what a record on file is of is on file.
THEOREM ReadyOnly == StartupSpec => []RunsOnlyReady
<1>1. ASSUME StartupInv PROVE RunsOnlyReady
  <2> SUFFICES ASSUME NEW x \in ran
               PROVE  LET f == x.package.of IN
                        /\ x.package \in records["package"] /\ f \in records["feasibility"]
                        /\ f.of \in records["environment"] /\ f.of.of \in evidence
                        /\ f.of.of.of \in records["readiness"] /\ f.of.of.of.of \in records["recommendation"]
                        /\ FeasibilityReady(f)
    BY DEF RunsOnlyReady
  <2> DEFINE f == x.package.of
  <2>1. \A s \in Stages : \A r \in records[s] : Chained(s, r, records, snapshots, evidence)
    BY <1>1 DEF StartupInv
  <2>2. x.package \in records["package"] /\ f \in records["feasibility"]
    BY <1>1, <2>1 DEF StartupInv, Chained, Stages
  <2>3. f.of \in records["environment"] /\ FeasibilityReady(f)
    BY <2>1, <2>2 DEF Chained, Stages
  <2>4. f.of.of \in evidence /\ f.of.of.of \in records["readiness"]
    BY <2>1, <2>3 DEF Chained, Stages
  <2>5. f.of.of.of.of \in records["recommendation"]
    BY <2>1, <2>4 DEF Chained, Stages
  <2> QED
    BY <2>2, <2>3, <2>4, <2>5
<1> QED
  BY <1>1, StartupAlways, PTL

\* One environment of a readiness is one feasibility and one package, for all of them
\* are under the same snapshot.
LEMMA OneOfEach == ASSUME StartupInv PROVE OnePackage
<1>1. \A s \in Stages : \A r \in records[s] : Chained(s, r, records, snapshots, evidence)
  BY DEF StartupInv
<1>2. \A s \in Stages : \A x, y \in records[s] : Same(s, x, y)
  BY DEF StartupInv, Held
<1>3. \A v, w \in records["environment"] : v.of.of = w.of.of => v = w
  BY <1>2 DEF Same, Stages
<1>4. ASSUME NEW f \in records["feasibility"], NEW g \in records["feasibility"], f.of.of.of = g.of.of.of
      PROVE  f = g
  <2>1. /\ f = [of |-> f.of, under |-> f.under] /\ g = [of |-> g.of, under |-> g.under]
        /\ f.of \in records["environment"] /\ g.of \in records["environment"]
    BY <1>1 DEF Chained, Stages
  <2>2. f.under = g.under
    BY <1>2 DEF Same, Stages
  <2>3. f.of = g.of
    BY <1>3, <1>4, <2>1
  <2> QED
    BY <2>1, <2>2, <2>3
<1>5. ASSUME NEW x \in records["package"], NEW y \in records["package"], x.of.of.of.of = y.of.of.of.of
      PROVE  x = y
  <2>1. /\ x = [of |-> x.of, under |-> x.under] /\ y = [of |-> y.of, under |-> y.under]
        /\ x.of \in records["feasibility"] /\ y.of \in records["feasibility"]
    BY <1>1 DEF Chained, Stages
  <2>2. x.under = y.under
    BY <1>2 DEF Same, Stages
  <2>3. x.of = y.of
    BY <1>4, <1>5, <2>1
  <2> QED
    BY <2>1, <2>2, <2>3
<1> QED
  BY <1>3, <1>4, <1>5 DEF OnePackage

\* One readiness makes one evidence that may pass, and so one environment, one feasibility
\* and one package, though any number of commands derive them at the same time.
THEOREM PackagesAreOne == StartupSpec => []OnePackage
BY OneOfEach, StartupAlways, PTL

\* With one readiness every repository holds one record, or those of all intelligences,
\* so that all its snapshots name the same, at the same time, and are one.
THEOREM NeverUnreadable == StartupSpec => []StaysReadable
<1>1. ASSUME StartupInv PROVE StaysReadable
  <2> SUFFICES ASSUME \A d, e \in records["readiness"] : d = e, NEW s \in Stages, snapshots[s] # {}
               PROVE  Readable(s)
    BY DEF StaysReadable, Readable
  <2>1. \A u \in Stages : \A r \in records[u] : Chained(u, r, records, snapshots, evidence)
    BY <1>1 DEF StartupInv
  <2>2. \A n \in snapshots[s] : Linked(s, n, records)
    BY <1>1 DEF StartupInv
  <2>3. s # "recommendation" => \A x, y \in records[s] : x = y
    <3>1. \A v \in records["environment"] : v.of.of \in records["readiness"]
      BY <2>1 DEF Chained, Stages
    <3>2. \A f \in records["feasibility"] : f.of.of.of \in records["readiness"]
      BY <2>1, <3>1 DEF Chained, Stages
    <3>3. \A x \in records["package"] : x.of.of.of.of \in records["readiness"]
      BY <2>1, <3>2 DEF Chained, Stages
    <3> QED
      BY <1>1, <3>1, <3>2, <3>3, OneOfEach DEF OnePackage, Stages
  <2>4. ASSUME NEW n \in snapshots[s] PROVE n.ids = records[s] /\ n.previous = {}
    <3>1. CASE s = "recommendation"
      <4>1. records[s] \subseteq Intelligences
        BY <2>1, <3>1 DEF Chained
      <4>2. n.ids = Intelligences /\ n.ids \subseteq records[s]
        BY <2>2, <3>1 DEF Linked
      <4>3. n.ids = records[s]
        BY <4>1, <4>2
      <4> QED
        BY <2>2, <4>3 DEF Linked
    <3>2. CASE s # "recommendation"
      <4>1. n.ids \subseteq records[s] /\ n.ids # {}
        BY <2>2, <3>2 DEF Linked
      <4>2. n.ids = records[s]
        BY <2>3, <3>2, <4>1
      <4> QED
        BY <2>2, <4>2 DEF Linked
    <3> QED
      BY <3>1, <3>2
  <2>5. ASSUME NEW n \in snapshots[s], NEW m \in snapshots[s] PROVE n = m
    <3>1. n.at = m.at
      <4>1. CASE s = "recommendation"
        BY <2>2, <4>1 DEF Linked
      <4>2. CASE s # "recommendation"
        <5>1. (\E r \in records[s] : n.at = At(s, r)) /\ (\E r \in records[s] : m.at = At(s, r))
          BY <2>2, <2>4, <4>2 DEF Linked
        <5> QED
          BY <2>3, <4>2, <5>1
      <4> QED
        BY <4>1, <4>2
    <3>2. n = [ids |-> n.ids, previous |-> n.previous, at |-> n.at] /\ m = [ids |-> m.ids, previous |-> m.previous, at |-> m.at]
      BY <2>2 DEF Linked
    <3> QED
      BY <2>4, <3>1, <3>2
  <2>6. PICK n : snapshots[s] = {n}
    BY <2>5
  <2>7. Heads(s) = {n} /\ n.ids = records[s]
    BY <2>4, <2>6 DEF Heads
  <2> QED
    BY <2>7 DEF Readable
<1> QED
  BY <1>1, StartupAlways, PTL

-----------------------------------------------------------------------------
(* ProductionStartup: what a command that derives the chain has before it.   *)

\* Who is before the package derives the chain; an operator may name the rest of it.
Commanded(L) ==
  /\ L.step \notin Resting /\ L.stage # "package" => L.command \in {"startup", "initialize"}
  /\ L.step \in {"lineage", "evidence"} => L.stage = "environment"

\* What came before the stage of a command is on file and under a snapshot; only who
\* names a recommendation may do so before there is a snapshot of it.
Prepared(L, R, S, E) == Commanded(L) /\
  (L.step \notin Resting /\ L.command \in {"startup", "initialize"} =>
    /\ L.stage = "recommendation" => L.made["recommendation"] \in Intelligences
    /\ L.stage = "readiness" => /\ L.made["recommendation"] \in R["recommendation"]
                                /\ L.command = "startup" => S["recommendation"] # {}
    /\ L.stage \in {"environment", "feasibility", "package"} =>
         L.made["readiness"] \in R["readiness"] /\ S["readiness"] # {} /\ Derived("readiness", L.made)
    /\ L.stage = "environment" =>
         IF L.step \in {"lineage", "evidence"}
         THEN \E n \in S["readiness"] : L.snapshot = {n}
         ELSE \E e \in E : e.of = L.made["readiness"] /\ e.capture = L.capture
    /\ L.step = "weigh" => \E n \in S["readiness"] : L.snapshot = {n}
    /\ L.stage \in {"feasibility", "package"} =>
         L.made["environment"] \in R["environment"] /\ S["environment"] # {} /\ Derived("environment", L.made)
    /\ L.stage = "package" =>
         L.made["feasibility"] \in R["feasibility"] /\ S["feasibility"] # {} /\ Derived("feasibility", L.made)
    /\ L.step = "load" => L.made["package"] \in R["package"])

PreparedInv ==
  /\ activated \subseteq Approvals
  /\ \A p \in Starts : run[p].step = "activate" => run[p].approval \in Approvals
  /\ \A e \in evidence : \E n \in snapshots["readiness"] : e.under = {n}
  /\ \A p \in Starts : Prepared(run[p], records, snapshots, evidence)

LEMMA PreparedGrows ==
  ASSUME NEW R, NEW S, NEW E, NEW R2, NEW S2, NEW E2, Grown(R, S, E, R2, S2, E2),
         NEW L, Prepared(L, R, S, E)
  PROVE  Prepared(L, R2, S2, E2)
<1>1. /\ R["recommendation"] \subseteq R2["recommendation"] /\ R["readiness"] \subseteq R2["readiness"]
      /\ R["environment"] \subseteq R2["environment"] /\ R["feasibility"] \subseteq R2["feasibility"]
      /\ R["package"] \subseteq R2["package"] /\ E \subseteq E2
      /\ S["recommendation"] \subseteq S2["recommendation"] /\ S["readiness"] \subseteq S2["readiness"]
      /\ S["environment"] \subseteq S2["environment"] /\ S["feasibility"] \subseteq S2["feasibility"]
  BY DEF Grown, Stages
<1> QED
  BY <1>1 DEF Prepared

\* A command within its stage, which has changed nothing but what it made there.
LEMMA PreparedStays ==
  ASSUME NEW R, NEW S, NEW E, NEW K, NEW L, Prepared(K, R, S, E),
         K.step \notin Resting, L.step \in Saving, K.step \notin {"lineage", "evidence", "load"},
         L.stage = K.stage, L.command = K.command, L.capture = K.capture,
         \A u \in Stages : u # K.stage \/ u = "recommendation" => L.made[u] = K.made[u]
  PROVE  Prepared(L, R, S, E)
<1>0. Commanded(L)
  BY DEF Prepared, Commanded, Saving
<1> SUFFICES ASSUME K.command \in {"startup", "initialize"} PROVE Prepared(L, R, S, E)
  BY <1>0 DEF Prepared
<1>1. K.stage # "recommendation" \/ L.made["recommendation"] = K.made["recommendation"]
  BY DEF Stages
<1>2. /\ L.made["recommendation"] = K.made["recommendation"]
      /\ K.stage # "readiness" => L.made["readiness"] = K.made["readiness"]
      /\ K.stage # "environment" => L.made["environment"] = K.made["environment"]
      /\ K.stage # "feasibility" => L.made["feasibility"] = K.made["feasibility"]
  BY DEF Stages
<1>3. L.step \notin {"lineage", "evidence", "weigh", "load"}
  BY DEF Saving
<1> QED
  BY <1>0, <1>2, <1>3 DEF Prepared, Derived

\* The next stage has what this one reports, whichever snapshots S2 there are since.
LEMMA ReportPrepares ==
  ASSUME StartupInv, PreparedInv, NEW p \in Starts, NEW n, Report(p, n), run[p].step \in {"head", "link"},
         NEW S2, \A s \in Stages : snapshots[s] \subseteq S2[s], NEW h \in S2[run[p].stage], n = {h}
  PROVE  Prepared(run'[p], records, S2, evidence)
<1> DEFINE s == run[p].stage
           made == run[p].made
           L == run'[p]
           step == CASE s = "readiness" -> "lineage" [] s = "package" -> "load" [] OTHER -> "verify"
           next == CASE s = "recommendation" -> "readiness" [] s = "readiness" -> "environment"
                     [] s = "environment" -> "feasibility" [] OTHER -> "package"
<1>1. /\ IsLocals(run[p]) /\ run = [q \in Starts |-> run[q]] /\ Working(run[p], records, snapshots, evidence)
      /\ Grown(records, snapshots, evidence, records, S2, evidence) /\ run[p].step \notin Resting
  BY DEF StartupInv, Shapes, Grown, Resting
<1>2. Prepared(run[p], records, S2, evidence)
  BY <1>1, PreparedGrows DEF PreparedInv
<1>3. s \in Stages /\ Derived(s, made) /\ run[p].ids \subseteq records[s]
      /\ (s = "recommendation" => run[p].ids = Intelligences) /\ (s # "recommendation" => made[s] \in run[p].ids)
  BY <1>1 DEF Working, Saving
<1>4. CASE ~Ready(p)
  <2>1. run' = [run EXCEPT ![p] = [New EXCEPT !.step = "refused"]]
    BY <1>4 DEF Report, Become, Over
  <2>2. L.step = "refused"
    BY <1>1, <2>1 DEF New
  <2> QED
    BY <2>2 DEF Prepared, Commanded, Resting
<1>5. CASE Ready(p)
  <2>1. run' = [run EXCEPT ![p].step = step, ![p].stage = next, ![p].snapshot = n, ![p].ids = {}]
    BY <1>5 DEF Report
  <2> HIDE DEF step, next
  <2>2. /\ L.step = step /\ L.stage = next /\ L.made = made /\ L.snapshot = {h}
        /\ L.command = run[p].command /\ L.capture = run[p].capture
    BY <1>1, <2>1 DEF IsLocals, Fields
  <2> HIDE DEF L
  <2>a. (step \in {"lineage", "evidence"} => next = "environment") /\ (next # "package" => s # "package")
    BY DEF step, next
  <2>b. Commanded(L)
    BY <1>1, <1>2, <2>2, <2>a DEF Prepared, Commanded
  <2> SUFFICES ASSUME run[p].command \in {"startup", "initialize"} PROVE Prepared(L, records, S2, evidence)
    BY <2>2, <2>b DEF Prepared, L
  <2>3. CASE s = "recommendation"
    <3>1. step = "verify" /\ next = "readiness"
      BY <2>3 DEF step, next
    <3>2. made["recommendation"] \in records["recommendation"] /\ S2["recommendation"] # {}
      BY <1>1, <1>2, <1>3, <2>3 DEF Prepared
    <3> QED
      BY <2>2, <2>b, <3>1, <3>2 DEF Prepared
  <2>4. CASE s = "readiness"
    <3>1. step = "lineage" /\ next = "environment"
      BY <2>4 DEF step, next
    <3>2. made["readiness"] \in records["readiness"] /\ h \in S2["readiness"] /\ Derived("readiness", made)
      BY <1>3, <2>4
    <3> QED
      BY <2>2, <2>b, <3>1, <3>2 DEF Prepared
  <2>5. CASE s = "environment"
    <3>1. step = "verify" /\ next = "feasibility"
      BY <2>5 DEF step, next
    <3>2. made["environment"] \in records["environment"] /\ h \in S2["environment"] /\ Derived("environment", made)
      BY <1>3, <2>5
    <3>3. made["readiness"] \in records["readiness"] /\ S2["readiness"] # {} /\ Derived("readiness", made)
      BY <1>1, <1>2, <2>5 DEF Prepared
    <3> QED
      BY <2>2, <2>b, <3>1, <3>2, <3>3 DEF Prepared
  <2>6. CASE s = "feasibility"
    <3>1. step = "verify" /\ next = "package"
      BY <2>6 DEF step, next
    <3>2. made["feasibility"] \in records["feasibility"] /\ h \in S2["feasibility"] /\ Derived("feasibility", made)
      BY <1>3, <2>6
    <3>3. /\ made["readiness"] \in records["readiness"] /\ S2["readiness"] # {} /\ Derived("readiness", made)
          /\ made["environment"] \in records["environment"] /\ S2["environment"] # {} /\ Derived("environment", made)
      BY <1>1, <1>2, <2>6 DEF Prepared
    <3> QED
      BY <2>2, <2>b, <3>1, <3>2, <3>3 DEF Prepared
  <2>7. CASE s = "package"
    <3>1. step = "load" /\ next = "package"
      BY <2>7 DEF step, next
    <3>2. made["package"] \in records["package"]
      BY <1>3, <2>7
    <3>3. /\ made["readiness"] \in records["readiness"] /\ S2["readiness"] # {} /\ Derived("readiness", made)
          /\ made["environment"] \in records["environment"] /\ S2["environment"] # {} /\ Derived("environment", made)
          /\ made["feasibility"] \in records["feasibility"] /\ S2["feasibility"] # {} /\ Derived("feasibility", made)
      BY <1>1, <1>2, <2>7 DEF Prepared
    <3> QED
      BY <2>2, <2>b, <3>1, <3>2, <3>3 DEF Prepared
  <2> QED
    BY <1>3, <2>3, <2>4, <2>5, <2>6, <2>7 DEF Stages
<1> QED
  BY <1>4, <1>5

LEMMA StepsGrow ==
  ASSUME StartupInv, NEW p \in Starts, Step(p) \/ Die(p)
  PROVE  /\ \A q \in Starts \ {p} : run'[q] = run[q]
         /\ Grown(records, snapshots, evidence, records', snapshots', evidence')
<1>1. run = [q \in Starts |-> run[q]] /\ records = [s \in Stages |-> records[s]] /\ snapshots = [s \in Stages |-> snapshots[s]]
  BY DEF StartupInv, Shapes
<1>2. CASE /\ UNCHANGED <<records, snapshots>> /\ evidence \subseteq evidence'
           /\ \A q \in Starts \ {p} : run'[q] = run[q]
  BY <1>2 DEF Grown
<1>3. \A step : Become(p, step) => \A q \in Starts \ {p} : run'[q] = run[q]
  BY <1>1 DEF Become
<1>4. \A n : Report(p, n) => \A q \in Starts \ {p} : run'[q] = run[q]
  BY <1>1, <1>3 DEF Report
<1>5. \A R : Construct(p, R) => \A q \in Starts \ {p} : run'[q] = run[q]
  BY <1>1 DEF Construct
<1>6. CASE ActivateIntelligence(p) \/ Startup(p) \/ Initialize(p) \/ Bootstrap(p)
  <2>1. \A c, K : Begin(p, c, K) => UNCHANGED <<records, snapshots, evidence>> /\ \A q \in Starts \ {p} : run'[q] = run[q]
    BY <1>1 DEF Begin
  <2> QED
    BY <1>2, <1>6, <2>1 DEF ActivateIntelligence, Startup, Initialize, Bootstrap
<1>7. CASE Verify(p)
  <2>1. \A q \in Starts \ {p} : run'[q] = run[q]
    BY <1>1, <1>3, <1>5, <1>7 DEF Verify
  <2> QED
    BY <1>2, <1>7, <2>1 DEF Verify
<1>8. CASE Weigh(p)
  BY <1>2, <1>3, <1>5, <1>8 DEF Weigh
<1>9. CASE Identify(p)
  BY <1>1, <1>2, <1>9 DEF Identify
<1>10. CASE ReadHead(p)
  <2>1. \A q \in Starts \ {p} : run'[q] = run[q]
    BY <1>1, <1>3, <1>4, <1>10 DEF ReadHead
  <2> QED
    BY <1>2, <1>10, <2>1 DEF ReadHead
<1>11. CASE SaveActivation(p) \/ ExactSnapshot(p) \/ SaveEvidence(p) \/ Load(p) \/ Die(p)
  <2>1. \E step : Become(p, step)
    BY <1>11 DEF SaveActivation, ExactSnapshot, SaveEvidence, Load, Die
  <2> QED
    BY <1>2, <1>3, <1>11, <2>1 DEF SaveActivation, ExactSnapshot, SaveEvidence, Load, Die
<1>12. CASE Save(p)
  <2> DEFINE r == CHOOSE x \in run[p].todo : TRUE
  <2>1. /\ records' = [records EXCEPT ![run[p].stage] = @ \union {r}]
        /\ run' = [run EXCEPT ![p].todo = @ \ {r}] /\ UNCHANGED <<snapshots, evidence>>
    BY <1>12 DEF Save
  <2> HIDE DEF r
  <2> QED
    BY <1>1, <2>1 DEF Grown
<1>13. CASE Link(p)
  <2>1. /\ snapshots' = [snapshots EXCEPT ![run[p].stage] = @ \union {Snapshot(p)}]
        /\ Report(p, {Snapshot(p)}) /\ UNCHANGED <<records, evidence>>
    BY <1>13 DEF Link
  <2> QED
    BY <1>1, <1>4, <2>1 DEF Grown
<1> QED
  BY <1>6, <1>7, <1>8, <1>9, <1>10, <1>11, <1>12, <1>13 DEF Step

\* What a step of p makes of p, where it does not rest.
LEMMA PreparedLocals ==
  ASSUME StartupAssumption, StartupInv, PreparedInv, NEW p \in Starts, Step(p) \/ Die(p)
  PROVE  Prepared(run'[p], records', snapshots', evidence')
<1> DEFINE s == run[p].stage
           made == run[p].made
           L == run'[p]
<1>1. /\ IsLocals(run[p]) /\ run = [q \in Starts |-> run[q]] /\ Working(run[p], records, snapshots, evidence)
      /\ Grown(records, snapshots, evidence, records', snapshots', evidence')
  BY StepsGrow DEF StartupInv, Shapes
<1>2. Prepared(run[p], records', snapshots', evidence')
  BY <1>1, PreparedGrows DEF PreparedInv
<1>3. ASSUME NEW step, Become(p, step)
      PROVE  L.step = step /\ (step \notin Over => L = [run[p] EXCEPT !.step = step])
  BY <1>1, <1>3 DEF Become, IsLocals, Fields, New
<1>4. ASSUME L.step \in Resting PROVE Prepared(L, records', snapshots', evidence')
  BY <1>4 DEF Prepared, Commanded, Resting
<1>5. ASSUME L.step \in Saving, L.stage = s, L.command = run[p].command, L.capture = run[p].capture,
             run[p].step \in {"verify", "weigh", "save", "head"},
             \A u \in Stages : u # s \/ u = "recommendation" => L.made[u] = made[u]
      PROVE  Prepared(L, records', snapshots', evidence')
  <2> HIDE DEF L
  <2> QED
    BY <1>2, <1>5, PreparedStays DEF Resting
<1>6. ASSUME NEW R, Construct(p, R), run[p].step \in {"verify", "weigh"}
      PROVE  Prepared(L, records', snapshots', evidence')
  <2>1. PICK r : /\ run' = [run EXCEPT ![p].step = "save", ![p].todo = R \ records[s], ![p].made[s] = r]
                 /\ s = "recommendation" => r = made[s]
    BY <1>6 DEF Construct
  <2>2. /\ L.step = "save" /\ L.stage = s /\ L.command = run[p].command /\ L.capture = run[p].capture
        /\ L.made = [made EXCEPT ![s] = r]
    BY <1>1, <2>1 DEF IsLocals, Fields
  <2> HIDE DEF L
  <2>3. \A u \in Stages : u # s \/ u = "recommendation" => L.made[u] = made[u]
    BY <1>1, <2>1, <2>2 DEF IsLocals
  <2> QED
    BY <1>2, <1>6, <2>2, <2>3, PreparedStays DEF L, Resting, Saving
<1>7. CASE ActivateIntelligence(p)
  <2>1. PICK a \in Approvals : Begin(p, "activate", [New EXCEPT !.step = "activate", !.approval = a])
    BY <1>7 DEF ActivateIntelligence
  <2>2. L.step = "activate"
    BY <1>1, <2>1 DEF Begin, New
  <2> QED
    BY <1>4, <2>2 DEF Resting
<1>8. CASE Startup(p)
  <2>1. PICK c \in Captures, a \in activated :
          Begin(p, "startup", [New EXCEPT !.step = "verify", !.approval = a, !.capture = c,
                                 !.stage = "recommendation", !.made["recommendation"] = a.intelligence])
    BY <1>8 DEF Startup
  <2>2. /\ L.step = "verify" /\ L.stage = "recommendation" /\ L.made["recommendation"] = a.intelligence
        /\ L.command = "startup"
    BY <1>1, <2>1 DEF Begin, New, Stages
  <2>3. a.intelligence \in Intelligences
    BY DEF StartupAssumption, PreparedInv
  <2> HIDE DEF L
  <2> QED
    BY <2>2, <2>3 DEF Prepared, Commanded, L
<1>9. CASE Initialize(p)
  <2>1. PICK c \in Captures, r \in records["recommendation"] :
          Begin(p, "initialize", [New EXCEPT !.step = "verify", !.capture = c,
                                    !.stage = "readiness", !.made["recommendation"] = r])
    BY <1>9 DEF Initialize
  <2>2. /\ L.step = "verify" /\ L.stage = "readiness" /\ L.made["recommendation"] = r
        /\ L.command = "initialize" /\ UNCHANGED records
    BY <1>1, <2>1 DEF Begin, New, Stages
  <2> HIDE DEF L
  <2> QED
    BY <2>2 DEF Prepared, Commanded, L
<1>10. CASE Bootstrap(p)
  <2>1. PICK d, v, f :
          Begin(p, "bootstrap", [New EXCEPT !.step = "verify", !.stage = "package",
                  !.made["readiness"] = d, !.made["environment"] = v, !.made["feasibility"] = f])
    BY <1>10 DEF Bootstrap
  <2>2. L.command = "bootstrap" /\ L.step = "verify" /\ L.stage = "package"
    BY <1>1, <2>1 DEF Begin, New
  <2> QED
    BY <2>2 DEF Prepared, Commanded
<1>11. CASE Verify(p)
  <2>1. CASE ~Verified(s, made)
    BY <1>3, <1>4, <1>11, <2>1 DEF Verify, Resting
  <2>2. CASE Verified(s, made) /\ s # "environment"
    BY <1>6, <1>11, <2>2 DEF Verify
  <2>3. CASE Verified(s, made) /\ s = "environment"
    <3>1. run' = [run EXCEPT ![p].step = "weigh", ![p].snapshot = Heads("readiness")] /\ run[p].step = "verify" /\ UNCHANGED snapshots
      BY <1>11, <2>3 DEF Verify
    <3>2. /\ L.step = "weigh" /\ L.stage = s /\ L.command = run[p].command /\ L.capture = run[p].capture
          /\ L.made = made /\ L.snapshot = Heads("readiness")
      BY <1>1, <3>1 DEF IsLocals, Fields
    <3>3. \E n \in snapshots["readiness"] : Heads("readiness") = {n}
      <4>1. Upstream("environment") = {"readiness"}
        BY DEF Upstream
      <4>2. Readable("readiness") /\ snapshots["readiness"] # {}
        BY <2>3, <4>1 DEF Verified
      <4> QED
        BY <4>2, SingleSnapshot DEF StartupInv, Stages
    <3> HIDE DEF L
    <3>4. Prepared(L, records', snapshots', evidence')
      BY <1>2, <2>3, <3>1, <3>2, <3>3 DEF Prepared, Commanded, Resting, Derived
    <3> QED
      BY <3>4 DEF L
  <2> QED
    BY <2>1, <2>2, <2>3
<1>12. CASE Weigh(p)
  <2>1. CASE ~\E e \in evidence : Weighed(p, e)
    BY <1>3, <1>4, <1>12, <2>1 DEF Weigh, Resting
  <2>2. CASE \E e \in evidence : Weighed(p, e)
    BY <1>6, <1>12, <2>2 DEF Weigh
  <2> QED
    BY <2>1, <2>2
<1>13. CASE Save(p)
  <2>1. PICK r : run' = [run EXCEPT ![p].todo = @ \ {r}] /\ run[p].step = "save"
    BY <1>13 DEF Save
  <2>2. /\ L.step = "save" /\ L.stage = s /\ L.command = run[p].command /\ L.capture = run[p].capture /\ L.made = made
    BY <1>1, <2>1 DEF IsLocals, Fields
  <2> QED
    BY <1>5, <2>1, <2>2 DEF Saving
<1>14. CASE Identify(p)
  <2>1. run' = [run EXCEPT ![p].step = "head", ![p].ids = records[s]] /\ run[p].step = "save"
    BY <1>14 DEF Identify
  <2>2. /\ L.step = "head" /\ L.stage = s /\ L.command = run[p].command /\ L.capture = run[p].capture /\ L.made = made
    BY <1>1, <2>1 DEF IsLocals, Fields
  <2> QED
    BY <1>5, <2>1, <2>2 DEF Saving
<1>15. CASE ReadHead(p)
  <2>1. run[p].step = "head" /\ UNCHANGED <<records, snapshots, evidence>>
    BY <1>15 DEF ReadHead
  <2>2. CASE ~Readable(s)
    BY <1>3, <1>4, <1>15, <2>2 DEF ReadHead, Resting
  <2>3. CASE Readable(s) /\ Reuses(Heads(s), run[p].ids)
    <3>1. Report(p, Heads(s)) /\ s \in Stages
      BY <1>1, <1>15, <2>1, <2>3 DEF ReadHead, Working, Resting
    <3>2. snapshots[s] # {}
      BY <2>3 DEF Reuses, Heads
    <3>3. PICK h \in snapshots[s] : Heads(s) = {h}
      BY <2>3, <3>1, <3>2, SingleSnapshot DEF StartupInv
    <3>4. Prepared(run'[p], records, snapshots, evidence)
      BY <2>1, <3>1, <3>3, ReportPrepares
    <3> QED
      BY <2>1, <3>4
  <2>4. CASE Readable(s) /\ ~Reuses(Heads(s), run[p].ids)
    <3>1. run' = [run EXCEPT ![p].step = "link", ![p].snapshot = Heads(s)]
      BY <1>15, <2>4 DEF ReadHead
    <3>2. /\ L.step = "link" /\ L.stage = s /\ L.command = run[p].command /\ L.capture = run[p].capture /\ L.made = made
      BY <1>1, <3>1 DEF IsLocals, Fields
    <3> QED
      BY <1>5, <2>1, <3>2 DEF Saving
  <2> QED
    BY <2>2, <2>3, <2>4
<1>16. CASE Link(p)
  <2>1. /\ run[p].step = "link" /\ UNCHANGED <<records, evidence>> /\ Report(p, {Snapshot(p)})
        /\ snapshots' = [snapshots EXCEPT ![s] = @ \union {Snapshot(p)}]
    BY <1>16 DEF Link
  <2>2. s \in Stages /\ snapshots = [u \in Stages |-> snapshots[u]]
    BY <1>1, <2>1 DEF Working, Resting, StartupInv, Shapes
  <2>3. Snapshot(p) \in snapshots'[s] /\ \A u \in Stages : snapshots[u] \subseteq snapshots'[u]
    BY <2>1, <2>2
  <2>4. Prepared(run'[p], records, snapshots', evidence)
    BY <2>1, <2>3, ReportPrepares
  <2> QED
    BY <2>1, <2>4
<1>17. CASE ExactSnapshot(p)
  <2>1. run[p].step = "lineage" /\ (Become(p, "evidence") \/ Become(p, "refused"))
    BY <1>17 DEF ExactSnapshot
  <2>2. CASE Become(p, "refused")
    BY <1>3, <1>4, <2>2 DEF Resting
  <2>3. CASE Become(p, "evidence")
    <3>1. L = [run[p] EXCEPT !.step = "evidence"]
      BY <1>3, <2>3 DEF Over
    <3>2. /\ L.step = "evidence" /\ L.stage = s /\ L.command = run[p].command /\ L.capture = run[p].capture
          /\ L.made = made /\ L.snapshot = run[p].snapshot
      BY <1>1, <3>1 DEF IsLocals, Fields
    <3> HIDE DEF L
    <3>3. Prepared(L, records', snapshots', evidence')
      BY <1>2, <2>1, <3>2 DEF Prepared, Commanded, Resting, Derived
    <3> QED
      BY <3>3 DEF L
  <2> QED
    BY <2>1, <2>2, <2>3
<1>18. CASE SaveEvidence(p)
  <2> DEFINE e == [of |-> made["readiness"], under |-> run[p].snapshot, capture |-> run[p].capture]
  <2>1. run[p].step = "evidence" /\ Become(p, "verify") /\ e \in evidence'
    BY <1>18 DEF SaveEvidence
  <2>2. e.of = made["readiness"] /\ e.capture = run[p].capture
    OBVIOUS
  <2> HIDE DEF e
  <2>3. L = [run[p] EXCEPT !.step = "verify"]
    BY <1>3, <2>1 DEF Over
  <2>4. /\ L.step = "verify" /\ L.stage = s /\ L.command = run[p].command /\ L.capture = run[p].capture /\ L.made = made
    BY <1>1, <2>3 DEF IsLocals, Fields
  <2> HIDE DEF L
  <2>5. Prepared(L, records', snapshots', evidence')
    BY <1>2, <2>1, <2>2, <2>4 DEF Prepared, Commanded, Resting, Derived
  <2> QED
    BY <2>5 DEF L
<1>19. CASE SaveActivation(p) \/ Load(p) \/ Die(p)
  <2>1. Become(p, "over") \/ Become(p, "refused")
    BY <1>19 DEF SaveActivation, Load, Die
  <2> QED
    BY <1>3, <1>4, <2>1 DEF Resting
<1> QED
  BY <1>7, <1>8, <1>9, <1>10, <1>11, <1>12, <1>13, <1>14, <1>15, <1>16, <1>17, <1>18, <1>19 DEF Step

\* Where the steps leave a command.
LEMMA Landings ==
  ASSUME StartupInv, NEW p \in Starts
  PROVE  /\ \A step : Become(p, step) => run'[p].step = step
         /\ \A step, n : run' = [run EXCEPT ![p].step = step, ![p].snapshot = n] => run'[p].step = step
         /\ \A R : Construct(p, R) => run'[p].step = "save"
         /\ \A n : Report(p, n) => run'[p].step # "activate"
         /\ \A n : Report(p, n) /\ Ready(p) => run'[p].step # "refused"
         /\ ActivateIntelligence(p) => run'[p].step = "activate" /\ run'[p].approval \in Approvals
         /\ Startup(p) \/ Initialize(p) \/ Bootstrap(p) => run'[p].step = "verify"
         /\ Save(p) => run'[p].step = "save"
         /\ Identify(p) => run'[p].step = "head"
<1>1. IsLocals(run[p]) /\ run = [q \in Starts |-> run[q]]
  BY DEF StartupInv, Shapes
<1>2. \A step : Become(p, step) => run'[p].step = step
  BY <1>1 DEF Become, IsLocals, Fields, New
<1>3. \A step, n : run' = [run EXCEPT ![p].step = step, ![p].snapshot = n] => run'[p].step = step
  BY <1>1 DEF IsLocals, Fields
<1>4. \A R : Construct(p, R) => run'[p].step = "save"
  <2> SUFFICES ASSUME NEW R, Construct(p, R) PROVE run'[p].step = "save"
    OBVIOUS
  <2>1. PICK r : run' = [run EXCEPT ![p].step = "save", ![p].todo = R \ records[run[p].stage], ![p].made[run[p].stage] = r]
    BY DEF Construct
  <2> QED
    BY <1>1, <2>1 DEF IsLocals, Fields
<1>5. ASSUME NEW n, Report(p, n)
      PROVE  run'[p].step # "activate" /\ (Ready(p) => run'[p].step # "refused")
  <2> DEFINE step == CASE run[p].stage = "readiness" -> "lineage" [] run[p].stage = "package" -> "load" [] OTHER -> "verify"
             next == CASE run[p].stage = "recommendation" -> "readiness" [] run[p].stage = "readiness" -> "environment"
                       [] run[p].stage = "environment" -> "feasibility" [] OTHER -> "package"
  <2>1. step \in {"lineage", "load", "verify"}
    OBVIOUS
  <2>2. IF ~Ready(p) THEN Become(p, "refused")
        ELSE run' = [run EXCEPT ![p].step = step, ![p].stage = next, ![p].snapshot = n, ![p].ids = {}]
    BY <1>5 DEF Report
  <2> HIDE DEF step, next
  <2>3. run'[p].step = IF ~Ready(p) THEN "refused" ELSE step
    BY <1>1, <1>2, <2>2 DEF IsLocals, Fields
  <2> QED
    BY <2>1, <2>3
<1>6. ASSUME ActivateIntelligence(p) PROVE run'[p].step = "activate" /\ run'[p].approval \in Approvals
  <2>1. PICK a \in Approvals : Begin(p, "activate", [New EXCEPT !.step = "activate", !.approval = a])
    BY <1>6 DEF ActivateIntelligence
  <2>2. run'[p].step = "activate" /\ run'[p].approval = a
    BY <1>1, <2>1 DEF Begin, New
  <2> QED
    BY <2>2
<1>7. ASSUME Startup(p) PROVE run'[p].step = "verify"
  <2>1. PICK c, a : Begin(p, "startup", [New EXCEPT !.step = "verify", !.approval = a, !.capture = c,
                                          !.stage = "recommendation", !.made["recommendation"] = a.intelligence])
    BY <1>7 DEF Startup
  <2> QED
    BY <1>1, <2>1 DEF Begin, New
<1>8. ASSUME Initialize(p) PROVE run'[p].step = "verify"
  <2>1. PICK c, r : Begin(p, "initialize", [New EXCEPT !.step = "verify", !.capture = c,
                                              !.stage = "readiness", !.made["recommendation"] = r])
    BY <1>8 DEF Initialize
  <2> QED
    BY <1>1, <2>1 DEF Begin, New
<1>9. ASSUME Bootstrap(p) PROVE run'[p].step = "verify"
  <2>1. PICK d, v, f :
          Begin(p, "bootstrap", [New EXCEPT !.step = "verify", !.stage = "package",
                  !.made["readiness"] = d, !.made["environment"] = v, !.made["feasibility"] = f])
    BY <1>9 DEF Bootstrap
  <2> QED
    BY <1>1, <2>1 DEF Begin, New
<1>10. ASSUME Save(p) PROVE run'[p].step = "save"
  <2>1. PICK r : run' = [run EXCEPT ![p].todo = @ \ {r}] /\ run[p].step = "save"
    BY <1>10 DEF Save
  <2> QED
    BY <1>1, <2>1 DEF IsLocals, Fields
<1>11. ASSUME Identify(p) PROVE run'[p].step = "head"
  BY <1>1, <1>11 DEF Identify, IsLocals, Fields
<1> QED
  BY <1>2, <1>3, <1>4, <1>5, <1>6, <1>7, <1>8, <1>9, <1>10, <1>11

\* An approval is only what ActivateIntelligence put there.
LEMMA Approved ==
  ASSUME StartupInv, NEW p \in Starts, Step(p) \/ Die(p), run'[p].step = "activate"
  PROVE  run'[p].approval \in Approvals
<1>1. CASE Verify(p)
  <2>1. \/ Become(p, "refused") \/ (\E R : Construct(p, R))
        \/ run' = [run EXCEPT ![p].step = "weigh", ![p].snapshot = Heads("readiness")]
    BY <1>1 DEF Verify
  <2> QED
    BY <2>1, Landings
<1>2. CASE Weigh(p)
  BY <1>2, Landings DEF Weigh
<1>3. CASE ReadHead(p)
  <2>1. \/ Become(p, "refused") \/ Report(p, Heads(run[p].stage))
        \/ run' = [run EXCEPT ![p].step = "link", ![p].snapshot = Heads(run[p].stage)]
    BY <1>3 DEF ReadHead
  <2> QED
    BY <2>1, Landings
<1>4. CASE Link(p)
  BY <1>4, Landings DEF Link
<1>5. CASE SaveActivation(p) \/ ExactSnapshot(p) \/ SaveEvidence(p) \/ Load(p) \/ Die(p)
  <2>1. \E step \in {"over", "refused", "evidence", "verify"} : Become(p, step)
    BY <1>5 DEF SaveActivation, ExactSnapshot, SaveEvidence, Load, Die
  <2> QED
    BY <2>1, Landings
<1> QED
  BY <1>1, <1>2, <1>3, <1>4, <1>5, Landings DEF Step

\* Approvals and evidence, which one step each adds to.
LEMMA StepsAdd ==
  ASSUME StartupInv, PreparedInv, NEW p \in Starts, Step(p) \/ Die(p)
  PROVE  /\ activated' \subseteq Approvals
         /\ \A e \in evidence' : \E n \in snapshots'["readiness"] : e.under = {n}
<1>1. CASE SaveActivation(p)
  BY <1>1 DEF SaveActivation, PreparedInv
<1>2. CASE SaveEvidence(p)
  <2> DEFINE e == [of |-> run[p].made["readiness"], under |-> run[p].snapshot, capture |-> run[p].capture]
  <2>1. evidence' = evidence \union {e} /\ e.under = run[p].snapshot /\ UNCHANGED <<activated, snapshots>>
    BY <1>2 DEF SaveEvidence
  <2> HIDE DEF e
  <2>2. run[p].step = "evidence" /\ Prepared(run[p], records, snapshots, evidence) /\ Working(run[p], records, snapshots, evidence)
    BY <1>2 DEF SaveEvidence, PreparedInv, StartupInv
  <2>3. run[p].step \notin Resting /\ run[p].stage = "environment" /\ run[p].command \in {"startup", "initialize"}
    BY <2>2 DEF Prepared, Commanded, Resting
  <2>4. \E n \in snapshots["readiness"] : run[p].snapshot = {n}
    BY <2>2, <2>3 DEF Prepared
  <2> QED
    BY <2>1, <2>4 DEF PreparedInv
<1>3. CASE /\ UNCHANGED <<activated, evidence>>
  <2>1. snapshots["readiness"] \subseteq snapshots'["readiness"]
    BY StepsGrow DEF Grown, Stages
  <2> QED
    BY <1>3, <2>1 DEF PreparedInv
<1>4. CASE ActivateIntelligence(p) \/ Startup(p) \/ Initialize(p) \/ Bootstrap(p)
  BY <1>3, <1>4 DEF ActivateIntelligence, Startup, Initialize, Bootstrap, Begin
<1>5. CASE Verify(p)
  BY <1>3, <1>5 DEF Verify
<1>6. CASE Weigh(p) \/ Save(p) \/ Identify(p)
  BY <1>3, <1>6 DEF Weigh, Save, Identify
<1>7. CASE ReadHead(p)
  BY <1>3, <1>7 DEF ReadHead
<1>8. CASE Link(p) \/ ExactSnapshot(p) \/ Load(p) \/ Die(p)
  BY <1>3, <1>8 DEF Link, ExactSnapshot, Load, Die
<1> QED
  BY <1>1, <1>2, <1>4, <1>5, <1>6, <1>7, <1>8 DEF Step

LEMMA PreparedStarts == StartupInit => PreparedInv
<1> SUFFICES ASSUME StartupInit PROVE PreparedInv
  OBVIOUS
<1>1. \A p \in Starts : run[p].step = "new"
  BY DEF StartupInit, New
<1>2. \A p \in Starts : Prepared(run[p], records, snapshots, evidence)
  BY <1>1 DEF Prepared, Commanded, Resting
<1> QED
  BY <1>1, <1>2 DEF StartupInit, PreparedInv

LEMMA PreparedSteps == StartupInv /\ PreparedInv /\ [StartupNext]_svars => PreparedInv'
<1> SUFFICES ASSUME StartupInv, PreparedInv, [StartupNext]_svars PROVE PreparedInv'
  OBVIOUS
<1>1. CASE UNCHANGED svars
  BY <1>1 DEF svars, PreparedInv
<1>2. ASSUME NEW p \in Starts, Step(p) \/ Die(p) PROVE PreparedInv'
  <2>1. /\ \A q \in Starts \ {p} : run'[q] = run[q]
        /\ Grown(records, snapshots, evidence, records', snapshots', evidence')
    BY <1>2, StepsGrow
  <2>2. \A q \in Starts : Prepared(run'[q], records', snapshots', evidence')
    <3>1. Prepared(run'[p], records', snapshots', evidence')
      BY <1>2, PreparedLocals, StartupAssumption
    <3>2. ASSUME NEW q \in Starts \ {p} PROVE Prepared(run'[q], records', snapshots', evidence')
      BY <2>1, PreparedGrows DEF PreparedInv
    <3> QED
      BY <3>1, <3>2
  <2>3. \A q \in Starts : run'[q].step = "activate" => run'[q].approval \in Approvals
    BY <1>2, <2>1, Approved DEF PreparedInv
  <2> QED
    BY <1>2, <2>2, <2>3, StepsAdd DEF PreparedInv
<1> QED
  BY <1>1, <1>2 DEF StartupNext

LEMMA PreparedAlways == StartupSpec => [](StartupInv /\ PreparedInv)
BY StartupStarts, StartupSteps, PreparedStarts, PreparedSteps, PTL DEF StartupSpec

-----------------------------------------------------------------------------
(* A command that derives the chain, of a ready recommendation and a healthy *)
(* capture, which no second capture of the readiness meets and whose         *)
(* repositories can be read, is not refused at any step.                     *)

\* What its own stage made is ready.
LEMMA ReadyToReport ==
  ASSUME StartupAssumption, StartupInv, PreparedInv, NEW p \in Starts, run[p].step \in {"head", "link"},
         run[p].command \in {"startup", "initialize"}, RecommendationReady(run[p].made["recommendation"]),
         run[p].capture \in Healthy, \A e, f \in evidence : e.of = f.of => e = f
  PROVE  Ready(p)
<1> DEFINE s == run[p].stage
           made == run[p].made
<1>1. /\ Working(run[p], records, snapshots, evidence) /\ Prepared(run[p], records, snapshots, evidence)
      /\ run[p].step \notin Resting
  BY DEF StartupInv, PreparedInv, Resting
<1>2. s \in Stages /\ Derived(s, made) /\ (s # "recommendation" => made[s] \in records[s])
  BY <1>1 DEF Working, Saving
<1>3. s # "recommendation" => Chained(s, made[s], records, snapshots, evidence)
  BY <1>2 DEF StartupInv
<1>4. CASE s = "recommendation"
  BY <1>4 DEF Ready
<1>5. CASE s = "readiness"
  BY <1>2, <1>5 DEF Ready, ReadinessReady, Derived
<1>6. CASE s = "environment"
  <2>1. made["environment"].of \in evidence /\ made["environment"].of.of = made["readiness"]
    BY <1>2, <1>3, <1>6 DEF Chained, Derived
  <2>2. PICK e \in evidence : e.of = made["readiness"] /\ e.capture = run[p].capture
    BY <1>1, <1>6 DEF Prepared
  <2>3. made["environment"].of = e
    BY <2>1, <2>2
  <2>4. made["readiness"].of = made["recommendation"]
    BY <1>1, <1>6 DEF Prepared, Derived
  <2>5. EnvironmentReady(made["environment"])
    BY <2>2, <2>3, <2>4 DEF EnvironmentReady, RecommendationReady, StartupAssumption
  <2> QED
    BY <1>6, <2>5 DEF Ready
<1>7. CASE s = "feasibility"
  BY <1>2, <1>3, <1>7 DEF Ready, Chained
<1>8. CASE s = "package"
  BY <1>8 DEF Ready
<1> QED
  BY <1>2, <1>4, <1>5, <1>6, <1>7, <1>8 DEF Stages

\* What its stage is derived from is there, and of one another.
LEMMA ReadyToVerify ==
  ASSUME StartupInv, PreparedInv, NEW p \in Starts, run[p].step = "verify",
         run[p].command \in {"startup", "initialize"},
         run[p].command = "initialize" => snapshots["recommendation"] # {}, \A s \in Stages : Readable(s)
  PROVE  Verified(run[p].stage, run[p].made)
<1> DEFINE s == run[p].stage
           made == run[p].made
<1>1. /\ Working(run[p], records, snapshots, evidence) /\ Prepared(run[p], records, snapshots, evidence)
      /\ run[p].step \notin Resting
  BY DEF StartupInv, PreparedInv, Resting
<1>2. s \in Stages
  BY <1>1 DEF Working
<1>3. ASSUME s \in {"feasibility", "package"} PROVE LineageVerified("feasibility", made)
  <2>1. /\ made["environment"] \in records["environment"] /\ made["environment"].of.of = made["readiness"]
        /\ snapshots["readiness"] # {}
    BY <1>1, <1>3 DEF Prepared, Derived
  <2>2. Chained("environment", made["environment"], records, snapshots, evidence)
    BY <2>1 DEF StartupInv, Stages
  <2>3. made["environment"].of \in evidence
    BY <2>2 DEF Chained
  <2>4. PICK n \in snapshots["readiness"] : made["environment"].of.under = {n}
    BY <2>3 DEF PreparedInv
  <2>5. PICK h \in snapshots["readiness"] : snapshots["readiness"] = {h} /\ Heads("readiness") = {h}
    BY <2>1, SingleSnapshot DEF StartupInv, Stages
  <2>6. made["environment"].of.under = Heads("readiness")
    BY <2>4, <2>5
  <2> QED
    BY <2>1, <2>6 DEF LineageVerified
<1>4. CASE s = "recommendation"
  <2>1. Upstream("recommendation") = {}
    BY DEF Upstream
  <2> QED
    BY <1>4, <2>1 DEF Verified, LineageVerified
<1>5. CASE s = "readiness"
  <2>1. Upstream("readiness") = {"recommendation"}
    BY DEF Upstream
  <2>2. made["recommendation"] \in records["recommendation"] /\ snapshots["recommendation"] # {}
    BY <1>1, <1>5 DEF Prepared
  <2> QED
    BY <1>5, <2>1, <2>2 DEF Verified, LineageVerified, Stages
<1>6. CASE s = "environment"
  <2>1. Upstream("environment") = {"readiness"}
    BY DEF Upstream
  <2>2. made["readiness"] \in records["readiness"] /\ snapshots["readiness"] # {}
    BY <1>1, <1>6 DEF Prepared
  <2> QED
    BY <1>6, <2>1, <2>2 DEF Verified, LineageVerified, Stages
<1>7. CASE s = "feasibility"
  <2>1. Upstream("feasibility") = {"readiness", "environment"}
    BY DEF Upstream
  <2>2. /\ made["readiness"] \in records["readiness"] /\ snapshots["readiness"] # {}
        /\ made["environment"] \in records["environment"] /\ snapshots["environment"] # {}
    BY <1>1, <1>7 DEF Prepared
  <2> QED
    BY <1>3, <1>7, <2>1, <2>2 DEF Verified, Stages
<1>8. CASE s = "package"
  <2>1. Upstream("package") = {"readiness", "environment", "feasibility"}
    BY DEF Upstream
  <2>2. /\ made["readiness"] \in records["readiness"] /\ snapshots["readiness"] # {}
        /\ made["environment"] \in records["environment"] /\ snapshots["environment"] # {}
        /\ made["feasibility"] \in records["feasibility"] /\ snapshots["feasibility"] # {}
        /\ made["feasibility"].of = made["environment"]
    BY <1>1, <1>8 DEF Prepared, Derived
  <2>3. PICK n \in snapshots["environment"] : made["feasibility"].under = {n}
    <3>1. Chained("feasibility", made["feasibility"], records, snapshots, evidence)
      BY <2>2 DEF StartupInv, Stages
    <3> QED
      BY <3>1 DEF Chained
  <2>4. PICK h \in snapshots["environment"] : snapshots["environment"] = {h} /\ Heads("environment") = {h}
    BY <2>2, SingleSnapshot DEF StartupInv, Stages
  <2>5. made["feasibility"].under = Heads("environment")
    BY <2>3, <2>4
  <2>6. LineageVerified("package", made)
    BY <1>3, <1>8, <2>2, <2>5 DEF LineageVerified
  <2>7. Readable("package")
    BY DEF Stages
  <2> QED
    BY <1>8, <2>1, <2>2, <2>6, <2>7 DEF Verified, Stages
<1> QED
  BY <1>2, <1>4, <1>5, <1>6, <1>7, <1>8 DEF Stages

LEMMA NotRefused ==
  ASSUME StartupAssumption, StartupInv, PreparedInv, NEW p \in Starts, Step(p) \/ Die(p),
         run[p].command \in {"startup", "initialize"}, RecommendationReady(run[p].made["recommendation"]),
         run[p].command = "initialize" => snapshots["recommendation"] # {}, run[p].capture \in Healthy,
         \A e, f \in evidence : e.of = f.of => e = f, \A s \in Stages : Readable(s)
  PROVE  run'[p].step # "refused"
<1> DEFINE s == run[p].stage
           made == run[p].made
<1>1. Working(run[p], records, snapshots, evidence) /\ Prepared(run[p], records, snapshots, evidence)
  BY DEF StartupInv, PreparedInv
<1>2. CASE Verify(p)
  <2>1. Verified(s, made)
    BY <1>2, ReadyToVerify DEF Verify
  <2>2. (\E R : Construct(p, R)) \/ run' = [run EXCEPT ![p].step = "weigh", ![p].snapshot = Heads("readiness")]
    BY <1>2, <2>1 DEF Verify
  <2> QED
    BY <2>2, Landings
<1>3. CASE Weigh(p)
  <2>1. run[p].step = "weigh" /\ run[p].step \notin Resting /\ s = "environment"
    BY <1>1, <1>3 DEF Weigh, Working, Resting
  <2>2. PICK e \in evidence : e.of = made["readiness"] /\ e.capture = run[p].capture
    BY <1>1, <2>1 DEF Prepared
  <2>3. PICK n \in snapshots["readiness"] : run[p].snapshot = {n}
    BY <1>1, <2>1 DEF Prepared
  <2>4. PICK m \in snapshots["readiness"] : e.under = {m}
    BY DEF PreparedInv
  <2>5. m = n
    BY SingleSnapshot DEF StartupInv, Stages
  <2>6. Weighed(p, e)
    BY <2>2, <2>3, <2>4, <2>5 DEF Weighed
  <2>7. \E R : Construct(p, R)
    BY <1>3, <2>6 DEF Weigh
  <2> QED
    BY <2>7, Landings
<1>4. CASE ReadHead(p)
  <2>1. s \in Stages /\ Readable(s) /\ Ready(p)
    BY <1>1, <1>4, ReadyToReport DEF ReadHead, Working, Resting
  <2>2. Report(p, Heads(s)) \/ run' = [run EXCEPT ![p].step = "link", ![p].snapshot = Heads(s)]
    BY <1>4, <2>1 DEF ReadHead
  <2> QED
    BY <2>1, <2>2, Landings
<1>5. CASE Link(p)
  BY <1>5, ReadyToReport, Landings DEF Link
<1>6. CASE ExactSnapshot(p)
  <2>1. run[p].step = "lineage" /\ run[p].step \notin Resting /\ s = "environment"
    BY <1>1, <1>6 DEF ExactSnapshot, Prepared, Commanded, Resting
  <2>2. PICK n \in snapshots["readiness"] : run[p].snapshot = {n}
    BY <1>1, <2>1 DEF Prepared
  <2>3. Readable("readiness") /\ Heads("readiness") = run[p].snapshot
    BY <2>2, SingleSnapshot DEF StartupInv, Stages
  <2> QED
    BY <1>6, <2>3, Landings DEF ExactSnapshot
<1>7. CASE Load(p)
  <2>1. Readable("package") /\ made["package"] \in records["package"]
    BY <1>1, <1>7 DEF Load, Prepared, Resting, Stages
  <2> QED
    BY <1>7, <2>1, Landings DEF Load
<1>8. CASE SaveActivation(p) \/ SaveEvidence(p) \/ Die(p)
  BY <1>8, Landings DEF SaveActivation, SaveEvidence, Die
<1> QED
  BY <1>2, <1>3, <1>4, <1>5, <1>6, <1>7, <1>8, Landings DEF Step

\* Whatever an interrupted command has left, a later one is refused only for what it was
\* given, a second capture, or a repository that outgrew its snapshot.
THEOREM RefusalsHaveCause == StartupSpec => RefusedForCause
<1> DEFINE Cause(p) ==
      \/ ~RecommendationReady(run[p].made["recommendation"])
      \/ run[p].command = "initialize" /\ snapshots["recommendation"] = {}
      \/ run[p].capture \notin Healthy
      \/ \E e, f \in evidence : e # f /\ e.of = f.of
      \/ \E s \in Stages : ~Readable(s)
    Refused(p) == run[p].step # "refused" /\ run'[p].step = "refused" /\ run[p].command \in {"startup", "initialize"}
<1>1. ASSUME StartupInv, PreparedInv, StartupNext, NEW p \in Starts, Refused(p) PROVE Cause(p)
  <2>1. PICK q \in Starts : Step(q) \/ Die(q)
    BY <1>1 DEF StartupNext
  <2>2. q = p
    BY <1>1, <2>1, StepsGrow
  <2> QED
    BY <1>1, <2>1, <2>2, NotRefused, StartupAssumption
<1>2. StartupInv /\ PreparedInv /\ [StartupNext]_svars => [\A p \in Starts : Refused(p) => Cause(p)]_svars
  BY <1>1
<1>3. StartupSpec => [][\A p \in Starts : Refused(p) => Cause(p)]_svars
  BY <1>2, PreparedAlways, PTL DEF StartupSpec
<1> QED
  BY <1>3 DEF RefusedForCause
=============================================================================
