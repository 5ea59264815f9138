------------------------- MODULE RuntimeGovernance -------------------------
(***************************************************************************)
(* The chain of authorities that lets a released artifact be started by    *)
(* the executor: ReleaseRegistry (PR276), RuntimeActivationAuthority       *)
(* (PR277), RuntimeAdmissionAuthority (PR278),                             *)
(* ExecutorAcknowledgementAuthority (PR279) and RuntimeStartupAuthority    *)
(* (PR280), under learning/.                                               *)
(*                                                                         *)
(* A registry is an immutable value named by the hash of its content, and  *)
(* only ever grows: here the sequence of its records, oldest first.  A     *)
(* caller brings every registry itself and declares the time.  The         *)
(* authority insists that the caller's value of its OWN registry is the    *)
(* current one, under its lock, so a call is atomic; of the registries of  *)
(* the earlier authorities it only checks that the caller's expectation    *)
(* names the value the caller brought, so any earlier value will do: a     *)
(* snapshot, a prefix of the sequence.                                     *)
(*                                                                         *)
(* A refused call raises and leaves evidence that no later decision reads: *)
(* it is no step here.  The bindings of copied identities are a record's   *)
(* "of", the record it was granted on; releases differ in their request    *)
(* and generation only, and share artifact, contract, environment and      *)
(* executor, the case in which the authorities must tell them apart.       *)
(***************************************************************************)
EXTENDS Naturals, Sequences

CONSTANTS
  Requests,        \* release requests that pass the eight release gates
  Generation,      \* the activation generation of each
  Nonces,          \* nonces of attestations and of startup contracts
  MaxTime,         \* bound: declared times are 0 .. MaxTime
  MaxRecords,      \* bound: records of one registry
  Window,          \* life of an activation authorization (900 s)
  HandoffAge,      \* maximum_handoff_age_seconds
  Admission,       \* admission_validity_seconds
  AttestationAge,  \* maximum_attestation_age_seconds
  AcknowledgementAge, \* maximum_acknowledgement_age_seconds
  Lifetime         \* maximum_startup_authorization_lifetime_seconds

ASSUME GovernanceAssumption ==
  /\ Generation \in [Requests -> Nat \ {0}]
  /\ MaxTime \in Nat /\ MaxRecords \in Nat
  /\ {Window, HandoffAge, Admission, AttestationAge,
      AcknowledgementAge, Lifetime} \subseteq Nat \ {0}

VARIABLES releases, activations, admissions, acknowledgements, startups

vars == <<releases, activations, admissions, acknowledgements, startups>>

Times == 0 .. MaxTime

Record(kind, content) == [kind |-> kind, content |-> content]

Recorded(registry, kind) ==
  {registry[i].content : i \in {j \in DOMAIN registry : registry[j].kind = kind}}

Snapshots(registry) == {SubSeq(registry, 1, n) : n \in 0 .. Len(registry)}

\* What is granted in a registry after e.
Later(registry, e) ==
  {registry[j].content : j \in {k \in DOMAIN registry :
     /\ registry[k].kind = "granted"
     /\ \E i \in 1 .. k - 1 : registry[i] = Record("granted", e)}}

Append1(registry, kind, content) ==
  /\ Len(registry) < MaxRecords
  /\ registry' = Append(registry, Record(kind, content))

-----------------------------------------------------------------------------
(* The lineage of a record: each stage holds the record it was granted on. *)

GenerationOf(release) == Generation[release.request]

\* The instance identity is a hash over the instance's reference and its
\* generation: two generations of one runtime are two instances.
Instance(release) == <<"runtime", GenerationOf(release)>>

ReleaseOfAcknowledgement(z) == z.of.of.of
ReleaseOfStartup(w) == w.of.of.of.of

\* Revoked, by a record that is effective at the time.
RevokedAt(registry, e, at) ==
  \E r \in Recorded(registry, "revoked") : r.of = e /\ r.at <= at

-----------------------------------------------------------------------------
(* PR276: the release registry, appended to by its owner *)

Register(q, at) ==
  /\ \A e \in Recorded(releases, "granted") : e.request # q
  /\ Append1(releases, "granted", [request |-> q, at |-> at])
  /\ UNCHANGED <<activations, admissions, acknowledgements, startups>>

\* revoke_certificate, revoke_activation and authorize_rollback.
Withdraw(e) ==
  /\ e \in Recorded(releases, "granted")
  /\ Append1(releases, "withdrawn", e)
  /\ UNCHANGED <<activations, admissions, acknowledgements, startups>>

-----------------------------------------------------------------------------
(* PR277 *)

IsConsumed(e) == \E x \in Recorded(activations, "granted") : x.of = e

Activate(known, e, at) ==
  /\ e \in Recorded(known, "granted")
  /\ \A f \in Later(known, e) : Instance(f) # Instance(e)
  /\ e.at <= at /\ at < e.at + Window
  /\ ~IsConsumed(e)
  /\ e \notin Recorded(known, "withdrawn")
  /\ ~RevokedAt(activations, e, at)
  /\ Append1(activations, "granted", [of |-> e, at |-> at])
  /\ UNCHANGED <<releases, admissions, acknowledgements, startups>>

RevokeActivation(e, at) ==
  /\ e \in Recorded(releases, "granted")
  /\ \A r \in Recorded(activations, "revoked") : r.of # e
  /\ Append1(activations, "revoked", [of |-> e, at |-> at])
  /\ UNCHANGED <<releases, admissions, acknowledgements, startups>>

-----------------------------------------------------------------------------
(* PR278 *)

\* Mutant: uniqueness by handoff alone.
Admitted_handoff(x) == \E y \in Recorded(admissions, "granted") : y.of = x

\* Mutant: a handoff never grows too old.
FreshHandoff_notFuture(x, at) == x.at <= at

\* contains: the handoff, or its instance and generation, is admitted.
Admitted(x) ==
  \E y \in Recorded(admissions, "granted") :
    y.of = x \/ Instance(y.of.of) = Instance(x.of)

FreshHandoff(x, at) == x.at <= at /\ at - x.at <= HandoffAge

Admit(known, handed, x, at) ==
  /\ x \in Recorded(handed, "granted")
  /\ x.of \in Recorded(known, "granted")
  /\ x.of \notin Recorded(known, "withdrawn")
  /\ \A f \in Later(known, x.of) : GenerationOf(f) <= GenerationOf(x.of)
  /\ ~RevokedAt(handed, x.of, at)
  /\ FreshHandoff(x, at)
  /\ ~Admitted(x)
  /\ Append1(admissions, "granted", [of |-> x, at |-> at])
  /\ UNCHANGED <<releases, activations, acknowledgements, startups>>

RevokeAdmission(y, at) ==
  /\ y \in Recorded(admissions, "granted")
  /\ \A r \in Recorded(admissions, "revoked") : r.of # y
  /\ Append1(admissions, "revoked", [of |-> y, at |-> at])
  /\ UNCHANGED <<releases, activations, acknowledgements, startups>>

-----------------------------------------------------------------------------
(* PR279: the executor signs an attestation of its acceptance; one         *)
(* executor instance and session.                                          *)

Attested(y, nonce) ==
  \E z \in Recorded(acknowledgements, "granted") : z.of = y \/ z.nonce = nonce

Acknowledge(admitted, y, accepted, nonce, at) ==
  /\ y \in Recorded(admitted, "granted")
  /\ ~RevokedAt(admitted, y, at)
  /\ y.at <= accepted /\ accepted <= at /\ at < y.at + Admission
  /\ at - accepted <= AttestationAge
  /\ ~Attested(y, nonce)
  /\ Append1(acknowledgements, "granted", [of |-> y, nonce |-> nonce, at |-> at])
  /\ UNCHANGED <<releases, activations, admissions, startups>>

-----------------------------------------------------------------------------
(* PR280 *)

\* A status names generations: all of them (GLOBAL, the artifact, the
\* runtime contract) or one (the instance, the generation).
Stopped(release, at) ==
  \E s \in Recorded(startups, "status") :
    GenerationOf(release) \in s.generations /\ s.at <= at

RecordStatus(generations, at) ==
  /\ [generations |-> generations, at |-> at] \notin Recorded(startups, "status")
  /\ Append1(startups, "status", [generations |-> generations, at |-> at])
  /\ UNCHANGED <<releases, activations, admissions, acknowledgements>>

\* The key of a startup contract is the instance, the policy and the contract, which
\* names the policy as well and carries the nonce of its consumption; one policy is modelled.
Duplicate(release, nonce) ==
  \E w \in Recorded(startups, "granted") :
    Instance(ReleaseOfStartup(w)) = Instance(release) /\ w.nonce = nonce

HigherGeneration(release) ==
  \E w \in Recorded(startups, "granted") :
    /\ Instance(ReleaseOfStartup(w)) = Instance(release)
    /\ GenerationOf(ReleaseOfStartup(w)) > GenerationOf(release)

AuthorizeStartup(z, nonce, at) ==
  /\ z \in Recorded(acknowledgements, "granted")
  /\ z.at <= at /\ at - z.at <= AcknowledgementAge
  /\ ~Stopped(ReleaseOfAcknowledgement(z), at)
  /\ ~Duplicate(ReleaseOfAcknowledgement(z), nonce)
  /\ ~HigherGeneration(ReleaseOfAcknowledgement(z))
  /\ Append1(startups, "granted", [of |-> z, nonce |-> nonce, at |-> at])
  /\ UNCHANGED <<releases, activations, admissions, acknowledgements>>

Consume(w, at) ==
  /\ w \in Recorded(startups, "granted")
  /\ w.at <= at /\ at < w.at + Lifetime
  /\ ~Stopped(ReleaseOfStartup(w), at)
  /\ \A c \in Recorded(startups, "consumed") : c.of # w /\ c.of.nonce # w.nonce
  /\ Append1(startups, "consumed", [of |-> w, at |-> at])
  /\ UNCHANGED <<releases, activations, admissions, acknowledgements>>

-----------------------------------------------------------------------------
Init ==
  /\ releases = <<>> /\ activations = <<>> /\ admissions = <<>>
  /\ acknowledgements = <<>> /\ startups = <<>>

Next ==
  \E at \in Times :
    \/ \E q \in Requests : Register(q, at)
    \/ \E e \in Recorded(releases, "granted") : Withdraw(e) \/ RevokeActivation(e, at)
    \/ \E known \in Snapshots(releases), e \in Recorded(releases, "granted") :
         Activate(known, e, at)
    \/ \E known \in Snapshots(releases), handed \in Snapshots(activations),
          x \in Recorded(activations, "granted") : Admit(known, handed, x, at)
    \/ \E y \in Recorded(admissions, "granted") : RevokeAdmission(y, at)
    \/ \E admitted \in Snapshots(admissions), y \in Recorded(admissions, "granted"),
          accepted \in Times, nonce \in Nonces :
         Acknowledge(admitted, y, accepted, nonce, at)
    \/ \E generations \in (SUBSET {Generation[q] : q \in Requests}) \ {{}} :
         RecordStatus(generations, at)
    \/ \E z \in Recorded(acknowledgements, "granted"), nonce \in Nonces :
         AuthorizeStartup(z, nonce, at)
    \/ \E w \in Recorded(startups, "granted") : Consume(w, at)

Spec == Init /\ [][Next]_vars

-----------------------------------------------------------------------------
\* One lineage per instance: whatever snapshots the callers bring, and
\* however many releases were made for an instance, its startups and their
\* consumptions rest on one acknowledgement, one admission, one activation
\* and one release.
OneLineage ==
  \A v, w \in Recorded(startups, "granted") :
    Instance(ReleaseOfStartup(v)) = Instance(ReleaseOfStartup(w)) => v.of = w.of

\* No authority sees more than the link before it, yet along the declared
\* times no startup is consumed later after its release's assessment than
\* the windows of the five authorities add up to.
StartsInTime ==
  \A c \in Recorded(startups, "consumed") :
    LET assessed == ReleaseOfStartup(c.of).at
    IN /\ assessed <= c.at
       /\ c.at + 3 <= assessed + Window + HandoffAge + Admission
                        + AcknowledgementAge + Lifetime
=============================================================================
