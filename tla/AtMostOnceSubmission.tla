------------------------- MODULE AtMostOnceSubmission -------------------------
(***************************************************************************)
(* What an executor of governed packages promises, whatever files it keeps: *)
(* a package is accepted, then intended, then handed to the broker at most  *)
(* once, in the order of the market sequences; what happened to it is       *)
(* settled or declared unknown, and an outcome is never declared before the *)
(* intent.                                                                  *)
(***************************************************************************)
EXTENDS Integers, Sequences

CONSTANT Packages  \* records with a "uuid" and a "seq"

VARIABLES
  phase,     \* per UUID, how far its handling is on record
  submitted  \* the packages handed to the broker, in order

vars == <<phase, submitted>>

Uuids  == {p.uuid : p \in Packages}
Phases == {"unseen", "accepted", "intended", "settled", "unknown"}

Init == phase = [u \in Uuids |-> "unseen"] /\ submitted = <<>>

Move(p, from, to) ==
  /\ phase[p.uuid] \in from
  /\ phase' = [phase EXCEPT ![p.uuid] = to]
  /\ UNCHANGED submitted

\* Every earlier submission is of an older market sequence and another UUID.
Newest(p) == \A i \in DOMAIN submitted :
               submitted[i].seq < p.seq /\ submitted[i].uuid # p.uuid

Accept(p) == Newest(p) /\ Move(p, {"unseen"}, "accepted")
Intend(p) == Move(p, {"accepted"}, "intended")
Submit(p) == /\ phase[p.uuid] = "intended" /\ Newest(p)
             /\ submitted' = Append(submitted, p)
             /\ UNCHANGED phase
Settle(p) == /\ \E i \in DOMAIN submitted : submitted[i] = p
             /\ Move(p, {"intended"}, "settled")
Doubt(p)  == Move(p, {"accepted", "intended", "settled"}, "unknown")

Next == \E p \in Packages : Accept(p) \/ Intend(p) \/ Submit(p) \/ Settle(p) \/ Doubt(p)

\* Stuttering is named first because most steps of an implementation stutter and
\* TLC evaluates the disjuncts in order.
Spec == Init /\ [][UNCHANGED vars \/ Next]_vars
=============================================================================
