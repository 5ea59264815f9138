--------------------------- MODULE KnowledgeGateway ---------------------------
(***************************************************************************)
(* KnowledgeRuntimeGateway (runtime/knowledge_gateway.py), through which    *)
(* the runtime's threads read the ActiveKnowledgeRegistry while other       *)
(* processes apply receipts to it.  A read replays the registry before it   *)
(* takes the gateway's lock, so that projections may overtake each other;   *)
(* the highest sequence served is to keep an older one from being served.   *)
(***************************************************************************)
EXTENDS ActiveKnowledgeRegistry

CONSTANTS
  Readers,     \* the threads that read through the gateway
  Unsupported  \* the knowledge whose schema or configuration version the gateway rejects

VARIABLES
  view,       \* per reader: the projection list_active gave it, or None
  highest,    \* _highest_sequence_seen
  snapshot,   \* _cached_snapshot: the entries served last
  replaced    \* history: the knowledge whose successor was in a projection taken

gvars == <<view, highest, snapshot, replaced>>
vars  == <<rvars, gvars>>

Init ==
  /\ RegistryInit
  /\ view = [t \in Readers |-> None]
  /\ highest = 0 /\ snapshot = {} /\ replaced = {}

-----------------------------------------------------------------------------
\* list_active replays the registry; an unreadable one raises.
ListActive(t) ==
  /\ view[t] = None /\ Readable(entries)
  /\ view' = [view EXCEPT ![t] = ActiveEntries(entries)]
  /\ UNCHANGED <<highest, snapshot, replaced>>

\* _validate_projection: identities and sequences are unique.
ValidProjection(E) ==
  \A e, f \in E : e.identity = f.identity \/ e.seq = f.seq \/ e.knowledge = f.knowledge \/ e.uuid = f.uuid
                                 => e = f

\* A mistake: an empty projection only is taken for an older one.
Precedes_empty(E, n) == n > 0 /\ E = {}

\* The highest sequence of the projection is below the highest one served.
Precedes(E, n) == n > 0 /\ \A e \in E : e.seq < n

\* A projection that is invalid, or taken for that of a rolled back registry, raises.
Refuse(t) ==
  /\ view[t] # None /\ (~ValidProjection(view[t]) \/ Precedes(view[t], highest))
  /\ view' = [view EXCEPT ![t] = None]
  /\ UNCHANGED <<highest, snapshot, replaced>>

\* A mistake: entries are counted.
Highest_count(E) == Cardinality(E)

Highest(E) == IF E = {} THEN 0 ELSE CHOOSE n \in {e.seq : e \in E} : \A e \in E : e.seq <= n

\* _compatibility_error: entries of a version the gateway does not support are left
\* out of what it serves, although they count for its highest sequence.
Compatible(E) == {e \in E : e.knowledge \notin Unsupported}

\* The projection is served; an unchanged one is the cached snapshot, equal to it.
Serve(t) ==
  /\ view[t] # None /\ ValidProjection(view[t]) /\ ~Precedes(view[t], highest)
  /\ highest' = Highest(view[t])
  /\ snapshot' = Compatible(view[t])
  /\ replaced' = replaced \union {e.previous : e \in {f \in view[t] : f.kind = "SUPERSESSION"}}
  /\ view' = [view EXCEPT ![t] = None]

Read(t) == ListActive(t) \/ Refuse(t) \/ Serve(t)

Next ==
  \/ \E p \in Processes : (Apply(p) \/ Die(p)) /\ UNCHANGED gvars
  \/ \E i \in Identities : Expire(i) /\ UNCHANGED gvars
  \/ \E t \in Readers : Read(t) /\ UNCHANGED rvars

Spec == Init /\ [][Next]_vars

-----------------------------------------------------------------------------
\* "Stale snapshots must never be served": once a read has met the successor of a
\* knowledge, though its version may not be supported, the knowledge itself is not
\* served again, however projections and registrations overtake each other.
NeverRevived == \A e \in snapshot : e.knowledge \notin replaced
=============================================================================
