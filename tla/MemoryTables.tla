---------------------------- MODULE MemoryTables ----------------------------
(***************************************************************************)
(* The memory tables of one repository family, as a value: the passive     *)
(* observations (storage/memory.py) and the typed artifacts built from     *)
(* them (storage/artifacts.py), with the deletions the two share.  A       *)
(* transaction is a function from one value of the tables to the next.     *)
(*                                                                         *)
(* An identifier stands for the row that will be inserted under it, so its *)
(* fixed columns are constants.  Row contents are compared, never read.    *)
(* The cursor limits of a scan (1024 capsules, 16 levels) are left out.    *)
(***************************************************************************)
EXTENDS Integers, FiniteSets

CONSTANTS
    Observation,      \* ids of observations
    Artifact,         \* ids of typed artifacts
    EventOf,          \* event_type of an observation
    SessionOf,        \* session_id_hash (and agent_type) of an observation
    TextOf,           \* summary of an observation
    KindOf,           \* kind of an artifact
    SourcesOf,        \* the sources an artifact's draft names
    FromOf,           \* valid_from of an artifact
    MaxObservations,  \* _MAX_OBSERVATIONS_PER_WORKSPACE
    MaxMarkers,       \* _MAX_CONTEXT_MARKERS_PER_WORKSPACE
    MaxArtifacts,     \* MAX_ARTIFACTS
    None

SessionEvents == {"user_intent", "tool_result", "tool_failure", "repository_change"}
Events == SessionEvents \cup {"session_capsule", "context_injected", "session_note"}
Kinds == {"fact", "episode", "experience", "lesson", "skill_candidate"}
Trusted == {"human_accepted", "deterministic_derived"}

ASSUME MemoryConstants ==
    /\ IsFiniteSet(Observation) /\ IsFiniteSet(Artifact) /\ Observation \cap Artifact = {}
    /\ EventOf \in [Observation -> Events]
    /\ KindOf \in [Artifact -> Kinds]
    /\ SourcesOf \in [Artifact -> SUBSET (Observation \cup Artifact)]
    /\ FromOf \in [Artifact -> Nat]
    /\ {MaxObservations, MaxMarkers, MaxArtifacts} \subseteq Nat \ {0}
    /\ None \notin Nat /\ None \notin {"candidate", "active", "rejected", "superseded"}

(* The tables: born is a row's place in the order of created_at, which is  *)
(* taken before the row is inserted; rows are the rows that are there.  An *)
(* artifact's cut holds the sources whose link ON DELETE SET NULL has      *)
(* cleared.                                                                *)
NoRow == [status |-> None, authority |-> None, to |-> None, cut |-> {}]

Empty ==
    [ born |-> [o \in Observation |-> 0], rows |-> {},
      meta |-> [o \in Observation |-> "active"],
      links |-> [o \in Observation |-> {}],
      art |-> [a \in Artifact |-> NoRow],
      rel |-> {} ]

Artifacts(db) == {a \in Artifact : db.art[a] # NoRow}

Active(db, a) == db.art[a].status = "active"

\* The ids that were given out.
Given(db) == {o \in Observation : db.born[o] > 0}

Marker(o) == EventOf[o] = "context_injected"

\* ORDER BY created_at DESC LIMIT n.
Newest(db, S, n) == {o \in S : Cardinality({p \in S : db.born[p] > db.born[o]}) < n}

-----------------------------------------------------------------------------
(* Provenance *)

\* The artifacts that derive from S: the closure under "is built from".
\* A link that has been cut leads nowhere.
Sources(db, a) == SourcesOf[a] \ db.art[a].cut

Grown(db, S) == S \cup {a \in Artifacts(db) : Sources(db, a) \cap S # {}}

Derived(db, S) ==
    LET Step[i \in 0..Cardinality(Artifact)] ==
            IF i = 0 THEN S ELSE Grown(db, Step[i - 1])
    IN  Step[Cardinality(Artifact)] \cap Artifacts(db)

\* The observations active provenance pins, through any number of artifacts.
WrongProtected(db) ==           \* BUG (ActiveProvenanceKept): only what a person accepted
    UNION {Sources(db, a) : a \in {b \in Artifacts(db) :
                Active(db, b) /\ db.art[b].authority = "human_accepted"}} \cap Observation

Protected(db) ==
    LET kept == {a \in Artifacts(db) :
                    Active(db, a) /\ db.art[a].authority \in Trusted}
    IN  {o \in Observation : Derived(db, {o}) \cap kept # {}}

-----------------------------------------------------------------------------
(* Deletions *)

\* A relation is open while it has no resolution, or one still to come.
Open(r, now) == r.kind = "contradicts" /\ (r.resolved = None \/ r.resolved > now)

\* What a contradiction with an artifact of A leaves behind, and all that is
\* built on it.
WrongDisputed(db, A, now) ==    \* BUG (DisputeNeedsReview): dependents stay active
    {a \in Artifacts(db) \ A :
        \E r \in db.rel : Open(r, now) /\ a \in {r.from, r.to} /\ {r.from, r.to} \cap A # {}}

Disputed(db, A, now) ==
    LET left == {a \in Artifacts(db) \ A : \E r \in db.rel :
                    /\ Open(r, now)
                    /\ a \in {r.from, r.to}
                    /\ {r.from, r.to} \cap A # {}}
    IN  (left \cup Derived(db, left)) \ A

\* An artifact's row once the sources in S are gone: ON DELETE SET NULL.
Without(row, a, S) == [row EXCEPT !.cut = row.cut \cup (S \cap SourcesOf[a])]

\* delete_artifacts: the survivors of a dispute go back to review.
DeleteArtifacts(db, A, now) ==
    LET back == {a \in Disputed(db, A, now) : Active(db, a)}
    IN  [db EXCEPT
            !.art = [a \in Artifact |->
                IF a \in A \/ a \notin Artifacts(db) THEN NoRow
                ELSE Without(IF a \in back THEN [db.art[a] EXCEPT !.status = "candidate"]
                             ELSE db.art[a], a, A)],
            !.rel = {r \in db.rel : {r.from, r.to} \cap A = {}}]

\* DELETE FROM agent_observations.
DeleteRows(db, S) ==
    [db EXCEPT
        !.rows = db.rows \ S,
        !.art = [a \in Artifact |-> IF a \in Artifacts(db) THEN Without(db.art[a], a, S) ELSE NoRow]]

\* forget_source_dependents, then the rows themselves.
EraseRows(db, S, now) == DeleteRows(DeleteArtifacts(db, Derived(db, S), now), S)

\* prune_observations refuses to go below what active provenance needs.
PruneRefused(db) ==
    Cardinality(Protected(db) \cap db.rows) > MaxObservations

KeptRows(db) ==
    LET pinned == Protected(db) \cap db.rows
        others == {o \in db.rows \ pinned : ~Marker(o)}
    IN  pinned \cup Newest(db, others, MaxObservations - Cardinality(pinned))

\* Without protected rows the old ones go without their candidates; with
\* them, the candidates built on a removed row go as well.
Prune(db, now) ==
    LET gone == {o \in db.rows : ~Marker(o)} \ KeptRows(db)
        left == IF Protected(db) = {} THEN DeleteRows(db, gone) ELSE EraseRows(db, gone, now)
        markers == {o \in left.rows : Marker(o)}
    IN  DeleteRows(left, markers \ Newest(left, markers, MaxMarkers))

Insert(db, o) == [db EXCEPT !.rows = @ \cup {o}]

Stamp(db, o) == [db EXCEPT !.born[o] = Cardinality(Given(db)) + 1]

\* A row that was built but not inserted: its id may be taken as never given.
Unstamp(db, o) ==
    IF o \notin Given(db) THEN db
    ELSE [db EXCEPT !.born = [p \in Observation |->
            IF p = o THEN 0 ELSE IF db.born[p] > db.born[o] THEN db.born[p] - 1 ELSE db.born[p]]]
=============================================================================
