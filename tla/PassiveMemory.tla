--------------------------- MODULE PassiveMemory ---------------------------
(***************************************************************************)
(* Passive memory (observations.py over storage/memory.py): what hooks     *)
(* record of a session, the capsules that summarise it, the repository     *)
(* snapshots, the search index over it, and the ways a user removes it.    *)
(*                                                                         *)
(* Hooks are short-lived processes.  A transaction of SQLite is one step;  *)
(* what a call reads before its transaction it may find changed in it.     *)
(* A row's created_at is taken when the record is built, which may be long *)
(* before it is inserted.  Of a row's metadata only its status is kept.    *)
(***************************************************************************)
EXTENDS MemoryTables

CONSTANTS
    Caller,       \* hook processes and tools that may be inside a call
    Makes,        \* per caller: the calls it makes
    Session,      \* values of session_id_hash
    Tree,         \* states of a working tree, as git reports them
    CleanTree,    \* the one without local changes
    CapsuleRows,  \* the limit of session_observations (40)
    KeepRecent    \* keep_recent of compaction

VARIABLES
    db,        \* the tables
    snapshot,  \* repository_snapshots: the digest stored for this checkout
    tree,      \* the working tree of this checkout
    index,     \* the search index: the rows it holds, and whether it is current
    window,    \* per caller: the call it is inside, and what it has read
    now,       \* the clock, where a date is compared with it
    copies,    \* history: the rows an observation was made from
    forgotten  \* history: the rows a user asked to forget

passiveVars == <<db, snapshot, tree, index, window, now, copies, forgotten>>

Statuses == {"active", "resolved", "superseded", "stale", "contradicted"}

Outside == [op |-> "outside", about |-> None, seen |-> {}, fresh |-> TRUE]

PassiveTypeOK ==
    /\ db.born \in [Observation -> 0..Cardinality(Observation)]
    /\ db.rows \subseteq Given(db)
    /\ db.meta \in [Observation -> Statuses]
    /\ db.links \in [Observation -> SUBSET Observation]
    /\ snapshot \in Tree \cup {None}
    /\ tree \in Tree
    /\ \A c \in Caller : window[c].seen \subseteq Observation \cup Tree \cup Artifact
    /\ forgotten \cap db.rows = {}

-----------------------------------------------------------------------------
(* What a call inside its window finds changed *)

Eligible(t, o) == o \in t.rows /\ ~Marker(o) /\ t.meta[o] = "active"

\* snapshot_digest of the rows of the scope.
Corpus(t) == LET S == {o \in t.rows : ~Marker(o)} IN <<S, [o \in S |-> t.meta[o]]>>

\* The digest a review is bound to: artifacts, relations, and their sources.
ReviewState(t) ==
    LET S == UNION {Sources(t, a) : a \in Artifacts(t)} \cap Observation
    IN  <<t.art, t.rel, [o \in S |-> t.meta[o]]>>

Unchanged(w, old, new) ==
    CASE w.op = "capsule" -> \A o \in w.seen : old.meta[o] = new.meta[o]
      [] w.op = "reindex" -> Corpus(old) = Corpus(new)
      [] w.op = "review"  -> ReviewState(old) = ReviewState(new)
      [] OTHER            -> TRUE

\* A row of the index goes with its observation (ON DELETE CASCADE).
Reflected(old, new) ==
    IF index = None THEN None
    ELSE [ids |-> index.ids \cap new.rows,
          fresh |-> index.fresh /\ Corpus(old) = Corpus(new)]

\* The end of a transaction of caller c, who is then at w.  A transaction that
\* writes a receipt changes what every open review is bound to.
Commit(c, new, w, receipt) ==
    /\ db' = new
    /\ index' = Reflected(db, new)
    /\ window' = [d \in Caller |->
                    IF d = c THEN w
                    ELSE [window[d] EXCEPT !.fresh =
                            window[d].fresh /\ Unchanged(window[d], db, new)
                              /\ ~(receipt /\ window[d].op = "review")]]

InCall(c, op) == window[c].op = op

Enter(c, op, about, seen) == [op |-> op, about |-> about, seen |-> seen, fresh |-> TRUE]

NewId(o) == o \notin Given(db)

-----------------------------------------------------------------------------
(* Recording *)

\* _observation_record: the id and created_at of the row to be.
BuildRecord(c, o) ==
    /\ InCall(c, "outside")
    /\ NewId(o)
    /\ EventOf[o] \notin {"session_capsule", "repository_change"}
    /\ Commit(c, Stamp(db, o), Enter(c, "record", o, {}), FALSE)
    /\ UNCHANGED <<snapshot, tree, now, copies, forgotten>>

InsertPruned(t, o) == Prune(Insert(t, o), now)

Inserting(c) ==
    /\ InCall(c, "record")
    /\ ~PruneRefused(db)

InsertObservation(c) ==
    /\ Inserting(c)
    /\ ~Marker(window[c].about)
    /\ Commit(c, InsertPruned(db, window[c].about), Outside, FALSE)
    /\ UNCHANGED <<snapshot, tree, now, copies, forgotten>>

SameKey(o, p) == <<SessionOf[o], EventOf[o], TextOf[o]>> = <<SessionOf[p], EventOf[p], TextOf[p]>>

WrongAlreadyThere(t, o) == FALSE   \* BUG (ContextGivenOnce): insert without looking first

AlreadyThere(t, o) == \E p \in t.rows : SameKey(o, p)

\* insert_unique_observation, and claim_context_marker for a marker: the first
\* caller with this key inserts, the others are told it is there.
InsertUnique(c) ==
    /\ Inserting(c)
    /\ LET o == window[c].about
       IN  Commit(c, IF AlreadyThere(db, o) THEN Unstamp(db, o) ELSE InsertPruned(db, o), Outside, FALSE)
    /\ UNCHANGED <<snapshot, tree, now, copies, forgotten>>

\* reset_context_marker, when a session starts over.
ResetMarker(c, s) ==
    /\ InCall(c, "outside")
    /\ Commit(c, DeleteRows(db, {o \in db.rows : Marker(o) /\ SessionOf[o] = s}), Outside, FALSE)
    /\ UNCHANGED <<snapshot, tree, now, copies, forgotten>>

\* update_observation_status.  Writing a capsule's metadata back under the
\* smaller limit may drop its source links.
UpdateStatus(c, o, status) ==
    /\ InCall(c, "outside")
    /\ o \in db.rows
    /\ status # db.meta[o]
    /\ \E kept \in {db.links[o], {}} :
           Commit(c, [db EXCEPT !.meta[o] = status, !.links[o] = kept], Outside, FALSE)
    /\ UNCHANGED <<snapshot, tree, now, copies, forgotten>>

-----------------------------------------------------------------------------
(* Session capsules *)

Capsules(s) == {k \in db.rows : EventOf[k] = "session_capsule" /\ SessionOf[k] = s}

\* session_rows: the oldest CapsuleRows rows of the session since its last
\* capsule, by created_at.
SessionRows(s) ==
    LET since == {o \in db.rows : /\ SessionOf[o] = s
                                  /\ EventOf[o] \in SessionEvents
                                  /\ \A k \in Capsules(s) : db.born[o] > db.born[k]}
    IN  {o \in since : Cardinality({p \in since : db.born[p] < db.born[o]}) < CapsuleRows}

ReadSession(c, s) ==
    LET seen == {o \in SessionRows(s) : Eligible(db, o)}
    IN  /\ InCall(c, "outside")
        /\ seen # {}
        /\ window' = [window EXCEPT ![c] = Enter(c, "capsule", s, seen)]
        /\ UNCHANGED <<db, snapshot, tree, index, now, copies, forgotten>>

WrongStillThere(w) == TRUE     \* BUG (CapsuleCopiesCurrent): no second look at the rows

StillThere(w) == w.fresh /\ \A o \in w.seen : Eligible(db, o)

\* record_session_capsule's transaction: the capsule's row is built in it, and
\* its metadata may be too long to keep the source links.
RecordCapsule(c, k) ==
    LET seen == window[c].seen
    IN  /\ InCall(c, "capsule")
        /\ StillThere(window[c])
        /\ ~PruneRefused(db)
        /\ NewId(k)
        /\ EventOf[k] = "session_capsule"
        /\ SessionOf[k] = window[c].about
        /\ \E links \in {seen, {}} :
               Commit(c, InsertPruned([Stamp(db, k) EXCEPT !.links[k] = links], k),
                      Outside, FALSE)
        /\ copies' = [copies EXCEPT ![k] = seen]
        /\ UNCHANGED <<snapshot, tree, now, forgotten>>

AbandonCapsule(c) ==
    /\ InCall(c, "capsule")
    /\ ~StillThere(window[c])
    /\ window' = [window EXCEPT ![c] = Outside]
    /\ UNCHANGED <<db, snapshot, tree, index, now, copies, forgotten>>

-----------------------------------------------------------------------------
(* Forgetting, compacting, clearing *)

\* The capsules that may repeat a row: those of its session written after it,
\* and those that link to one of these.
WrongCapsuleCopies(o) ==       \* BUG (ForgottenErased): only the capsules that link to the row
    {k \in db.rows : EventOf[k] = "session_capsule" /\ o \in db.links[k]}

CapsuleCopies(o) ==
    LET all == {k \in db.rows : EventOf[k] = "session_capsule"}
        later == {k \in all : SessionOf[k] = SessionOf[o] /\ db.born[k] >= db.born[o]}
        Linked[i \in 0..Cardinality(Observation)] ==
            IF i = 0 THEN later \cup {o}
            ELSE Linked[i - 1] \cup {k \in all : db.links[k] \cap Linked[i - 1] # {}}
    IN  Linked[Cardinality(Observation)] \ {o}

Forget(c, o) ==
    /\ InCall(c, "outside")
    /\ o \in db.rows
    /\ Commit(c, EraseRows(EraseRows(db, CapsuleCopies(o), now), {o}, now), Outside, FALSE)
    /\ forgotten' = forgotten \cup {o}
    /\ UNCHANGED <<snapshot, tree, now, copies>>

\* Rows a newer one of the same event and text repeats.
Repeated ==
    {o \in db.rows :
        /\ EventOf[o] \notin {"user_intent", "context_injected"}
        /\ \E p \in db.rows : /\ EventOf[p] = EventOf[o]
                              /\ TextOf[p] = TextOf[o]
                              /\ db.born[p] > db.born[o]}

\* Rows no longer active, but for the newest KeepRecent of them.
Inactive ==
    LET rows == {o \in db.rows : db.meta[o] # "active"}
    IN  rows \ Newest(db, rows, KeepRecent)

Compact(c) ==
    LET selected == (Repeated \cup Inactive) \ Protected(db)
    IN  /\ InCall(c, "outside")
        /\ selected # {}
        /\ Commit(c, EraseRows(db, selected, now), Outside, FALSE)
        /\ UNCHANGED <<snapshot, tree, now, copies, forgotten>>

\* clear_workspace_memory: imports, artifacts, index, rows and snapshot at once.
Clear(c) ==
    /\ InCall(c, "outside")
    /\ db.rows # {}
    /\ LET gone == [db EXCEPT !.rows = {}, !.art = [a \in Artifact |-> NoRow], !.rel = {}]
       IN  /\ db' = gone
           /\ window' = [d \in Caller |->
                           [window[d] EXCEPT !.fresh = window[d].fresh /\ Unchanged(window[d], db, gone)]]
    /\ index' = None
    /\ snapshot' = None
    /\ forgotten' = forgotten \cup db.rows
    /\ UNCHANGED <<tree, now, copies>>

-----------------------------------------------------------------------------
(* Repository snapshots *)

Edit(t) ==
    /\ tree # t
    /\ tree' = t
    /\ UNCHANGED <<db, snapshot, index, window, now, copies, forgotten>>

\* capture_repository_snapshot: git is asked outside any lock, and the row that
\* would record a change is built there.
ReadTree(c, o) ==
    /\ InCall(c, "outside")
    /\ NewId(o)
    /\ EventOf[o] = "repository_change"
    /\ Commit(c, Stamp(db, o), Enter(c, "capture", o, {tree}), FALSE)
    /\ UNCHANGED <<snapshot, tree, now, copies, forgotten>>

\* A change is recorded against a known state; the first capture of a checkout
\* is recorded only when there is something uncommitted.
WrongRecorded(read) == read # snapshot /\ snapshot # None     \* BUG (ChangesTold): record_initial is not looked at

Recorded(read) == read # snapshot /\ (snapshot # None \/ read # CleanTree)

UpsertSnapshot(c) ==
    LET read == CHOOSE t \in window[c].seen : TRUE
        o == window[c].about
    IN  /\ InCall(c, "capture")
        /\ Recorded(read) => ~PruneRefused(db)
        /\ snapshot' = read
        /\ Commit(c, IF Recorded(read) THEN InsertPruned(db, o) ELSE Unstamp(db, o), Outside, FALSE)
        /\ copies' = IF Recorded(read) THEN [copies EXCEPT ![o] = {o}] ELSE copies
        /\ UNCHANGED <<tree, now, forgotten>>

-----------------------------------------------------------------------------
(* The search index *)

\* The rows are read, then embedded with no lock held.
ReadCorpus(c) ==
    /\ InCall(c, "outside")
    /\ window' = [window EXCEPT ![c] =
                    Enter(c, "reindex", None, {o \in db.rows : Eligible(db, o)})]
    /\ UNCHANGED <<db, snapshot, tree, index, now, copies, forgotten>>

CorpusSame(w) == w.fresh

\* RetrievalIndex.replace: all or nothing, and only over the rows it was made from.
ReplaceIndex(c) ==
    /\ InCall(c, "reindex")
    /\ index' = IF CorpusSame(window[c]) THEN [ids |-> window[c].seen, fresh |-> TRUE] ELSE index
    /\ window' = [window EXCEPT ![c] = Outside]
    /\ UNCHANGED <<db, snapshot, tree, now, copies, forgotten>>

-----------------------------------------------------------------------------
\* A hook may die between reading and writing; hosts time them out.  The id
\* of a row it had built was seen by nobody.
Die(c) ==
    /\ ~InCall(c, "outside")
    /\ db' = IF window[c].op \in {"record", "capture"} THEN Unstamp(db, window[c].about) ELSE db
    /\ window' = [window EXCEPT ![c] = Outside]
    /\ UNCHANGED <<snapshot, tree, index, now, copies, forgotten>>

PassiveInit ==
    /\ db = Empty
    /\ snapshot = None
    /\ tree = CleanTree
    /\ index = None
    /\ window = [c \in Caller |-> Outside]
    /\ now = 0
    /\ copies = [o \in Observation |-> {}]
    /\ forgotten = {}

\* What a caller may do of its own; snapshots of the working tree are taken by
\* hooks, which Lifecycle composes of these actions.
PassiveStep(c) ==
    \/ /\ "record" \in Makes[c]
       /\ \E o \in Observation : BuildRecord(c, o)
    \/ InsertObservation(c)
    \/ InsertUnique(c)
    \/ /\ "capsule" \in Makes[c]
       /\ \E s \in Session : ReadSession(c, s)
    \/ \E k \in Observation : RecordCapsule(c, k)
    \/ AbandonCapsule(c)
    \/ /\ "reindex" \in Makes[c]
       /\ ReadCorpus(c)
    \/ ReplaceIndex(c)
    \/ /\ "mark" \in Makes[c]
       /\ \/ \E s \in Session : ResetMarker(c, s)
          \/ \E o \in Observation, s \in {"active", "resolved"} : UpdateStatus(c, o, s)
    \/ /\ "forget" \in Makes[c]
       /\ \E o \in Observation : Forget(c, o)
    \/ /\ "maintain" \in Makes[c]
       /\ Compact(c) \/ Clear(c)
    \/ Die(c)

-----------------------------------------------------------------------------
(* Properties *)

\* What a user forgets is gone, from the capsules that repeat it, from the
\* search index, and for good (storage/memory.py:468, docs/USER_GUIDE.md:387).
CapsuleErased ==
    \A o \in forgotten :
        /\ o \notin db.rows
        /\ \A k \in db.rows : o \notin copies[k]
        /\ index # None => o \notin index.ids

\* A capsule repeats only rows that are still there and active as it is written,
\* though it was composed from an earlier read (observations.py:590).
CapsuleCopiesCurrent ==
    [][\A k \in Given(db)' \ Given(db) :
          EventOf[k] = "session_capsule" =>
              \A o \in copies'[k] : Eligible(db, o)]_passiveVars
=============================================================================
