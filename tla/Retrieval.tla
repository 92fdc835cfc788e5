----------------------------- MODULE Retrieval -----------------------------
(***************************************************************************)
(* retrieve_memory and reindex_memory (retrieval.py) over RetrievalIndex   *)
(* (storage/retrieval.py) and an EmbeddingSession (embedding.py): lexical  *)
(* hits first, and similar rows with them if an index is there that fits   *)
(* the rows, the caller and its model.                                     *)
(*                                                                         *)
(* No transaction spans a retrieval: its rows, the head of the index and   *)
(* its vectors are read one after the other while rows come, change status *)
(* and go, and while others replace the index.  A session computes in one  *)
(* thread, which goes on when its caller has stopped to wait.              *)
(***************************************************************************)
EXTENDS Naturals, FiniteSets

CONSTANTS
    Memory,       \* observations; their text does not change
    StatusOf,     \* per memory: the statuses it may come to (BOUND)
    Hit, Near,    \* those with a term of the query, those similar to it
    Exact,        \* the hits that contain the query: anchors
    Asker,        \* checkouts that reindex, each with a session
    Reader,       \* those that retrieve
    Sees,         \* per asker: the memories its scope lets it see
    Model,        \* per asker: the identity of its embedding model
    Cap           \* limit of the results

VARIABLES
    status,     \* per memory: "gone", "active" or another lifecycle status
    vectors,    \* memory_embedding_indexes and memory_embeddings, or Unbuilt
    asks,       \* per asker: the call in progress, or its answer
    computing   \* askers whose session computes

retrievalVars == <<status, vectors, asks, computing>>

ASSUME RetrievalConstants ==
    /\ Cap \in Nat \ {0}
    /\ Exact \subseteq Hit
    /\ Reader \subseteq Asker
    /\ \A c \in Asker : Sees[c] \subseteq Memory

Unbuilt == [by |-> "none"]
NoAsk == [op |-> "none"]

-----------------------------------------------------------------------------
\* observation_exclusion over the rows that are there.
Eligible(c, t) == {o \in Sees[c] : t[o] = "active"}

\* snapshot_digest covers text and status of all rows of the family.
Digest(t) == t

Asks(c, w) == asks' = [asks EXCEPT ![c] = w]

\* Hits of the text index, then of a bounded scan; the first row read counts.
ReadHits(c) ==
    /\ c \in Reader /\ asks[c] = NoAsk
    /\ Asks(c, [op |-> "scan", lexical |-> Hit \cap Eligible(c, status)])
    /\ UNCHANGED <<status, vectors, computing>>

ScanRows(c) ==
    /\ asks[c].op = "scan"
    /\ Asks(c, [op |-> "sources", lexical |-> asks[c].lexical \cup (Hit \cap Eligible(c, status))])
    /\ UNCHANGED <<status, vectors, computing>>

\* The best Cap of S by a score the rows decide; a fused ranking puts anchors first.
Limited(S) == {T \in SUBSET S : Cardinality(T) = (IF Cardinality(S) < Cap THEN Cardinality(S) ELSE Cap)}
AnchorsFirst(S) == {T \in Limited(S) : S \cap Exact \subseteq T \/ T \subseteq Exact}

Recalls(c, mode, results, ids) ==
    \E T \in results :
        Asks(c, [op |-> mode, shown |-> T, ids |-> ids,
                 of |-> IF mode = "fused" THEN asks[c] ELSE NoAsk])

\* The lexical ranking alone: no session, or something of it fails.
FallsBack(c) == Recalls(c, "lexical", Limited(asks[c].lexical), {})

Lexical(c) ==
    /\ asks[c].op \in {"sources", "embed"}
    /\ FallsBack(c)
    /\ UNCHANGED <<status, vectors, computing>>

ReadSources(c) ==
    /\ asks[c].op = "sources"
    /\ Asks(c, [op |-> "head", lexical |-> asks[c].lexical, sources |-> status])
    /\ UNCHANGED <<status, vectors, computing>>

\* load: missing, identity_mismatch, stale.
HeadFits(c, t) == vectors # Unbuilt /\ vectors.by = Model[c] /\ vectors.of = Digest(t)

LoadHead(c) ==
    /\ asks[c].op = "head"
    /\ IF HeadFits(c, asks[c].sources)
       THEN Asks(c, [op |-> "vectors", lexical |-> asks[c].lexical, sources |-> asks[c].sources,
                     count |-> Cardinality(vectors.ids)])
       ELSE FallsBack(c)
    /\ UNCHANGED <<status, vectors, computing>>

WrongProjected(c, ids, w) == Cardinality(ids) = w.count   \* BUG (ComparedAsSeen): the digest and the count are enough

\* incomplete, projection_mismatch: the second SELECT may see another index.
Projected(c, ids, w) == Cardinality(ids) = w.count /\ ids = Eligible(c, w.sources)

LoadVectors(c) ==
    /\ asks[c].op = "vectors"
    /\ LET ids == IF vectors # Unbuilt /\ vectors.by = Model[c] THEN vectors.ids ELSE {} IN
        IF Projected(c, ids, asks[c]) /\ ids # {}
        THEN Asks(c, [op |-> "query", lexical |-> asks[c].lexical, sources |-> asks[c].sources, ids |-> ids])
        ELSE FallsBack(c)
    /\ UNCHANGED <<status, vectors, computing>>

-----------------------------------------------------------------------------
\* EmbeddingSession.embed: provider_busy_after_timeout while its thread computes.
Compute(c) ==
    /\ asks[c].op \in {"query", "batch"}
    /\ IF c \in computing
       THEN /\ UNCHANGED computing
            /\ IF asks[c].op = "query" THEN FallsBack(c) ELSE Asks(c, NoAsk)
       ELSE /\ computing' = computing \cup {c}
            /\ Asks(c, [asks[c] EXCEPT !.op = IF @ = "query" THEN "embed" ELSE "replace"])
    /\ UNCHANGED <<status, vectors>>

\* The thread ends after its caller has gone: its queue has no reader.
LateThread(c) ==
    /\ asks[c].op \notin {"embed", "replace"}
    /\ computing' = computing \ {c}
    /\ c \in computing
    /\ UNCHANGED <<status, vectors, asks>>

\* Lexical hits, similar rows and shared entities, fused and cut.
Fuse(c) ==
    /\ asks[c].op = "embed"
    /\ computing' = computing \ {c}
    /\ Recalls(c, "fused", AnchorsFirst(asks[c].lexical \cup (Near \cap asks[c].ids)), asks[c].ids)
    /\ UNCHANGED <<status, vectors>>

-----------------------------------------------------------------------------
Answered(c) ==
    /\ asks[c].op \in {"lexical", "fused"}
    /\ Asks(c, NoAsk)
    /\ UNCHANGED <<status, vectors, computing>>

\* reindex_memory: unchanged, or the eligible rows are embedded in batches.
BeginReindex(c) ==
    /\ asks[c] = NoAsk
    /\ ~(HeadFits(c, status) /\ vectors.ids = Eligible(c, status))
    /\ Asks(c, [op |-> "batch", sources |-> status])
    /\ UNCHANGED <<status, vectors, computing>>

\* sources_changed_during_reindex, or the whole index at once.
ReplaceVectors(c) ==
    /\ asks[c].op = "replace"
    /\ computing' = computing \ {c}
    /\ vectors' = IF Digest(status) = Digest(asks[c].sources)
                  THEN [by |-> Model[c], of |-> Digest(status), ids |-> Eligible(c, status)]
                  ELSE vectors
    /\ Asks(c, NoAsk)
    /\ UNCHANGED <<status>>

\* The provider fails or is late: the previous index is preserved.
ReindexFails(c) ==
    /\ asks[c].op = "replace"
    /\ Asks(c, NoAsk)
    /\ UNCHANGED <<status, vectors, computing>>

\* A memory is recorded, changes its status, is forgotten: its vector goes with it.
MemoryChanges(o, s) ==
    /\ status[o] # s
    /\ status' = [status EXCEPT ![o] = s]
    /\ vectors' = IF vectors # Unbuilt /\ s = "gone" THEN [vectors EXCEPT !.ids = @ \ {o}] ELSE vectors
    /\ UNCHANGED <<asks, computing>>

-----------------------------------------------------------------------------
RetrievalInit ==
    /\ status = [o \in Memory |-> "gone"]
    /\ vectors = Unbuilt
    /\ asks = [c \in Asker |-> NoAsk]
    /\ computing = {}

AskStep(c) ==
    \/ ReadHits(c) \/ ScanRows(c) \/ ReadSources(c) \/ LoadHead(c) \/ LoadVectors(c)
    \/ Compute(c) \/ Lexical(c) \/ Fuse(c) \/ Answered(c)
    \/ BeginReindex(c) \/ ReplaceVectors(c) \/ ReindexFails(c)
    \/ LateThread(c)

RetrievalNext ==
    \/ \E c \in Asker : AskStep(c)
    \/ \E o \in Memory : \E s \in StatusOf[o] : MemoryChanges(o, s)

RetrievalSpec == RetrievalInit /\ [][RetrievalNext]_retrievalVars
-----------------------------------------------------------------------------
\* A fused answer has compared every memory its asker could see when the rows
\* were read, and no other, by vectors of its own model: an index half read and
\* then replaced, of another checkout or from before a change, falls back to the
\* lexical answer instead; and a similar row does not push out an exact one.
ComparedAsSeen ==
    \A c \in Asker :
        LET r == asks[c] IN
        r.op = "fused" =>
            /\ r.ids = Eligible(c, r.of.sources)
            /\ r.of.lexical \cap Exact \subseteq r.shown \/ r.shown \subseteq Exact
=============================================================================
