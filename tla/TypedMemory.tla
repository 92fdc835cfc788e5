---------------------------- MODULE TypedMemory ----------------------------
(***************************************************************************)
(* Typed memory (artifacts.py over storage/artifacts.py): facts, episodes, *)
(* verified experiences and lessons, each bound to the observations and    *)
(* artifacts it was made from, active only after a person's review.        *)
(*                                                                         *)
(* A review is a preview, a person's decision with no lock held, and a     *)
(* transaction that must find the digest of everything the preview was     *)
(* made from.  All artifacts have the scope of the repository family.      *)
(* What a draft says is left out, but for the claim two drafts may share.  *)
(***************************************************************************)
EXTENDS PassiveMemory

CONSTANTS
    ClaimOf,   \* proposal_hash: what an artifact claims, on which sources
    MaxNow     \* bound of the clock

ASSUME TypedConstants == MaxNow \in Nat /\ DOMAIN ClaimOf = Artifact

TypedTypeOK ==
    /\ PassiveTypeOK
    /\ \A a \in Artifacts(db) :
        /\ db.art[a].status \in {"candidate", "active", "rejected", "superseded"}
        /\ db.art[a].authority \in Trusted \cup {"agent_proposed", "human_reviewed"}
        /\ db.art[a].to \in Nat \cup {None}
        /\ db.art[a].cut \subseteq SourcesOf[a]
    /\ \A r \in db.rel : {r.from, r.to} \subseteq Artifacts(db)
    /\ Cardinality(Artifacts(db)) <= MaxArtifacts

-----------------------------------------------------------------------------
(* What an artifact stands on: ArtifactView *)

ActiveAt(t, a, at) == FromOf[a] <= at /\ (t.art[a].to # None => at < t.art[a].to)

WithSources(X) == X \cup {s \in Artifact : \E b \in X : s \in SourcesOf[b]}

Ancestors(a) ==
    LET Up[i \in 0..Cardinality(Artifact)] ==
            IF i = 0 THEN {a} ELSE WithSources(Up[i - 1])
    IN  Up[Cardinality(Artifact)]

\* A source that may carry a conclusion at instant `at` (at any, if None).
Standing(t, s, at) ==
    IF s \in Observation THEN Eligible(t, s)
    ELSE /\ s \in Artifacts(t)
         /\ t.art[s].status \in {"active", "superseded"}
         /\ t.art[s].authority \in Trusted
         /\ at # None => ActiveAt(t, s, at)

\* provenance_reason finds nothing to object to.
Sound(t, a, at) ==
    /\ a \in Artifacts(t)
    /\ \A b \in Ancestors(a) \cap Artifacts(t) :
        /\ t.art[b].cut = {}
        /\ \A s \in SourcesOf[b] : Standing(t, s, at)

\* The open disputes at an instant, and everything that stands on a side of one.
Blocked(t, at) ==
    UNION {Derived(t, {r.from, r.to}) : r \in
        {q \in t.rel : /\ q.kind = "contradicts"
                       /\ q.at <= at
                       /\ q.resolved = None \/ q.resolved > at
                       /\ ActiveAt(t, q.from, at)
                       /\ ActiveAt(t, q.to, at)}}

WrongRecalled(t, at) ==        \* BUG (HistoryKept): a superseded fact was never true
    {a \in Artifacts(t) : Sound(t, a, at) /\ t.art[a].status = "active" /\ ActiveAt(t, a, at)}
        \ Blocked(t, at)

\* list_artifacts for a resume, as of an instant.
Recalled(t, at) ==
    {a \in Artifacts(t) :
        /\ Sound(t, a, at)
        /\ t.art[a].authority \in Trusted
        /\ t.art[a].status \in {"active", "superseded"}
        /\ ActiveAt(t, a, at)} \ Blocked(t, at)

-----------------------------------------------------------------------------
(* Proposing *)

\* _sources: an artifact that supports another must be active, not superseded.
SourcesEligible(a) ==
    \A s \in SourcesOf[a] :
        IF s \in Observation THEN Eligible(db, s)
        ELSE Sound(db, s, None) /\ Active(db, s) /\ db.art[s].authority \in Trusted

\* learning_source_checks: what is learnt, and what it may be learnt from.
Teaches(a) ==
    CASE KindOf[a] = "experience" ->
            \A s \in SourcesOf[a] : s \in Artifact /\ KindOf[s] = "episode"
      [] KindOf[a] \in {"lesson", "skill_candidate"} ->
            \A s \in SourcesOf[a] : /\ s \in Artifact
                                    /\ KindOf[s] = "experience"
                                    /\ db.art[s].authority = "human_accepted"
      [] OTHER -> TRUE

Claimed(a) == \E b \in Artifacts(db) : ClaimOf[b] = ClaimOf[a]

Creatable(a) ==
    /\ SourcesEligible(a)
    /\ Teaches(a)
    /\ ~Claimed(a)
    /\ Cardinality(Artifacts(db)) < MaxArtifacts

Created(a, status, authority) ==
    [db EXCEPT !.art[a] = [status |-> status, authority |-> authority, to |-> None, cut |-> {}]]

Propose(c, a) ==
    /\ InCall(c, "outside")
    /\ KindOf[a] \in {"fact", "lesson", "skill_candidate"}
    /\ a \notin Artifacts(db)
    /\ Creatable(a)
    /\ Commit(c, Created(a, "candidate", "agent_proposed"), Outside, FALSE)
    /\ UNCHANGED <<snapshot, tree, now, copies, forgotten>>

\* An episode only groups observations: it is active without a review.
Episode(c, a) ==
    /\ InCall(c, "outside")
    /\ KindOf[a] = "episode"
    /\ SourcesOf[a] \subseteq Observation
    /\ a \notin Artifacts(db)
    /\ Creatable(a)
    /\ Commit(c, Created(a, "active", "deterministic_derived"), Outside, FALSE)
    /\ UNCHANGED <<snapshot, tree, now, copies, forgotten>>

-----------------------------------------------------------------------------
(* Reviews *)

\* The disputes a preview of these artifacts shows.
Disputes(t, A) == {r \in t.rel : Open(r, now) /\ {r.from, r.to} \cap A # {}}

Preview(c, about, A) ==
    /\ InCall(c, "outside")
    /\ window' = [window EXCEPT ![c] =
                    Enter(c, "review", about, UNION {{r.from, r.to} : r \in Disputes(db, A)})]
    /\ UNCHANGED <<db, snapshot, tree, index, now, copies, forgotten>>

WrongBound(c, kind) == InCall(c, "review") /\ window[c].about.kind = kind
                               \* BUG (ResolvedAsShown): the decision is not bound to its preview

\* ReviewGate.consume: the approval is for the digest found in the transaction.
Bound(c, kind) == InCall(c, "review") /\ window[c].about.kind = kind /\ window[c].fresh

\* Anything else: stale_or_invalid_review, or a check that no longer holds.
AbandonReview(c) ==
    /\ InCall(c, "review")
    /\ window' = [window EXCEPT ![c] = Outside]
    /\ UNCHANGED <<db, snapshot, tree, index, now, copies, forgotten>>

PreviewExperience(c, a) ==
    /\ InCall(c, "outside")
    /\ KindOf[a] = "experience"
    /\ SourcesEligible(a)
    /\ Teaches(a)
    /\ Preview(c, [kind |-> "experience", a |-> a], {a})

\* There is no stored experience before a person accepts it.
AcceptExperience(c) ==
    LET a == window[c].about.a
    IN  /\ Bound(c, "experience")
        /\ a \notin Artifacts(db)
        /\ Creatable(a)
        /\ Commit(c, Created(a, "active", "human_accepted"), Outside, TRUE)
        /\ UNCHANGED <<snapshot, tree, now, copies, forgotten>>

PreviewReview(c, a) ==
    /\ InCall(c, "outside")
    /\ Sound(db, a, now)
    /\ db.art[a].status = "candidate"
    /\ Preview(c, [kind |-> "review", a |-> a], {a})

Review(c, accepted) ==
    LET a == window[c].about.a
    IN  /\ Bound(c, "review")
        /\ Sound(db, a, now)
        /\ db.art[a].status = "candidate"
        /\ Commit(c, [db EXCEPT
                        !.art[a].status = IF accepted THEN "active" ELSE "rejected",
                        !.art[a].authority = IF accepted THEN "human_accepted"
                                             ELSE "human_reviewed"],
                  Outside, TRUE)
        /\ UNCHANGED <<snapshot, tree, now, copies, forgotten>>

PreviewRelation(c, a, b, kind, at) ==
    /\ InCall(c, "outside")
    /\ a # b
    /\ Sound(db, a, now)
    /\ Sound(db, b, now)
    /\ Preview(c, [kind |-> kind, a |-> a, b |-> b, at |-> at], {a, b})

AcceptedFact(a) == KindOf[a] = "fact" /\ Active(db, a) /\ db.art[a].authority = "human_accepted"

Relatable(w) ==
    /\ Sound(db, w.a, now) /\ AcceptedFact(w.a) /\ ActiveAt(db, w.a, w.at)
    /\ Sound(db, w.b, now) /\ AcceptedFact(w.b) /\ ActiveAt(db, w.b, w.at)

\* A relation that is already there stays as it is (ON CONFLICT DO NOTHING).
Related(t, w) ==
    IF \E r \in t.rel : <<r.from, r.to, r.kind>> = <<w.a, w.b, w.kind>> THEN t
    ELSE [t EXCEPT !.rel = @ \cup {[from |-> w.a, to |-> w.b, kind |-> w.kind,
                                     at |-> w.at, resolved |-> None]}]

RejectRelation(c) ==
    /\ Bound(c, "contradicts") \/ Bound(c, "supersedes")
    /\ Relatable(window[c].about)
    /\ Commit(c, db, Outside, TRUE)
    /\ UNCHANGED <<snapshot, tree, now, copies, forgotten>>

Contradict(c) ==
    /\ Bound(c, "contradicts")
    /\ Relatable(window[c].about)
    /\ Commit(c, Related(db, window[c].about), Outside, TRUE)
    /\ UNCHANGED <<snapshot, tree, now, copies, forgotten>>

\* The replaced fact is valid until its replacement is, and their dispute ends there.
WrongSuperseded(t, w) ==       \* BUG (OneVersionAtATime): the replaced fact keeps its window
    [t EXCEPT !.art[w.b].status = "superseded"]

Superseded(t, w) ==
    [t EXCEPT
        !.art[w.b].status = "superseded",
        !.art[w.b].to = w.at,
        !.rel = {IF r.kind = "contradicts" /\ r.resolved = None /\ {r.from, r.to} = {w.a, w.b}
                 THEN [r EXCEPT !.resolved = w.at] ELSE r : r \in @}]

Supersede(c) ==
    LET w == window[c].about
    IN  /\ Bound(c, "supersedes")
        /\ Relatable(w)
        /\ w.at = FromOf[w.a]
        /\ w.at > FromOf[w.b]
        /\ Commit(c, Related(Superseded(db, w), w), Outside, TRUE)
        /\ UNCHANGED <<snapshot, tree, now, copies, forgotten>>

ForgetArtifact(c, a) ==
    /\ InCall(c, "outside")
    /\ a \in Artifacts(db)
    /\ Commit(c, DeleteArtifacts(db, Derived(db, {a}), now), Outside, TRUE)
    /\ UNCHANGED <<snapshot, tree, now, copies, forgotten>>

Tick ==
    /\ now < MaxNow
    /\ now' = now + 1
    /\ UNCHANGED <<db, snapshot, tree, index, window, copies, forgotten>>

TypedStep(c) ==
    \/ PassiveStep(c)
    \/ /\ "propose" \in Makes[c]
       /\ \E a \in Artifact : Propose(c, a) \/ Episode(c, a)
    \/ /\ "review" \in Makes[c]
       /\ \E a \in Artifact : PreviewExperience(c, a) \/ PreviewReview(c, a)
    \/ \E a, b \in Artifact, kind \in {"contradicts", "supersedes"} \cap Makes[c] :
          \E at \in {now, FromOf[a]} : PreviewRelation(c, a, b, kind, at)
    \/ AbandonReview(c)
    \/ AcceptExperience(c)
    \/ \E accepted \in BOOLEAN : Review(c, accepted)
    \/ RejectRelation(c)
    \/ Contradict(c)
    \/ Supersede(c)
    \/ /\ "forget" \in Makes[c]
       /\ \E a \in Artifact : ForgetArtifact(c, a)

TypedNext == Tick \/ \E c \in Caller : TypedStep(c)

TypedSpec == PassiveInit /\ [][TypedNext]_passiveVars

-----------------------------------------------------------------------------
(* Properties *)

\* All that an artifact was made from, through artifacts and capsules.
Evidence(a) ==
    LET raw == {o \in Observation : \E b \in Ancestors(a) : o \in SourcesOf[b]}
    IN  raw \cup UNION {copies[o] : o \in raw}

\* No pruning and no compaction takes away what an active accepted artifact
\* stands on, however far back: its sources are all there
\* (docs/USER_GUIDE.md:377, storage/artifacts.py:53).
ActiveProvenanceKept ==
    \A a \in Artifacts(db) : Active(db, a) =>
        \A b \in Ancestors(a) : b \in Artifacts(db) /\ db.art[b].cut = {}

\* What a user forgets is gone from everything concluded from it.
ForgottenErased ==
    CapsuleErased /\ \A a \in Artifacts(db) : Evidence(a) \cap forgotten = {}

\* Erasing one side of an open dispute is no resolution of it: the other side,
\* and what stands on it, is no longer active (docs/USER_GUIDE.md:394).
DisputeNeedsReview ==
    [][\A r \in db.rel :
          /\ Open(r, now)
          /\ {r.from, r.to} \cap Artifacts(db)' # {}
          /\ ~({r.from, r.to} \subseteq Artifacts(db)')
          => \A a \in {r.from, r.to} \cap Artifacts(db)' :
                \A d \in Artifacts(db)' : a \in Ancestors(d) => ~Active(db', d)]_passiveVars

\* A dispute is resolved only by a decision whose preview showed it.
ResolvedAsShown ==
    [][\A r \in db.rel, q \in db'.rel :
          /\ <<r.from, r.to, r.kind>> = <<q.from, q.to, q.kind>>
          /\ r.resolved # q.resolved
          => \E c \in Caller : /\ window[c].op = "review"
                               /\ window'[c] = Outside
                               /\ {r.from, r.to} \subseteq window[c].seen]_passiveVars

\* Whatever instant is asked about, the two versions of a superseded fact are
\* never both recalled.
OneVersionAtATime ==
    \A r \in db.rel : r.kind = "supersedes" =>
        \A at \in 0..MaxNow : ~({r.from, r.to} \subseteq Recalled(db, at))

\* A fact that takes over does not rewrite what was recalled of the time before.
HistoryKept ==
    [][\A b \in Artifacts(db) \cap Artifacts(db)' :
          db.art[b].to # db'.art[b].to =>
              \A at \in 0..(db'.art[b].to - 1) : Recalled(db, at) = Recalled(db', at)]_passiveVars
=============================================================================
