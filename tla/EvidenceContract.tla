-------------------------- MODULE EvidenceContract --------------------------
(***************************************************************************)
(* The advisory contract for hosts (host_contract.py over                  *)
(* contract_repository.py and contract_receipt.py): the newest evidence of *)
(* a repository is read, ranked, cut to a number of items and a token      *)
(* budget, and sealed with a receipt that a host can have verified, after  *)
(* it went through other hands.                                            *)
(*                                                                         *)
(* Texts are their token cost; a hash is the value hashed.                 *)
(***************************************************************************)
EXTENDS Integers, Sequences, FiniteSets, SequencesExt

CONSTANTS
    Evidence,     \* observations of the repository, a set of numbers: later is larger
    Failed,       \* those that are tool failures
    Matching,     \* those that match the query
    EvidenceHead, \* the HEAD at which each was recorded
    Heads,        \* HEADs of the checkout
    EvidenceCost, \* tokens of an item
    ReceiptCost,  \* tokens of the receipt when it is attached
    EvidenceBudgets,   \* token_budget of the requests, without the envelope
    EvidenceLimits,    \* max_items of the requests
    LeastRows, MostRows, RowsPerItem   \* of the query: 80, 500, and 10 per item

VARIABLES
    head,     \* HEAD of the checkout
    found,    \* the observations in the database that pass the filters
    reply,    \* the response being built
    verdict   \* of the last verification

contractVars == <<head, found, reply, verdict>>

ASSUME ContractConstants ==
    /\ Evidence \subseteq Nat /\ Failed \subseteq Evidence
    /\ \A e \in Evidence : EvidenceHead[e] \in Heads /\ EvidenceCost[e] \in Nat
    /\ EvidenceLimits \subseteq Nat
    /\ {LeastRows, MostRows, RowsPerItem} \subseteq Nat

-----------------------------------------------------------------------------
NoReply == [op |-> "none"]

\* The LIMIT of _query_rows, which orders by age alone.
RowLimit(limit) ==
    LET n == limit * RowsPerItem
    IN  IF n < LeastRows THEN LeastRows ELSE IF n > MostRows THEN MostRows ELSE n

Newer(S, e) == {f \in S : f > e}

\* What the query returns: the rows with fewer than n newer ones.
Newest(S, n) == {e \in S : Cardinality(Newer(S, e)) < n}

\* _rank: the query, a failure, the same HEAD, and then the age.
Score(e, at) ==
    (IF e \in Matching THEN 5 ELSE 0) + (IF e \in Failed THEN 4 ELSE 2)
        + (IF EvidenceHead[e] = at THEN 4 ELSE -2)
Better(at, e, f) == Score(e, at) > Score(f, at) \/ (Score(e, at) = Score(f, at) /\ e > f)

Critical(S, at) == {e \in S : e \in Failed /\ EvidenceHead[e] = at}

\* What is critical comes before the rest.
Sooner(at, e, f) ==
    LET first == Critical({e, f}, at) IN
    IF e \in first <=> f \in first THEN Better(at, e, f) ELSE e \in first

\* The candidates as they are ranked.
Ranked(S, at) ==
    CHOOSE s \in SetToSeqs(S) : \A i, j \in DOMAIN s : i < j => Better(at, s[i], s[j])

WrongOrdered(S, at) == Ranked(S, at)   \* BUG (CriticalTold): by score alone

\* What is critical comes first, and so is dropped last.
Ordered(S, at) ==
    CHOOSE s \in SetToSeqs(S) : \A i, j \in DOMAIN s : i < j => Sooner(at, s[i], s[j])

Tokens(selected) == FoldSeq(LAMBDA e, n : EvidenceCost[e] + n, 0, selected)

\* repository_state.
BeginReply ==
    /\ reply = NoReply
    /\ \E budget \in EvidenceBudgets, limit \in EvidenceLimits :
          reply' = [op |-> "collect", head |-> head, budget |-> budget, limit |-> limit]
    /\ UNCHANGED <<head, found, verdict>>

\* collect_observations; the first max_items of the ranking, critical ones first.
Collect ==
    /\ reply.op = "collect"
    /\ LET at == reply.head
           rows == Newest(found, RowLimit(reply.limit))
           best == Ranked(rows, at)
           limited == Ordered({best[k] : k \in DOMAIN best \cap 1..reply.limit}, at)
       IN  reply' = [op |-> "fit", head |-> at, budget |-> reply.budget, candidates |-> rows,
                     limited |-> Len(limited), selected |-> limited, receipt |-> NoReply,
                     all |-> found, rows |-> RowLimit(reply.limit)]
    /\ UNCHANGED <<head, found, verdict>>

\* The budget section of the response: _budget.
BudgetOf(r) ==
    [candidates |-> Cardinality(r.candidates), selected |-> Len(r.selected),
     dropped |-> r.limited - Len(r.selected),
     truncated |-> Len(r.selected) < Cardinality(r.candidates),
     omitted |-> Critical(r.candidates, r.head) \ Range(r.selected) # {}]

\* The receipt: _receipt.
ReceiptOf(r) ==
    [head |-> r.head, candidates |-> Cardinality(r.candidates), selected |-> Len(r.selected),
     rejected |-> Cardinality(r.candidates) - Len(r.selected),
     reasons |-> <<Cardinality(r.candidates) - r.limited, r.limited - Len(r.selected)>>,
     truncated |-> Len(r.selected) < Cardinality(r.candidates)]

WithinBudget(r) == Tokens(r.selected) + (IF r.receipt = NoReply THEN 0 ELSE ReceiptCost) <= r.budget \/ r.selected = << >>

\* The last item goes until the rest fits: first without a receipt, then with it.
Drop ==
    /\ reply.op = "fit" /\ ~WithinBudget(reply)
    /\ LET r == [reply EXCEPT !.selected = Front(@)] IN
        reply' = IF reply.receipt = NoReply THEN r ELSE [r EXCEPT !.receipt = ReceiptOf(r)]
    /\ UNCHANGED <<head, found, verdict>>

Receipted(r) == [r EXCEPT !.receipt = ReceiptOf(r)]

AttachReceipt ==
    /\ reply.op = "fit" /\ WithinBudget(reply) /\ reply.receipt = NoReply
    /\ reply' = Receipted(reply)
    /\ UNCHANGED <<head, found, verdict>>

\* The sealed response: its body, and the receipt that has the body's hash.
Body(r) == [head |-> r.head, selected |-> r.selected, budget |-> BudgetOf(r)]

Seal ==
    /\ reply.op = "fit" /\ WithinBudget(reply) /\ reply.receipt # NoReply
    /\ reply' = [op |-> "sealed", body |-> Body(reply), seal |-> reply.receipt, hash |-> Body(reply),
                 budget |-> BudgetOf(reply), of |-> reply.candidates, limit |-> reply.budget,
                 all |-> reply.all, rows |-> reply.rows]
    /\ UNCHANGED <<head, found, verdict>>

\* A host keeps part of what it was given; the counts it may adjust, the hash not.
Trimmed(r) ==
    LET shorter == [r.body EXCEPT !.selected = Front(@)] IN
    {[r EXCEPT !.body = shorter],
     [r EXCEPT !.body = [shorter EXCEPT !.budget.selected = @ - 1], !.seal.selected = @ - 1,
               !.seal.rejected = @ + 1, !.budget.selected = @ - 1]}

Forwarded ==
    /\ reply.op = "sealed" /\ reply.body.selected # << >>
    /\ \E r \in Trimmed(reply) : reply' = [r EXCEPT !.op = "forwarded"]
    /\ UNCHANGED <<head, found, verdict>>

\* verify_receipt_payload: every check of the receipt against the response.
Verified(r) ==
    /\ r.hash = r.body
    /\ r.budget = r.body.budget
    /\ r.seal.head = r.body.head
    /\ r.seal.selected = Len(r.body.selected)
    /\ r.seal.rejected = r.seal.candidates - r.seal.selected
    /\ r.seal.reasons[1] + r.seal.reasons[2] = r.seal.rejected
    /\ r.body.budget.candidates = r.seal.candidates /\ r.body.budget.selected = r.seal.selected
    /\ r.seal.truncated = r.body.budget.truncated
    /\ r.seal.truncated = (r.seal.selected < r.seal.candidates)

Verify ==
    /\ reply.op \in {"sealed", "forwarded"}
    /\ verdict' = [valid |-> Verified(reply), whole |-> reply.op = "sealed"]
    /\ reply' = NoReply
    /\ UNCHANGED <<head, found>>

\* The workers of the repository go on.
Observed == \E e \in Evidence \ found : found' = found \cup {e} /\ UNCHANGED <<head, reply, verdict>>
Pruned == \E e \in found : found' = found \ {e} /\ UNCHANGED <<head, reply, verdict>>
Moves == \E at \in Heads \ {head} : head' = at /\ UNCHANGED <<found, reply, verdict>>

-----------------------------------------------------------------------------
ContractInit ==
    /\ head \in Heads
    /\ found = {}
    /\ reply = NoReply
    /\ verdict = [valid |-> TRUE, whole |-> TRUE]

ContractNext ==
    \/ BeginReply \/ Collect \/ Drop \/ AttachReceipt \/ Seal \/ Forwarded \/ Verify
    \/ Observed \/ Pruned \/ Moves

ContractSpec == ContractInit /\ [][ContractNext]_contractVars

-----------------------------------------------------------------------------
\* "Truncation and critical evidence omission are explicit" (docs/USER_GUIDE.md:255):
\* a critical failure of the HEAD is in the response, or its omission is told, save
\* for one that has a LIMIT's worth of newer rows: the query does not see it,
\* whatever these are, and nothing tells of it.  No other item is kept while a critical
\* one that was within max_items is dropped.  The budget may be exceeded by the seal
\* alone.
CriticalTold ==
    reply.op = "sealed" =>
        LET kept == Range(reply.body.selected)
            left == Critical(reply.of, reply.body.head) \ kept
        IN  /\ left # {} => reply.body.budget.omitted
            /\ \A e \in Critical(reply.all, reply.body.head) \ kept :
                  reply.body.budget.omitted \/ Cardinality(Newer(reply.all, e)) >= reply.rows
            /\ reply.body.budget.dropped > 0 /\ left # {} =>
                  \/ kept \subseteq Critical(reply.of, reply.body.head)
                  \/ Cardinality(left) <= reply.seal.reasons[1]
            /\ kept # {} => Tokens(reply.body.selected) + ReceiptCost <= reply.limit

\* A response that arrives as it was sealed verifies, however often items were
\* dropped after its counts were first taken; one that lost an item on the way
\* does not, though its counts were adjusted ("verifies that the embedded
\* receipt agrees with the response fields it claims to bind",
\* contract_receipt.py:4).
ReceiptVerifies == verdict.valid = verdict.whole

\* A host sees what was left out, whether djobs left it out or somebody after it.
OmissionsVisible == CriticalTold /\ ReceiptVerifies
=============================================================================
