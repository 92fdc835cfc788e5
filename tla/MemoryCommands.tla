--------------------------- MODULE MemoryCommands ---------------------------
(***************************************************************************)
(* memory_action (memory.py), the one door of the CLI, the library and the *)
(* tools to a repository's memory: which requests are refused, which see a *)
(* private copy of the database and which the database itself, what they   *)
(* are let do there, and how the answer is cut to a token budget.          *)
(*                                                                         *)
(* The handlers behind the door are modelled in PassiveMemory, TypedMemory *)
(* and SessionMemory; here each is what it may change.                     *)
(***************************************************************************)
EXTENDS Integers

CONSTANTS
    AnswerBudget,    \* token_budget
    MemoryCost, CandidateCost, TraceCost,   \* tokens of a memory, of an external candidate, of a trace
    MaxAnswer        \* bound of the memories and of the candidates of an answer

VARIABLES
    request,   \* the arguments that decide
    door,      \* where the request has come: see Doors
    database,  \* whether there is a database
    changed,   \* what the handler changes
    answer     \* the result, before and while it is cut

commandVars == <<request, door, database, changed, answer>>

ASSUME AnswerBounds == {AnswerBudget, MemoryCost, CandidateCost, TraceCost, MaxAnswer} \subseteq Nat

-----------------------------------------------------------------------------
SessionOps == {"discover", "preview", "import", "list", "get", "review", "export"}
ExternalOps == {"health", "index", "retrieve", "delete"}
Actions == {"list", "search", "status", "forget", "clear", "stats", "compact", "trace", "reindex",
            "facts", "get", "candidates", "propose", "review", "relate", "episode", "experience",
            "export", "tree", "session", "external"}

\* confirm, a trusted gate, dry_run, an external or embedding session that the
\* product has injected, and the operation of a document.
Requests ==
    [action : Actions, confirm : BOOLEAN, gate : BOOLEAN, dry : BOOLEAN, injected : BOOLEAN,
     op : SessionOps \cup ExternalOps \cup {"none"}]

Sensible(r) ==
    /\ r.action = "session" => r.op \in SessionOps \cup {"none"}
    /\ r.action = "external" => r.op \in ExternalOps \cup {"none"}
    /\ r.action \notin {"session", "external"} => r.op = "none"
    /\ r.dry => r.action = "compact"

\* Refused before anything is opened.
Refused1(r) ==
    \/ r.action = "reindex" /\ ~(r.confirm /\ r.injected)
    \/ r.action = "clear" /\ ~r.confirm
    \/ r.action = "compact" /\ ~r.dry /\ ~r.confirm
    \/ r.action = "external" /\ (~r.injected \/ r.op = "none")
    \/ r.action = "session" /\ r.op = "none"

\* The requests that are served from a snapshot: _connect.
ReadOnly(r) ==
    \/ r.action \in {"list", "search", "trace", "stats", "facts", "get", "candidates", "tree", "external"}
    \/ r.action \in {"review", "relate", "experience", "export"} /\ ~r.gate
    \/ r.action = "compact" /\ r.dry
    \/ r.action = "session" /\ ~(r.op = "import" /\ r.confirm) /\ ~(r.op = "review" /\ r.gate)

\* What the handler of a request may change: a memory's status, what is named and
\* what depends on it, all of the family, old rows, the index, drafts, what counts
\* as accepted, imports; and outside the database a file, a product's copies.
Effect(r) ==
    CASE r.action = "status" -> {"status"}
      [] r.action = "forget" -> {"named"}
      [] r.action = "clear" -> {"family"}
      [] r.action = "compact" /\ ~r.dry -> {"pruned"}
      [] r.action = "reindex" -> {"index"}
      [] r.action \in {"propose", "episode"} -> {"drafts"}
      [] r.action \in {"review", "relate", "experience"} /\ r.gate -> {"authority"}
      [] r.action = "export" /\ r.gate -> {"files"}
      [] r.action = "session" /\ r.op = "import" /\ r.confirm -> {"imports"}
      [] r.action = "session" /\ r.op = "review" /\ r.gate -> {"authority"}
      [] r.action = "external" /\ r.op \in {"index", "delete"} /\ r.confirm -> {"copies"}
      [] OTHER -> {}

Outside == {"files", "copies"}

-----------------------------------------------------------------------------
(* The answer and its budget: _bounded *)

\* These answers are sent as they are, whatever their size.
Plain == {"status", "forget", "stats", "compact", "clear"}

\* What is said to be there: count, the trace's selected_ids, the folders' shown_count.
Fresh(r, memories, candidates, base, ambiguous, store) ==
    [op |-> IF r.action \in Plain THEN "sent" ELSE "cut", memories |-> memories, counted |-> memories,
     candidates |-> candidates, trace |-> r.action = "trace", base |-> base, ambiguous |-> ambiguous,
     truncated |-> FALSE, omitted |-> FALSE,
     found |-> memories, offered |-> candidates, disputed |-> ambiguous, store |-> store]

AnswerCost(a) == a.base + MemoryCost * a.memories + CandidateCost * a.candidates + (IF a.trace THEN TraceCost ELSE 0)

OverBudget(a) == AnswerCost(a) > AnswerBudget

WrongWithout(a) ==   \* BUG (OmissionTold): the omission is not flagged
    [a EXCEPT !.memories = @ - 1, !.counted = a.memories - 1, !.truncated = TRUE]

\* A memory the less.
Without(a) == [a EXCEPT !.memories = @ - 1, !.counted = a.memories - 1, !.truncated = TRUE, !.omitted = TRUE]

\* Nothing but its flags.
Minimal(a) == [a EXCEPT !.op = "sent", !.base = 0, !.truncated = TRUE, !.omitted = TRUE]

\* Candidates go first, then memories, then the trace.
Cut ==
    /\ door = "done" /\ answer.op = "cut"
    /\ answer' =
        IF ~OverBudget(answer) THEN [answer EXCEPT !.op = "sent"]
        ELSE IF answer.candidates > 0 THEN [answer EXCEPT !.candidates = @ - 1, !.truncated = TRUE]
        ELSE IF answer.memories > 0 THEN Without(answer)
        ELSE IF answer.trace THEN [answer EXCEPT !.trace = FALSE, !.truncated = TRUE]
        ELSE Minimal(answer)
    /\ UNCHANGED <<request, door, database, changed>>

-----------------------------------------------------------------------------
NoAnswer == [op |-> "none"]

Opened == {"discover", "memory", "snapshot", "live"}
Doors == {"idle", "asked", "refused", "absent", "done"} \cup Opened

Ask ==
    /\ door = "idle"
    /\ \E r \in Requests : Sensible(r) /\ request' = r
    /\ door' = "asked" /\ changed' = {} /\ answer' = NoAnswer
    /\ UNCHANGED database

Refuse ==
    /\ door = "asked" /\ Refused1(request)
    /\ door' = "refused"
    /\ UNCHANGED <<request, database, changed, answer>>

Entrance(r) ==
    IF r.action = "session" /\ r.op = "discover" THEN "discover"
    ELSE IF ~ReadOnly(r) THEN "live"
    ELSE IF database THEN "snapshot"
    ELSE IF r.action = "session" THEN "memory" ELSE "absent"

\* discover opens nothing.  A snapshot of a database that is not there creates
\* none: session goes on over a connection to an empty one in memory, the others
\* answer not_initialized.
Open ==
    /\ door = "asked" /\ ~Refused1(request)
    /\ door' = Entrance(request)
    /\ database' = (database \/ door' = "live")
    /\ UNCHANGED <<request, changed, answer>>

\* What a handler changes of what it may depends on what it finds there, and on
\* what the person decides.
Handle ==
    /\ door \in Opened
    /\ changed' \in SUBSET Effect(request)
    /\ \E memories, candidates \in 0..MaxAnswer, base \in {1, AnswerBudget + 1}, ambiguous \in BOOLEAN :
        /\ candidates > 0 => request.action = "external" /\ request.op = "retrieve"
        /\ request.action \in Plain => memories = 0
        /\ ambiguous => request.action \in {"facts", "tree", "trace"}
        /\ answer' = Fresh(request, memories, candidates, base, ambiguous, door)
    /\ door' = "done"
    /\ UNCHANGED <<request, database>>

\* The handler raises, or wants an argument it was not given; nothing is recorded of it.
Unavailable ==
    /\ door \in Opened
    /\ door' = "refused"
    /\ UNCHANGED <<request, database, changed, answer>>

Close ==
    /\ door \in {"refused", "absent"} \/ answer.op = "sent"
    /\ door' = "idle" /\ changed' = {} /\ answer' = NoAnswer
    /\ UNCHANGED <<request, database>>

CommandInit ==
    /\ request \in {r \in Requests : r.action = "list" /\ Sensible(r) /\ ~r.confirm /\ ~r.gate /\ ~r.injected}
    /\ door = "idle" /\ database = FALSE /\ changed = {} /\ answer = NoAnswer

CommandNext == Ask \/ Refuse \/ Open \/ Handle \/ Unavailable \/ Cut \/ Close

CommandSpec == CommandInit /\ [][CommandNext]_commandVars

-----------------------------------------------------------------------------
\* "Bound the final serialized payload" (memory.py:64) drops from the end of an
\* answer until it fits, and what is left stays true: it says that memories or
\* candidates were dropped, its counts, its trace and its folders name what is
\* still in it, and "The response retains an ambiguity flag even under a very
\* small token budget" (docs/USER_GUIDE.md:367), also when only the flags are left.
OmissionTold ==
    answer.op = "sent" =>
        /\ answer.memories < answer.found => answer.truncated /\ answer.omitted
        /\ answer.candidates < answer.offered => answer.truncated
        /\ answer.counted = answer.memories
        /\ answer.ambiguous = answer.disputed
        /\ request.action \notin Plain => AnswerCost(answer) <= AnswerBudget

\* The door decides on the database before the handler is known, by a list of its
\* own; the two agree.  Nothing is written into a copy, which is thrown away; and
\* the database is opened, and created if there is none, only for a request that
\* may write there or a file.  What destroys a family's memory, prunes it or replaces
\* its index, or is copied in or out, was confirmed; what is accepted or written to
\* a file has passed a person's gate.  To forget a named memory or to set its
\* status asks for neither.
WritesGoLive ==
    door = "done" =>
        /\ changed \subseteq Outside \/ answer.store = "live"
        /\ answer.store = "live" => Effect(request) \ {"copies"} # {}
        /\ changed \cap {"family", "pruned", "index", "imports", "copies"} # {} => request.confirm
        /\ changed \cap {"authority", "files"} # {} => request.gate

\* A command does what was asked and confirmed, and tells what it kept back.
CommandsAsAsked == WritesGoLive /\ OmissionTold
=============================================================================
