---------------------------- MODULE MCComponents ----------------------------
(***************************************************************************)
(* Small instances of the components that share no state: in a behaviour   *)
(* one of them runs, and the others stay as they begin.                    *)
(***************************************************************************)
EXTENDS DeltaContext, PostgresStore, SqliteConnection, SessionMemory, HostSetup,
        ReadOnlySnapshot, EvidenceContract, MemoryCommands, ExternalMemory, Retrieval

VARIABLE part

CONSTANTS
    l1, l2, l3,                                 \* tasks of the ledger
    j1, j2, t1, t2, c1, c2, path, k,            \* Postgres
    q1, q2, u1, u2, u3, u4, u5,                 \* processes and units of work
    h, o, s, v, i1, i2, i3,                     \* configuration files and installers
    n1, n2,                                     \* records
    r1, r2, k1, k2                              \* checkouts, memories

-----------------------------------------------------------------------------
\* One task waits for another, which has a page's worth of tokens.
LedgerDeps == [t \in Task |-> IF t = l2 THEN {l1} ELSE {}]
LedgerSizes == [t \in Task |-> IF t = l1 THEN 3 ELSE 1]

\* Two processes with a connection each; two jobs under one key, of one resource.
PgOneEach == (t1 :> c1) @@ (t2 :> c2)
PgRoles == (t1 :> PgCalls \ {"promote", "release", "failed"})
           @@ (t2 :> {"submit", "claim", "promote", "recover", "release", "failed"})
PgSameKey == [j \in PgJob |-> k]
PgSameResource == [j \in PgJob |-> path]
PgTwo == [j \in PgJob |-> 2]

\* A unit of every style, and two blocks.
ConnStyles == (u1 :> "bare") @@ (u2 :> "block") @@ (u3 :> "claim") @@ (u4 :> "block") @@ (u5 :> "write")

\* A file of each kind.
SetupKinds == (h :> "merged") @@ (o :> "owned") @@ (s :> "servers") @@ (v :> "mcp")

\* Two HEADs; one observation is large.
ContractHeads == [e \in Evidence |-> IF e < 3 THEN "h1" ELSE "h2"]
ContractCosts == [e \in Evidence |-> IF e = 2 THEN 3 ELSE 1]

RecordKinds == (n1 :> "family") @@ (n2 :> "private")

\* The checkout r2 sees less than r1, with the same model.
RecallSees == (r1 :> {k1, k2}) @@ (r2 :> {k2})
RecallStatuses == (k1 :> {"gone", "active"}) @@ (k2 :> {"gone", "active", "resolved"})
RecallModel == [q \in Asker |-> "e5"]

Symmetry == Permutations(Person) \cup Permutations(Message) \cup Permutations(Version)

-----------------------------------------------------------------------------
ComponentsInit ==
    /\ part \in {"ledger", "postgres", "connection", "sessions", "snapshot", "evidence", "commands", "external",
                 "retrieval"} \cup Config
    /\ Init /\ (part = "ledger" \/ cursor = 0)
    /\ PgInit /\ ConnInit /\ ImportInit /\ SetupInit /\ SnapInit /\ CommandInit /\ ExternalInit
    /\ RetrievalInit
    /\ ContractInit /\ (part = "evidence" \/ head = "h1")

\* The installers of a behaviour work on its file: two that were called for a
\* server file, one and a server for a hook file.  The host's own list of servers has
\* nothing to do with the files: it is changed while a server file is missing.  The
\* files that refuse whatever is unfit do so in one way.
OfThisFile ==
    ~ \/ part # v /\ configs'[part].state = "list"
      \/ part \in {h, s} /\ configs'[part].state = "field"
      \/ Hooks(part) /\ job'[i2] # Jobless
      \/ (part # s \/ configs[s] # Missing) /\ \E i \in Installer : job'[i].op \in {"add", "drop"}
      \/ \E x \in Config \ {part} : configs'[x] # configs[x] \/ lock'[x] # lock[x]
      \/ \E i \in Installer : "config" \in DOMAIN job'[i] /\ job'[i].config # part

ComponentsNext ==
    /\ UNCHANGED part
    /\ \/ /\ part = "ledger" /\ Next
          /\ UNCHANGED <<pgVars, connVars, importVars, snapVars, contractVars,
                         commandVars, externalVars, retrievalVars, setupVars>>
       \/ /\ part = "postgres" /\ PgNext
          /\ UNCHANGED <<vars, connVars, importVars, snapVars, contractVars,
                         commandVars, externalVars, retrievalVars, setupVars>>
       \/ /\ part = "connection" /\ ConnNext
          /\ UNCHANGED <<vars, pgVars, importVars, snapVars, contractVars,
                         commandVars, externalVars, retrievalVars, setupVars>>
       \/ /\ part = "sessions" /\ ImportNext
          /\ UNCHANGED <<vars, pgVars, connVars, snapVars, contractVars,
                         commandVars, externalVars, retrievalVars, setupVars>>
       \/ /\ part = "snapshot" /\ SnapNext
          /\ UNCHANGED <<vars, pgVars, connVars, importVars, contractVars,
                         commandVars, externalVars, retrievalVars, setupVars>>
       \/ /\ part = "evidence" /\ ContractNext
          /\ UNCHANGED <<vars, pgVars, connVars, importVars, snapVars,
                         commandVars, externalVars, retrievalVars, setupVars>>
       \/ /\ part = "commands" /\ CommandNext
          /\ UNCHANGED <<vars, pgVars, connVars, importVars, snapVars,
                         contractVars, externalVars, retrievalVars, setupVars>>
       \/ /\ part = "external" /\ ExternalNext
          /\ UNCHANGED <<vars, pgVars, connVars, importVars, snapVars,
                         contractVars, commandVars, retrievalVars, setupVars>>
       \/ /\ part = "retrieval" /\ RetrievalNext
          /\ UNCHANGED <<vars, pgVars, connVars, importVars, snapVars,
                         contractVars, commandVars, externalVars, setupVars>>
       \/ /\ part \in Config /\ SetupNext /\ OfThisFile
          /\ UNCHANGED <<vars, pgVars, connVars, importVars, snapVars,
                         contractVars, commandVars, externalVars, retrievalVars>>

ComponentsSpec ==
    /\ ComponentsInit
    /\ [][ComponentsNext]_<<part, vars, pgVars, connVars, importVars, snapVars, contractVars,
                           commandVars, externalVars, retrievalVars, setupVars>>
=============================================================================
