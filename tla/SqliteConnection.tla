-------------------------- MODULE SqliteConnection --------------------------
(***************************************************************************)
(* The connection of a process to the SQLite file (storage/sqlite.py): one *)
(* for all its threads, behind a lock, so a process makes one call at a    *)
(* time.  A call that writes is either a bare one, which relies on the     *)
(* transaction Python opens before the first UPDATE and commits at its     *)
(* end, or runs in transaction(), which nests as a savepoint, or is a      *)
(* claim, which opens and closes its transaction itself.  A bare call that *)
(* raises between its statements closes nothing: the transaction Python    *)
(* opened stays on the connection, and later calls run inside it.          *)
(*                                                                         *)
(* What a call writes are two rows, as a job and its event.                *)
(***************************************************************************)
EXTENDS Integers, FiniteSets

CONSTANTS
    Process,
    Unit,      \* calls that write; each is made at most once
    Style,     \* "bare", "write" (execute_write), "block" or "claim"
    NoUnit

VARIABLES
    disk,   \* the committed rows
    commits,\* the number of commits: the version of the file
    txn,    \* per process: the transaction on its connection
    doing,  \* per process: the call in progress
    told    \* the calls that reported success and had found no transaction open

connVars == <<disk, commits, txn, doing, told>>

\* snap is the version the transaction reads, 0 before its first statement.
Closed == [open |-> FALSE, snap |-> 0, writer |-> FALSE, pending |-> {}]
NoCall == [unit |-> NoUnit, rows |-> 0, nested |-> FALSE, saved |-> {}]

ASSUME ConnConstants ==
    /\ Style \in [Unit -> {"bare", "write", "block", "claim"}]
    /\ NoUnit \notin Unit

-----------------------------------------------------------------------------
(* What SQLite does *)

\* One writer at a time, and no write on a snapshot that is no longer the newest.
CanWrite(p) ==
    /\ \A q \in Process \ {p} : ~txn[q].writer
    /\ txn[p].snap \in {0, commits}

Writing(t, rows) == [open |-> TRUE, snap |-> commits, writer |-> TRUE, pending |-> t.pending \cup rows]

\* COMMIT and ROLLBACK; a commit without rows leaves the file as it is.
Commit(p) ==
    /\ disk' = disk \cup txn[p].pending
    /\ commits' = IF txn[p].pending = {} THEN commits ELSE commits + 1
    /\ txn' = [txn EXCEPT ![p] = Closed]

Rollback(p) == txn' = [txn EXCEPT ![p] = Closed] /\ UNCHANGED <<disk, commits>>

-----------------------------------------------------------------------------
(* Calls *)

CallEnds(p) == doing' = [doing EXCEPT ![p] = NoCall]
Report(p, u) == told' = IF doing[p].nested THEN told ELSE told \cup {u}
Used(u) == u \in told \/ {<<u, 1>>, <<u, 2>>} \cap (disk \cup UNION {txn[p].pending : p \in Process}) # {}
Runs(p, styles) == doing[p].unit # NoUnit /\ Style[doing[p].unit] \in styles

\* A read: inside a transaction it fixes what the transaction sees.
Read(p) ==
    /\ doing[p] = NoCall
    /\ txn[p].open /\ txn[p].snap = 0
    /\ txn' = [txn EXCEPT ![p].snap = commits]
    /\ UNCHANGED <<disk, commits, doing, told>>

\* A call begins; a block or a claim opens its transaction first.
Begin(p, u) ==
    /\ doing[p] = NoCall
    /\ ~Used(u) /\ \A q \in Process : doing[q].unit # u
    /\ LET call == [NoCall EXCEPT !.unit = u, !.nested = txn[p].open, !.saved = txn[p].pending]
       IN  \/ /\ Style[u] \in {"bare", "write"} \/ (Style[u] = "block" /\ txn[p].open)   \* SAVEPOINT
              /\ doing' = [doing EXCEPT ![p] = call]
              /\ UNCHANGED <<disk, commits, txn>>
           \/ /\ Style[u] \in {"block", "claim"} /\ ~txn[p].open /\ CanWrite(p)           \* BEGIN IMMEDIATE
              /\ txn' = [txn EXCEPT ![p] = Writing(Closed, {})]
              /\ doing' = [doing EXCEPT ![p] = call]
              /\ UNCHANGED <<disk, commits>>
           \/ /\ Style[u] = "claim" /\ txn[p].open                          \* refused: roll back
              /\ Rollback(p)
              /\ UNCHANGED doing
    /\ UNCHANGED told

\* The next of its two rows.
WriteInBlock(p) ==
    /\ doing[p].unit # NoUnit /\ doing[p].rows < 2
    /\ CanWrite(p)
    /\ txn' = [txn EXCEPT ![p] = Writing(@, {<<doing[p].unit, doing[p].rows + 1>>})]
    /\ doing' = [doing EXCEPT ![p].rows = @ + 1]
    /\ UNCHANGED <<disk, commits, told>>

\* A bare call raises: the database is locked or the snapshot old, a row is
\* refused by an index, or a value cannot be bound.
RaiseBare(p) ==
    /\ Runs(p, {"bare", "write"}) /\ doing[p].rows < 2
    /\ txn' = [txn EXCEPT ![p] = IF CanWrite(p) THEN Writing(@, {}) ELSE [@ EXCEPT !.open = TRUE]]
    /\ CallEnds(p)
    /\ UNCHANGED <<disk, commits, told>>

WrongUndone(p) ==   \* BUG (BlocksAreWhole): the savepoint is released without rolling back to it
    txn[p].pending

\* ROLLBACK TO the savepoint: the rows of the block go, those before it stay.
Undone(p) == doing[p].saved

RaiseBlock(p) ==
    /\ Runs(p, {"block"}) /\ doing[p].rows < 2
    /\ IF doing[p].nested
       THEN txn' = [txn EXCEPT ![p].pending = Undone(p)] /\ UNCHANGED <<disk, commits>>
       ELSE Rollback(p)
    /\ CallEnds(p)
    /\ UNCHANGED told

RaiseClaim(p) ==
    /\ Runs(p, {"claim"}) /\ doing[p].rows < 2
    /\ Rollback(p)
    /\ CallEnds(p)
    /\ UNCHANGED told

\* The end of a call: a nested block releases its savepoint, execute_write leaves
\* the transaction it found as it is, and every other call commits.
Finish(p) ==
    /\ doing[p].rows = 2
    /\ Report(p, doing[p].unit)
    /\ IF Runs(p, {"block", "write"}) /\ doing[p].nested
       THEN UNCHANGED <<disk, commits, txn>>
       ELSE Commit(p)
    /\ CallEnds(p)

\* A schema script: executescript commits what is open before it runs.
Script(p) ==
    /\ doing[p] = NoCall /\ txn[p].open
    /\ Commit(p)
    /\ UNCHANGED <<doing, told>>

\* The process dies, and another one opens the file.
Crash(p) ==
    /\ doing[p] # NoCall \/ txn[p].open
    /\ Rollback(p)
    /\ CallEnds(p)
    /\ UNCHANGED told

-----------------------------------------------------------------------------
ConnInit ==
    /\ disk = {}
    /\ commits = 1
    /\ txn = [p \in Process |-> Closed]
    /\ doing = [p \in Process |-> NoCall]
    /\ told = {}

ConnNext ==
    \E p \in Process :
        \/ Read(p)
        \/ \E u \in Unit : Begin(p, u)
        \/ WriteInBlock(p)
        \/ RaiseBare(p)
        \/ RaiseBlock(p)
        \/ RaiseClaim(p)
        \/ Finish(p)
        \/ Script(p)
        \/ Crash(p)

ConnSpec == ConnInit /\ [][ConnNext]_connVars

-----------------------------------------------------------------------------
(* Properties *)

\* Both rows of a block reach the file or neither, also when the block ran
\* inside the transaction a refused call left open, whatever ended that one.
BlocksAreWhole ==
    \A u \in Unit : Style[u] \in {"block", "claim"} => ((<<u, 1>> \in disk) = (<<u, 2>> \in disk))

\* What a call reported as done is in the file, if the call had not found a
\* transaction that an earlier refused call left open.
ToldIsDurable == \A u \in told : {<<u, 1>>, <<u, 2>>} \subseteq disk

\* A write is all there or not at all, and there once it was reported.
WritesAsTold == BlocksAreWhole /\ ToldIsDurable
=============================================================================
