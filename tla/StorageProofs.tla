--------------------------- MODULE StorageProofs ----------------------------
(***************************************************************************)
(* Proofs about what is beneath the queue: the unit of work of a SQLite    *)
(* connection, the copy of a database that is taken while it is written,   *)
(* the rows, row locks, claims and recoveries of Postgres, and the registry*)
(* of agents.                                                              *)
(***************************************************************************)
EXTENDS SqliteConnection, ReadOnlySnapshot, PostgresStore, AgentRegistry,
        FiniteSetTheorems, TLAPS

-----------------------------------------------------------------------------
(* SqliteConnection, for any processes and units of work. *)

Atomic(u) == Style[u] \in {"block", "claim"}

\* Of u, rows has both or none.
Whole(rows, u) == <<u, 1>> \in rows <=> <<u, 2>> \in rows

Txn == [open: BOOLEAN, snap: Nat, writer: BOOLEAN, pending: SUBSET (Unit \X {1, 2})]

Call == [unit: Unit \cup {NoUnit}, rows: {0, 1, 2}, nested: BOOLEAN, saved: SUBSET (Unit \X {1, 2})]

ConnTypeOK ==
    /\ txn \in [Process -> Txn] /\ doing \in [Process -> Call]
    /\ commits \in Nat /\ told \subseteq Unit

\* What a transaction holds: whole blocks, and of the call in progress the rows
\* it has written; its savepoint holds what was there before it.
Holds(t, call) ==
    /\ \A v \in Unit \ {call.unit} :
          Atomic(v) => Whole(t.pending, v) /\ Whole(call.saved, v)
    /\ call.unit = NoUnit => call.rows = 0
    /\ call.unit # NoUnit =>
          /\ <<call.unit, 1>> \in t.pending <=> call.rows \in {1, 2}
          /\ <<call.unit, 2>> \in t.pending <=> call.rows = 2
          /\ <<call.unit, 1>> \notin call.saved /\ <<call.unit, 2>> \notin call.saved

Held(p) == Holds(txn[p], doing[p])

ConnInv ==
    /\ ConnTypeOK
    /\ \A p \in Process : Held(p)
    /\ WritesAsTold

\* A closed transaction between two calls holds nothing.
LEMMA ClosedHolds ==
    /\ Closed \in Txn /\ NoCall \in Call
    /\ Closed.pending = {} /\ NoCall.saved = {} /\ NoCall.unit = NoUnit /\ NoCall.rows = 0
BY DEF Closed, NoCall, Txn, Call

LEMMA OthersHold ==
    ASSUME ConnInv, NEW p \in Process, ConnTypeOK', Held(p)',
           \A q \in Process \ {p} : txn'[q] = txn[q] /\ doing'[q] = doing[q],
           WritesAsTold'
    PROVE  ConnInv'
<1>1. ASSUME NEW q \in Process \ {p} PROVE Held(q)'
  BY DEF ConnInv, Held
<1>2. QED
  BY <1>1 DEF ConnInv

\* A call ends with its rows in the file.
LEMMA CommitKeeps ==
    ASSUME ConnInv, NEW p \in Process, Commit(p), CallEnds(p),
           doing[p].unit # NoUnit => doing[p].rows = 2,
           told' = told \/ (told' = told \cup {doing[p].unit} /\ doing[p].unit # NoUnit)
    PROVE  ConnInv'
<1> DEFINE u == doing[p].unit
<1>1. u \in Unit \cup {NoUnit} /\ Held(p) /\ ConnTypeOK
  BY DEF ConnInv, ConnTypeOK, Call
<1>2. u # NoUnit => <<u, 1>> \in txn[p].pending /\ <<u, 2>> \in txn[p].pending
  BY <1>1 DEF Held, Holds
<1>3. ASSUME NEW v \in Unit, Atomic(v) PROVE Whole(txn[p].pending, v)
  <2>1. CASE v = u
    BY <1>2, <2>1, ConnConstants DEF Whole
  <2>2. CASE v # u
    BY <1>1, <1>3, <2>2 DEF Held, Holds
  <2>3. QED
    BY <2>1, <2>2
<1>4. disk' = disk \cup txn[p].pending
  BY DEF Commit
<1>5. BlocksAreWhole'
  BY <1>3, <1>4 DEF ConnInv, WritesAsTold, BlocksAreWhole, Atomic, Whole
<1>6. ToldIsDurable'
  BY <1>2, <1>4 DEF ConnInv, WritesAsTold, ToldIsDurable
<1>7. txn'[p] = Closed /\ doing'[p] = NoCall
  BY <1>1 DEF Commit, CallEnds, ConnTypeOK
<1>8. ConnTypeOK'
  BY <1>1, ClosedHolds DEF Commit, CallEnds, ConnTypeOK
<1>9. Held(p)'
  BY <1>7, ClosedHolds DEF Held, Holds, Whole
<1>10. \A q \in Process \ {p} : txn'[q] = txn[q] /\ doing'[q] = doing[q]
  BY <1>1 DEF Commit, CallEnds, ConnTypeOK
<1>11. QED
  BY <1>5, <1>6, <1>8, <1>9, <1>10, OthersHold DEF WritesAsTold

LEMMA RollbackKeeps ==
    ASSUME ConnInv, NEW p \in Process, Rollback(p), told' = told,
           CallEnds(p) \/ (doing' = doing /\ doing[p] = NoCall)
    PROVE  ConnInv'
<1>1. ConnTypeOK
  BY DEF ConnInv
<1>2. /\ txn'[p] = Closed /\ doing'[p] = NoCall
      /\ \A q \in Process \ {p} : txn'[q] = txn[q] /\ doing'[q] = doing[q]
  BY <1>1 DEF Rollback, CallEnds, ConnTypeOK
<1>3. ConnTypeOK'
  BY <1>1, ClosedHolds DEF Rollback, CallEnds, ConnTypeOK
<1>4. Held(p)'
  BY <1>2, ClosedHolds DEF Held, Holds, Whole
<1>5. WritesAsTold'
  BY DEF ConnInv, Rollback, WritesAsTold, BlocksAreWhole, ToldIsDurable
<1>6. QED
  BY <1>2, <1>3, <1>4, <1>5, OthersHold

LEMMA StepKeeps ==
    ASSUME ConnInv, NEW p \in Process, NEW t \in Txn, NEW call \in Call, Holds(t, call),
           txn' = [txn EXCEPT ![p] = t], doing' = [doing EXCEPT ![p] = call],
           UNCHANGED <<disk, commits, told>>
    PROVE  ConnInv'
<1>1. ConnTypeOK
  BY DEF ConnInv
<1>2. /\ txn'[p] = t /\ doing'[p] = call
      /\ \A q \in Process \ {p} : txn'[q] = txn[q] /\ doing'[q] = doing[q]
  BY <1>1 DEF ConnTypeOK
<1>3. ConnTypeOK'
  BY <1>1 DEF ConnTypeOK
<1>4. Held(p)'
  BY <1>2 DEF Held
<1>5. WritesAsTold'
  BY DEF ConnInv, WritesAsTold, BlocksAreWhole, ToldIsDurable
<1>6. QED
  BY <1>2, <1>3, <1>4, <1>5, OthersHold

\* The transaction that SQLite leaves when it is written to.
LEMMA WritingHolds ==
    ASSUME ConnTypeOK, NEW t \in Txn, NEW rows \in SUBSET (Unit \X {1, 2})
    PROVE  Writing(t, rows) \in Txn /\ Writing(t, rows).pending = t.pending \cup rows
BY DEF ConnTypeOK, Writing, Txn

LEMMA ConnStep == ASSUME ConnInv, [ConnNext]_connVars PROVE ConnInv'
<1> USE DEF ConnTypeOK
<1>0. ConnTypeOK /\ \A p \in Process : Held(p)
  BY DEF ConnInv
<1>1. ASSUME NEW p \in Process, Read(p) PROVE ConnInv'
  <2>1. [txn[p] EXCEPT !.snap = commits] \in Txn
    BY <1>0 DEF Txn
  <2>2. Holds([txn[p] EXCEPT !.snap = commits], doing[p])
    BY <1>0 DEF Held, Holds, Txn
  <2>3. doing' = [doing EXCEPT ![p] = doing[p]]
    BY <1>0, <1>1 DEF Read
  <2>4. QED
    BY <1>0, <1>1, <2>1, <2>2, <2>3, StepKeeps DEF Read
<1>2. ASSUME NEW p \in Process, NEW u \in Unit, Begin(p, u) PROVE ConnInv'
  <2> DEFINE call == [NoCall EXCEPT !.unit = u, !.nested = txn[p].open, !.saved = txn[p].pending]
  <2>1. /\ call \in Call /\ call.unit = u /\ call.rows = 0 /\ call.saved = txn[p].pending
    BY <1>0 DEF NoCall, Call, Txn
  <2>2. <<u, 1>> \notin txn[p].pending /\ <<u, 2>> \notin txn[p].pending
    BY <1>2 DEF Begin, Used
  <2>3. \A v \in Unit : Atomic(v) => Whole(txn[p].pending, v)
    <3>1. doing[p].unit = NoUnit
      BY <1>2, ClosedHolds DEF Begin
    <3>2. QED
      BY <1>0, <3>1, ConnConstants DEF Held, Holds
  <2>4. Holds(txn[p], call)
    BY <2>1, <2>2, <2>3 DEF Holds
  <2> HIDE DEF call
  <2>5. CASE doing' = [doing EXCEPT ![p] = call] /\ UNCHANGED <<disk, commits, txn>>
    <3>1. txn' = [txn EXCEPT ![p] = txn[p]] /\ UNCHANGED told
      BY <1>0, <1>2, <2>5 DEF Begin
    <3>2. QED
      BY <1>0, <2>1, <2>4, <2>5, <3>1, StepKeeps
  <2>6. CASE /\ ~txn[p].open /\ txn' = [txn EXCEPT ![p] = Writing(Closed, {})]
             /\ doing' = [doing EXCEPT ![p] = call] /\ UNCHANGED <<disk, commits>>
    <3>1. Writing(Closed, {}) \in Txn /\ Writing(Closed, {}).pending = {}
      BY <1>0, ClosedHolds, WritingHolds
    <3>2. Holds(Writing(Closed, {}), call)
      BY <2>1, <2>2, <2>3, <3>1 DEF Holds, Whole
    <3>3. QED
      BY <1>2, <2>1, <2>6, <3>1, <3>2, StepKeeps DEF Begin
  <2>7. CASE Rollback(p) /\ UNCHANGED doing
    BY <1>2, <2>7, RollbackKeeps DEF Begin
  <2>8. QED
    BY <1>2, <2>5, <2>6, <2>7 DEF Begin, call
<1>3. ASSUME NEW p \in Process, WriteInBlock(p) PROVE ConnInv'
  <2> DEFINE u == doing[p].unit
             n == doing[p].rows
  <2>1. u \in Unit /\ n \in {0, 1} /\ Holds(txn[p], doing[p])
    BY <1>0, <1>3 DEF WriteInBlock, Call, Held
  <2>2. {<<u, n + 1>>} \in SUBSET (Unit \X {1, 2})
    BY <2>1
  <2>3. /\ Writing(txn[p], {<<u, n + 1>>}) \in Txn
        /\ Writing(txn[p], {<<u, n + 1>>}).pending = txn[p].pending \cup {<<u, n + 1>>}
    BY <1>0, <2>2, WritingHolds
  <2>4. /\ [doing[p] EXCEPT !.rows = n + 1] \in Call
        /\ [doing[p] EXCEPT !.rows = n + 1].unit = u
        /\ [doing[p] EXCEPT !.rows = n + 1].rows = n + 1
        /\ [doing[p] EXCEPT !.rows = n + 1].saved = doing[p].saved
    BY <1>0, <2>1 DEF Call
  <2>5. Holds(Writing(txn[p], {<<u, n + 1>>}), [doing[p] EXCEPT !.rows = n + 1])
    <3> DEFINE t == Writing(txn[p], {<<u, n + 1>>})
    <3>1. \A v \in Unit, k \in {1, 2} :
             <<v, k>> \in t.pending <=> <<v, k>> \in txn[p].pending \/ (v = u /\ k = n + 1)
      BY <2>3
    <3>2. \A v \in Unit \ {u} : Atomic(v) => Whole(t.pending, v) /\ Whole(doing[p].saved, v)
      BY <2>1, <3>1 DEF Holds, Whole
    <3>3. /\ <<u, 1>> \in t.pending <=> n + 1 \in {1, 2}
          /\ <<u, 2>> \in t.pending <=> n + 1 = 2
      <4> DEFINE was == txn[p].pending
      <4>1. u # NoUnit
        BY <2>1, ConnConstants
      <4>2. (<<u, 1>> \in was <=> n \in {1, 2}) /\ (<<u, 2>> \in was <=> n = 2)
        BY <2>1, <4>1 DEF Holds
      <4>3. (<<u, 1>> \in t.pending <=> <<u, 1>> \in was \/ n = 0)
            /\ (<<u, 2>> \in t.pending <=> <<u, 2>> \in was \/ n = 1)
        BY <2>1, <3>1
      <4> HIDE DEF u, n, t, was
      <4>4. n \in {0, 1}
        BY <2>1 DEF n
      <4>5. QED
        BY <4>2, <4>3, <4>4
    <3>4. <<u, 1>> \notin doing[p].saved /\ <<u, 2>> \notin doing[p].saved /\ u # NoUnit
      BY <2>1, ConnConstants DEF Holds
    <3> HIDE DEF t
    <3>5. QED
      BY <2>4, <3>2, <3>3, <3>4 DEF Holds, t
  <2>6. /\ txn' = [txn EXCEPT ![p] = Writing(txn[p], {<<u, n + 1>>})]
        /\ doing' = [doing EXCEPT ![p] = [doing[p] EXCEPT !.rows = n + 1]]
        /\ UNCHANGED <<disk, commits, told>>
    BY <1>3 DEF WriteInBlock
  <2>7. QED
    BY <2>3, <2>4, <2>5, <2>6, StepKeeps
\* What the call leaves in the transaction is whole, as far as it matters.
<1>12. ASSUME NEW p \in Process, NEW t \in Txn, txn' = [txn EXCEPT ![p] = t], CallEnds(p),
              UNCHANGED <<disk, commits, told>>,
              \A v \in Unit : Atomic(v) => Whole(t.pending, v)
       PROVE  ConnInv'
  <2>1. Holds(t, NoCall)
    BY <1>12, ClosedHolds DEF Holds, Whole
  <2>2. QED
    BY <1>12, <2>1, ClosedHolds, StepKeeps DEF CallEnds
<1>4. ASSUME NEW p \in Process, RaiseBare(p) PROVE ConnInv'
  <2>1. \A v \in Unit : Atomic(v) => Whole(txn[p].pending, v)
    BY <1>0, <1>4 DEF RaiseBare, Runs, Atomic, Held, Holds
  <2>2. PICK t \in Txn : txn' = [txn EXCEPT ![p] = t] /\ t.pending = txn[p].pending
    <3>0. txn[p] \in Txn /\ {} \in SUBSET (Unit \X {1, 2})
      BY <1>0
    <3>1. Writing(txn[p], {}) \in Txn /\ Writing(txn[p], {}).pending = txn[p].pending
      <4>1. Writing(txn[p], {}) \in Txn /\ Writing(txn[p], {}).pending = txn[p].pending \cup {}
        BY <1>0, <3>0, WritingHolds
      <4>2. txn[p].pending \cup {} = txn[p].pending
        OBVIOUS
      <4>3. QED
        BY <4>1, <4>2
    <3>2. /\ [txn[p] EXCEPT !.open = TRUE] \in Txn
          /\ [txn[p] EXCEPT !.open = TRUE].pending = txn[p].pending
      BY <1>0 DEF Txn
    <3>3. \/ txn' = [txn EXCEPT ![p] = Writing(txn[p], {})]
          \/ txn' = [txn EXCEPT ![p] = [txn[p] EXCEPT !.open = TRUE]]
      BY <1>4 DEF RaiseBare
    <3>4. QED
      BY <3>1, <3>2, <3>3
  <2>3. QED
    BY <1>4, <1>12, <2>1, <2>2 DEF RaiseBare
<1>5. ASSUME NEW p \in Process, RaiseBlock(p) PROVE ConnInv'
  <2>1. CASE ~doing[p].nested
    BY <1>5, <2>1, RollbackKeeps DEF RaiseBlock
  <2>2. CASE doing[p].nested
    <3>1. /\ [txn[p] EXCEPT !.pending = doing[p].saved] \in Txn
          /\ [txn[p] EXCEPT !.pending = doing[p].saved].pending = doing[p].saved
      BY <1>0 DEF Txn, Call
    <3>2. \A v \in Unit : Atomic(v) => Whole(doing[p].saved, v)
      BY <1>0, <1>5 DEF RaiseBlock, Runs, Held, Holds, Whole
    <3>3. /\ txn' = [txn EXCEPT ![p] = [txn[p] EXCEPT !.pending = doing[p].saved]]
          /\ CallEnds(p) /\ UNCHANGED <<disk, commits, told>>
      BY <1>5, <2>2 DEF RaiseBlock, Undone
    <3>4. QED
      BY <1>12, <3>1, <3>2, <3>3
  <2>3. QED
    BY <2>1, <2>2
<1>6. ASSUME NEW p \in Process, RaiseClaim(p) PROVE ConnInv'
  BY <1>6, RollbackKeeps DEF RaiseClaim
<1>7. ASSUME NEW p \in Process, Finish(p) PROVE ConnInv'
  <2>1. doing[p].rows = 2 /\ doing[p].unit # NoUnit /\ CallEnds(p)
    <3>1. doing[p].rows = 2 /\ CallEnds(p)
      BY <1>7 DEF Finish
    <3>2. Holds(txn[p], doing[p])
      BY <1>0 DEF Held
    <3>3. doing[p].unit # NoUnit
      BY <3>1, <3>2 DEF Holds
    <3>4. QED
      BY <3>1, <3>3
  <2>2. \A v \in Unit : Atomic(v) => Whole(txn[p].pending, v)
    BY <1>0, <2>1 DEF Held, Holds, Whole
  <2>3. CASE Runs(p, {"block", "write"}) /\ doing[p].nested
    <3>1. UNCHANGED <<disk, commits, txn>> /\ told' = told
      BY <1>7, <2>3 DEF Finish, Report
    <3>2. txn' = [txn EXCEPT ![p] = txn[p]] /\ txn[p] \in Txn
      BY <1>0, <3>1
    <3>3. QED
      BY <1>12, <2>1, <2>2, <3>1, <3>2
  <2>4. CASE ~(Runs(p, {"block", "write"}) /\ doing[p].nested)
    BY <1>7, <2>1, <2>4, CommitKeeps DEF Finish, Report
  <2>5. QED
    BY <2>3, <2>4
<1>8. ASSUME NEW p \in Process, Script(p) PROVE ConnInv'
  <2>1. Commit(p) /\ doing[p] = NoCall /\ doing' = doing /\ told' = told
    BY <1>8 DEF Script
  <2>2. CallEnds(p)
    BY <1>0, <2>1 DEF CallEnds
  <2>3. QED
    BY <2>1, <2>2, ClosedHolds, CommitKeeps
<1>9. ASSUME NEW p \in Process, Crash(p) PROVE ConnInv'
  BY <1>9, RollbackKeeps DEF Crash
<1>10. CASE UNCHANGED connVars
  BY <1>10 DEF connVars, ConnInv, Held, WritesAsTold, BlocksAreWhole, ToldIsDurable
<1>11. QED
  BY <1>1, <1>2, <1>3, <1>4, <1>5, <1>6, <1>7, <1>8, <1>9, <1>10 DEF ConnNext

\* Blocks reach the file whole and what was reported stays there, whatever
\* refused calls leave on the connections and whichever process dies.
THEOREM WritesKept == ConnSpec => []WritesAsTold
<1>1. ConnInit => ConnInv
  BY ClosedHolds DEF ConnInit, ConnInv, ConnTypeOK, Held, Holds, Whole, WritesAsTold,
     BlocksAreWhole, ToldIsDurable
<1>2. ConnInv /\ [ConnNext]_connVars => ConnInv'
  BY ConnStep
<1>3. ConnInv => WritesAsTold
  BY DEF ConnInv
<1>4. QED
  BY <1>1, <1>2, <1>3, PTL DEF ConnSpec

-----------------------------------------------------------------------------
(* ReadOnlySnapshot, for any pages, slots and commits. *)

\* A frame of the log: the commit it is of, and its generation.
Frame == [of : Nat, salt : Nat]

\* A place on disk only moves on: to a later generation, or in the file to a later commit.
Leq(f, g) == f.salt < g.salt \/ (f.salt = g.salt /\ f.of <= g.of)

EndsCommit(n) == n % Pages = 0

\* The types of what is on disk, and the room left in the log.
DatabaseTyped ==
    /\ file \in [1..Pages -> Nat]
    /\ log \in [1..Slots -> Frame]
    /\ writer \in [slot : Nat, salt : Nat, last : Nat]
    /\ writer.slot \in 1..(Slots + 1)
    /\ writer.salt > 0

\* The frames below the writer's slot are of its generation, the others are older;
\* no page of the file is newer than the last commit.
Generations ==
    /\ \A k \in 1..Slots : IF k < writer.slot THEN log[k].salt = writer.salt
                                              ELSE log[k].salt < writer.salt
    /\ \A page \in 1..Pages : file[page] <= writer.last

\* The last commit ends at the largest multiple below the writer's slot, or is in the file.
LastCommitIsWhole ==
    \E top \in 0..(writer.slot - 1) :
        /\ \A k \in 1..(writer.slot - 1) : EndsCommit(k) => k <= top
        /\ IF top = 0 THEN \A page \in 1..Pages : file[page] = writer.last
                      ELSE EndsCommit(top) /\ log[top].of = writer.last

\* After a restart the log holds nothing, or the old generation to its end.
OldGenerationIsWhole ==
    writer.slot = 1 =>
        \E s \in Nat : /\ \A k \in 1..Slots : log[k].salt = s
                       /\ s = 0 \/ Slots = 0 \/ log[Slots].of = writer.last

DatabaseInv == DatabaseTyped /\ Generations /\ LastCommitIsWhole /\ OldGenerationIsWhole

\* What the database is taken as, at any moment, is its last commit.
LEMMA RecoveredIsLast ==
    ASSUME DatabaseInv PROVE Recovered(file, log) = [page \in 1..Pages |-> writer.last]
<1> DEFINE whole == {n \in 1..Slots : /\ EndsCommit(n)
                                      /\ \A k \in 1..n : log[k].salt = log[1].salt /\ log[k].salt > 0}
<1>1. Pages \in Nat \ {0} /\ Slots \in Nat /\ EndsCommit(Slots)
  BY SnapConstants DEF EndsCommit
<1>2. Recovered(file, log) =
        IF whole = {} THEN file
        ELSE [page \in 1..Pages |-> log[CHOOSE n \in whole : \A k \in whole : k <= n].of]
  BY DEF Recovered, EndsCommit
<1>3. ASSUME NEW top \in whole, \A k \in whole : k <= top, log[top].of = writer.last
      PROVE  Recovered(file, log) = [page \in 1..Pages |-> writer.last]
  <2>1. whole \subseteq Nat
    BY <1>1
  <2> HIDE DEF whole
  <2>2. (CHOOSE n \in whole : \A k \in whole : k <= n) = top
    <3>1. \A n \in whole : (\A k \in whole : k <= n) => n = top
      BY <1>3, <2>1
    <3>2. QED
      BY <1>3, <3>1
  <2>3. QED
    BY <1>2, <1>3, <2>2
<1>4. ASSUME whole = {}, \A page \in 1..Pages : file[page] = writer.last
      PROVE  Recovered(file, log) = [page \in 1..Pages |-> writer.last]
  BY <1>2, <1>4 DEF DatabaseInv, DatabaseTyped
<1>5. CASE writer.slot = 1
  <2>1. \A page \in 1..Pages : file[page] = writer.last
    BY <1>5 DEF DatabaseInv, LastCommitIsWhole, DatabaseTyped
  <2>2. PICK s \in Nat : /\ \A k \in 1..Slots : log[k].salt = s
                         /\ s = 0 \/ Slots = 0 \/ log[Slots].of = writer.last
    BY <1>5 DEF DatabaseInv, OldGenerationIsWhole
  <2>3. CASE s = 0 \/ Slots = 0
    <3>1. whole = {}
      BY <1>1, <2>2, <2>3
    <3>2. QED
      BY <1>4, <2>1, <3>1
  <2>4. CASE s > 0 /\ Slots > 0
    <3>1. Slots \in whole /\ \A k \in whole : k <= Slots
      BY <1>1, <2>2, <2>4
    <3>2. QED
      BY <1>3, <2>2, <2>4, <3>1
  <2>5. QED
    BY <1>1, <2>3, <2>4
<1>6. CASE writer.slot > 1
  <2>1. PICK top \in 0..(writer.slot - 1) :
        /\ \A k \in 1..(writer.slot - 1) : EndsCommit(k) => k <= top
        /\ IF top = 0 THEN \A page \in 1..Pages : file[page] = writer.last
                      ELSE EndsCommit(top) /\ log[top].of = writer.last
    BY DEF DatabaseInv, LastCommitIsWhole
  <2>2. writer.slot \in Nat /\ writer.slot <= Slots + 1 /\ writer.salt \in Nat /\ writer.salt > 0
    BY <1>1 DEF DatabaseInv, DatabaseTyped
  <2>3. \A k \in 1..Slots : IF k < writer.slot THEN log[k].salt = writer.salt
                                               ELSE log[k].salt < writer.salt
    BY DEF DatabaseInv, Generations
  <2>4. \A n \in whole : n < writer.slot
    <3>1. SUFFICES ASSUME NEW n \in whole, n >= writer.slot PROVE FALSE
      BY <1>1, <2>2
    <3>2. n \in 1..Slots /\ log[n].salt = log[1].salt
      BY <1>1, <3>1
    <3>3. 1 \in 1..Slots /\ log[1].salt = writer.salt
      BY <1>1, <1>6, <2>2, <2>3
    <3>4. log[n].salt < writer.salt
      BY <1>1, <2>2, <2>3, <3>1, <3>2
    <3>5. QED
      BY <2>2, <3>2, <3>3, <3>4
  <2>5. \A n \in whole : n <= top
    BY <1>1, <2>1, <2>2, <2>4
  <2>6. CASE top = 0
    <3>1. whole = {}
      BY <1>1, <2>5, <2>6
    <3>2. QED
      BY <1>4, <2>1, <2>6, <3>1
  <2>7. CASE top # 0
    <3>1. top \in whole
      BY <1>1, <1>6, <2>1, <2>2, <2>3, <2>7
    <3>2. QED
      BY <1>3, <2>1, <2>5, <2>7, <3>1
  <2>8. QED
    BY <2>6, <2>7
<1>7. QED
  BY <1>1, <1>5, <1>6 DEF DatabaseInv, DatabaseTyped

\* Whatever is appended, checkpointed or restarted keeps the last commit whole.
LEMMA DatabaseStep == ASSUME DatabaseInv, [SnapNext]_snapVars PROVE DatabaseInv'
<1>1. Pages \in Nat \ {0} /\ Slots \in Nat /\ EndsCommit(Slots)
  BY SnapConstants DEF EndsCommit
<1>2. DatabaseTyped
  BY DEF DatabaseInv
<1>3. PICK top \in 0..(writer.slot - 1) :
        /\ \A k \in 1..(writer.slot - 1) : EndsCommit(k) => k <= top
        /\ IF top = 0 THEN \A page \in 1..Pages : file[page] = writer.last
                      ELSE EndsCommit(top) /\ log[top].of = writer.last
  BY DEF DatabaseInv, LastCommitIsWhole
<1>4. CASE AppendFrame
  <2> DEFINE slot == writer.slot
             now == IF EndsCommit(slot) THEN writer.last + 1 ELSE writer.last
  <2>1. /\ slot \in 1..Slots
        /\ log' = [log EXCEPT ![slot] = [of |-> writer.last + 1, salt |-> writer.salt]]
        /\ writer' = [writer EXCEPT !.slot = slot + 1, !.last = now]
        /\ file' = file
    BY <1>1, <1>2, <1>4 DEF AppendFrame, EndsCommit, DatabaseTyped
  <2>2. /\ writer.salt \in Nat /\ writer.salt > 0 /\ writer.last \in Nat
        /\ now \in Nat /\ writer.last <= now
    BY <1>2 DEF DatabaseTyped
  <2>3. /\ writer'.slot = slot + 1 /\ writer'.salt = writer.salt /\ writer'.last = now
        /\ writer' \in [slot : Nat, salt : Nat, last : Nat]
    <3> HIDE DEF now
    <3>1. slot + 1 \in Nat
      BY <1>1, <2>1
    <3>2. QED
      BY <1>2, <2>1, <2>2, <3>1 DEF DatabaseTyped
  <2>4. /\ log'[slot] = [of |-> writer.last + 1, salt |-> writer.salt]
        /\ \A k \in 1..Slots : k # slot => log'[k] = log[k]
        /\ log' \in [1..Slots -> Frame]
    BY <1>2, <2>1, <2>2 DEF DatabaseTyped, Frame
  <2> HIDE DEF now
  <2>5. DatabaseTyped'
    BY <1>1, <1>2, <2>1, <2>2, <2>3, <2>4 DEF DatabaseTyped
  <2>6. Generations'
    <3>1. \A k \in 1..Slots : IF k < slot + 1 THEN log'[k].salt = writer.salt
                                              ELSE log'[k].salt < writer.salt
      BY <1>1, <2>1, <2>4 DEF DatabaseInv, Generations
    <3>2. \A page \in 1..Pages : file[page] <= now
      BY <1>1, <1>2, <2>2 DEF DatabaseInv, Generations, DatabaseTyped
    <3>3. QED
      BY <2>1, <2>3, <3>1, <3>2 DEF Generations
  <2>7. LastCommitIsWhole'
    <3>1. CASE EndsCommit(slot)
      <4>1. log'[slot].of = now
        BY <2>4, <3>1 DEF now
      <4>2. slot \in 0..(slot + 1 - 1) /\ slot # 0 /\ \A k \in 1..(slot + 1 - 1) : k <= slot
        BY <1>1, <2>1
      <4>3. QED
        BY <2>3, <3>1, <4>1, <4>2 DEF LastCommitIsWhole, EndsCommit
    <3>2. CASE ~EndsCommit(slot)
      <4>1. now = writer.last
        BY <3>2 DEF now
      <4>2. top \in 0..(slot + 1 - 1) /\ \A k \in 1..(slot + 1 - 1) : EndsCommit(k) => k <= top
        BY <1>1, <1>3, <2>1, <3>2
      <4>3. top # 0 => log'[top] = log[top]
        BY <1>1, <1>3, <2>1, <2>4
      <4>4. QED
        BY <1>3, <2>1, <2>3, <4>1, <4>2, <4>3 DEF LastCommitIsWhole, EndsCommit
    <3>3. QED
      BY <3>1, <3>2
  <2>8. OldGenerationIsWhole'
    BY <1>1, <2>1, <2>3 DEF OldGenerationIsWhole
  <2>9. QED
    BY <2>5, <2>6, <2>7, <2>8 DEF DatabaseInv
<1>5. CASE CheckpointPage
  <2>1. PICK page \in 1..Pages : file[page] # writer.last /\ file' = [file EXCEPT ![page] = writer.last]
    BY <1>5 DEF CheckpointPage
  <2>2. UNCHANGED <<log, writer>> /\ writer.slot = Slots + 1
    BY <1>1, <1>2, <1>5 DEF CheckpointPage, DatabaseTyped
  <2>3. top # 0
    BY <1>3, <2>1
  <2>4. DatabaseTyped' /\ Generations'
    BY <1>1, <1>2, <2>1, <2>2 DEF DatabaseInv, DatabaseTyped, Generations
  <2>5. LastCommitIsWhole'
    BY <1>3, <2>2, <2>3 DEF LastCommitIsWhole, EndsCommit
  <2>6. OldGenerationIsWhole'
    BY <2>2 DEF DatabaseInv, OldGenerationIsWhole
  <2>7. QED
    BY <2>4, <2>5, <2>6 DEF DatabaseInv
<1>6. CASE RestartLog
  <2>1. /\ writer.slot = Slots + 1
        /\ \A page \in 1..Pages : file[page] = writer.last
        /\ UNCHANGED <<file, log>>
        /\ writer' = [writer EXCEPT !.slot = 1, !.salt = writer.salt + 1]
    BY <1>1, <1>2, <1>6 DEF RestartLog, DatabaseTyped
  <2>2. /\ writer'.slot = 1 /\ writer'.salt = writer.salt + 1 /\ writer'.last = writer.last
        /\ writer' \in [slot : Nat, salt : Nat, last : Nat]
    <3>1. writer \in [slot : Nat, salt : Nat, last : Nat]
      BY <1>2 DEF DatabaseTyped
    <3>2. 1 \in Nat /\ writer.salt + 1 \in Nat
      BY <3>1
    <3>3. QED
      BY <2>1, <3>1, <3>2
  <2>3. \A k \in 1..Slots : log[k].salt = writer.salt
    BY <1>1, <2>1 DEF DatabaseInv, Generations
  <2>4. writer.salt \in Nat /\ writer.last \in Nat
    BY <1>2 DEF DatabaseTyped
  <2>5. DatabaseTyped'
    BY <1>1, <1>2, <2>1, <2>2, <2>4 DEF DatabaseTyped
  <2>6. Generations'
    BY <1>1, <2>1, <2>2, <2>3, <2>4 DEF DatabaseInv, Generations
  <2>7. LastCommitIsWhole'
    <3>1. 0 \in 0..(1 - 1) /\ \A k \in 1..(1 - 1) : FALSE
      OBVIOUS
    <3>2. QED
      BY <2>1, <2>2, <3>1 DEF LastCommitIsWhole
  <2>8. OldGenerationIsWhole'
    <3>1. CASE Slots > 0
      <4>1. Slots \in 1..(writer.slot - 1)
        BY <1>1, <2>1, <3>1
      <4>2. top = Slots
        BY <1>1, <1>3, <2>1, <4>1
      <4>3. log[Slots].of = writer.last
        BY <1>3, <3>1, <4>2
      <4>4. QED
        BY <2>1, <2>2, <2>3, <2>4, <4>3 DEF OldGenerationIsWhole
    <3>2. CASE Slots = 0
      BY <2>1, <2>2, <2>3, <2>4, <3>2 DEF OldGenerationIsWhole
    <3>3. QED
      BY <1>1, <3>1, <3>2
  <2>9. QED
    BY <2>5, <2>6, <2>7, <2>8 DEF DatabaseInv
<1>7. CASE UNCHANGED <<file, log, writer>>
  BY <1>7 DEF DatabaseInv, DatabaseTyped, Generations, LastCommitIsWhole, OldGenerationIsWhole
<1>8. QED
  BY <1>4, <1>5, <1>6, <1>7 DEF SnapNext, snapVars, BeginCapture, CopyNext, VerifyNext, OpenCopy,
     SnapshotUnavailable

-----------------------------------------------------------------------------
\* Moving on is an order.
LEMMA LeqOrder ==
    /\ \A f \in Frame : Leq(f, f)
    /\ \A f, g, h \in Frame : Leq(f, g) /\ Leq(g, h) => Leq(f, h)
    /\ \A f, g \in Frame : Leq(f, g) /\ Leq(g, f) => f = g
<1>1. \A f \in Frame : f.of \in Nat /\ f.salt \in Nat /\ f = [of |-> f.of, salt |-> f.salt]
  BY DEF Frame
<1>2. \A f \in Frame : Leq(f, f)
  BY <1>1 DEF Leq
<1>3. \A f, g, h \in Frame : Leq(f, g) /\ Leq(g, h) => Leq(f, h)
  BY <1>1 DEF Leq
<1>4. ASSUME NEW f \in Frame, NEW g \in Frame, Leq(f, g), Leq(g, f) PROVE f = g
  <2>1. f.of = g.of /\ f.salt = g.salt
    BY <1>1, <1>4 DEF Leq
  <2>2. QED
    BY <1>1, <2>1
<1>5. QED
  BY <1>2, <1>3, <1>4

\* The k-th place of a copy of a file and a log: pages first, frames after them.
At(f, w, k) == IF k <= Pages THEN [of |-> f[k], salt |-> 0] ELSE w[k - Pages]

Places == 1..(Pages + Slots)

\* A place holds a frame.
LEMMA PlacesTyped ==
    ASSUME NEW f \in [1..Pages -> Nat], NEW w \in [1..Slots -> Frame], NEW k \in Places
    PROVE  At(f, w, k) \in Frame
<1>1. Pages \in Nat /\ Slots \in Nat
  BY SnapConstants
<1>2. CASE k <= Pages
  BY <1>1, <1>2 DEF At, Frame, Places
<1>3. CASE ~(k <= Pages)
  <2>1. k - Pages \in 1..Slots
    BY <1>1, <1>3 DEF Places
  <2>2. QED
    BY <1>3, <2>1 DEF At
<1>4. QED
  BY <1>2, <1>3

\* Every place on disk only moves on.
LEMMA PlacesMoveOn ==
    ASSUME DatabaseInv, [SnapNext]_snapVars
    PROVE  \A k \in Places : Leq(ReadOf(k), ReadOf(k)')
<1>0. SUFFICES ASSUME NEW k \in Places PROVE Leq(ReadOf(k), ReadOf(k)')
  OBVIOUS
<1>1. Pages \in Nat \ {0} /\ Slots \in Nat /\ k \in 1..(Pages + Slots)
  BY SnapConstants DEF Places
<1>3. ReadOf(k) \in Frame
  BY PlacesTyped DEF DatabaseInv, DatabaseTyped, ReadOf, At
<1>4. ASSUME UNCHANGED <<file, log>> PROVE Leq(ReadOf(k), ReadOf(k)')
  BY <1>3, <1>4, LeqOrder DEF ReadOf
<1>5. CASE AppendFrame
  <2>1. CASE k - Pages = writer.slot
    <3>1. k - Pages \in 1..Slots /\ ~(k <= Pages)
      BY <1>1, <1>5, <2>1 DEF AppendFrame, DatabaseInv, DatabaseTyped
    <3>2. ReadOf(k)'.salt = writer.salt
      BY <1>5, <2>1, <3>1 DEF AppendFrame, ReadOf, DatabaseInv, DatabaseTyped
    <3>3. ReadOf(k).salt < writer.salt
      BY <1>1, <2>1, <3>1 DEF ReadOf, DatabaseInv, Generations, DatabaseTyped
    <3>4. QED
      BY <3>2, <3>3 DEF Leq
  <2>2. CASE k - Pages # writer.slot
    <3>1. ReadOf(k)' = ReadOf(k)
      <4>1. CASE k <= Pages
        BY <1>5, <4>1 DEF AppendFrame, ReadOf
      <4>2. CASE ~(k <= Pages)
        <5>1. k - Pages \in 1..Slots
          BY <1>1, <4>2
        <5>2. log'[k - Pages] = log[k - Pages]
          BY <1>5, <2>2, <5>1 DEF AppendFrame, DatabaseInv, DatabaseTyped
        <5>3. QED
          BY <4>2, <5>2 DEF ReadOf
      <4>3. QED
        BY <4>1, <4>2
    <3>2. QED
      BY <1>3, <3>1, LeqOrder
  <2>3. QED
    BY <2>1, <2>2
<1>6. CASE CheckpointPage
  <2>1. PICK page \in 1..Pages : file' = [file EXCEPT ![page] = writer.last]
    BY <1>6 DEF CheckpointPage
  <2>2. log' = log
    BY <1>6 DEF CheckpointPage
  <2>3. CASE k = page
    <3>1. ReadOf(k)' = [of |-> writer.last, salt |-> 0] /\ ReadOf(k) = [of |-> file[k], salt |-> 0]
      BY <1>1, <2>1, <2>3 DEF ReadOf, DatabaseInv, DatabaseTyped
    <3>2. file[k] <= writer.last
      BY <2>3 DEF DatabaseInv, Generations
    <3>3. QED
      BY <3>1, <3>2 DEF Leq
  <2>4. CASE k # page
    <3>1. ReadOf(k)' = ReadOf(k)
      BY <1>1, <2>1, <2>2, <2>4 DEF ReadOf, DatabaseInv, DatabaseTyped
    <3>2. QED
      BY <1>3, <3>1, LeqOrder
  <2>5. QED
    BY <2>3, <2>4
<1>7. QED
  BY <1>4, <1>5, <1>6 DEF SnapNext, snapVars, RestartLog, BeginCapture, CopyNext, VerifyNext, OpenCopy,
     SnapshotUnavailable

-----------------------------------------------------------------------------
\* While it copies: every place copied was there then, and has only moved on.
CopyMovesOn ==
    capture.op = "copy" =>
        /\ capture.copied \in Seq(Frame)
        /\ Len(capture.copied) < Pages + Slots
        /\ capture.checked = 0
        /\ capture.since \in Nat /\ capture.since <= writer.last
        /\ \A k \in 1..Len(capture.copied) : Leq(capture.copied[k], ReadOf(k))

\* f and w were the database at the moment the copy was complete: every place lies
\* between what was copied and what is there now, and commit n was the last.
Between(f, w, n) ==
    /\ f = [page \in 1..Pages |-> f[page]] /\ w = [slot \in 1..Slots |-> w[slot]]
    /\ n \in Nat /\ capture.since <= n /\ n <= writer.last
    /\ Recovered(f, w) = [page \in 1..Pages |-> n]
    /\ \A k \in Places : /\ At(f, w, k) \in Frame
                         /\ Leq(capture.copied[k], At(f, w, k))
                         /\ Leq(At(f, w, k), ReadOf(k))
    /\ \A k \in 1..capture.checked : capture.copied[k] = At(f, w, k)

\* While it verifies: the database was as copied so far at some moment.
VerifyBetween ==
    capture.op = "verify" =>
        /\ capture.copied \in Seq(Frame)
        /\ Len(capture.copied) = Pages + Slots
        /\ capture.checked \in 0..(Pages + Slots)
        /\ capture.since \in Nat
        /\ \E f, w, n : Between(f, w, n)

\* The inductive invariant of the capture and what runs beside it.
SnapInv ==
    /\ DatabaseInv
    /\ capture # NoCapture => capture.op \in {"copy", "verify"}
    /\ capture # NoCapture => capture = [op |-> capture.op, copied |-> capture.copied,
                                         checked |-> capture.checked, since |-> capture.since]
    /\ CopyMovesOn /\ VerifyBetween
    /\ SnapshotIsCommitted

\* A step that leaves the capture alone moves the places on.
LEMMA CaptureKept ==
    ASSUME SnapInv, [SnapNext]_snapVars, capture' = capture
    PROVE  CopyMovesOn' /\ VerifyBetween'
<1>1. Pages \in Nat /\ Slots \in Nat
  BY SnapConstants
<1>2. DatabaseInv /\ DatabaseInv'
  BY DatabaseStep DEF SnapInv
<1>3. \A k \in Places : ReadOf(k) \in Frame /\ ReadOf(k)' \in Frame /\ Leq(ReadOf(k), ReadOf(k)')
  <2>1. \A k \in Places : ReadOf(k) = At(file, log, k) /\ ReadOf(k)' = At(file', log', k)
    BY DEF ReadOf, At
  <2>2. \A k \in Places : ReadOf(k) \in Frame
    BY <1>2, <2>1, PlacesTyped DEF DatabaseInv, DatabaseTyped
  <2>3. \A k \in Places : ReadOf(k)' \in Frame
    BY <1>2, <2>1, PlacesTyped DEF DatabaseInv, DatabaseTyped
  <2>4. \A k \in Places : Leq(ReadOf(k), ReadOf(k)')
    BY <1>2, PlacesMoveOn
  <2>5. QED
    BY <2>2, <2>3, <2>4
<1>4. writer.last \in Nat /\ writer'.last \in Nat
  BY <1>2 DEF DatabaseInv, DatabaseTyped
<1>5. writer.last <= writer'.last
  <2>1. writer \in [slot : Nat, salt : Nat, last : Nat]
    BY <1>2 DEF DatabaseInv, DatabaseTyped
  <2>2. CASE AppendFrame
    <3>1. \E slot, now : writer' = [writer EXCEPT !.slot = slot, !.last = now] /\ now \in {writer.last, writer.last + 1}
      BY <2>2 DEF AppendFrame
    <3>2. QED
      BY <1>4, <2>1, <3>1
  <2>3. CASE RestartLog
    BY <1>4, <2>1, <2>3 DEF RestartLog
  <2>4. CASE UNCHANGED writer
    BY <1>4, <2>4
  <2>5. QED
    BY <2>2, <2>3, <2>4 DEF SnapNext, snapVars, CheckpointPage, BeginCapture, CopyNext, VerifyNext,
       OpenCopy, SnapshotUnavailable
<1>6. CopyMovesOn'
  <2>1. SUFFICES ASSUME capture.op = "copy" PROVE CopyMovesOn'
    BY DEF CopyMovesOn
  <2>2. \A k \in 1..Len(capture.copied) : k \in Places /\ capture.copied[k] \in Frame
    BY <1>1, <2>1 DEF SnapInv, CopyMovesOn, Places
  <2>3. \A k \in 1..Len(capture.copied) : Leq(capture.copied[k], ReadOf(k)')
    BY <1>3, <2>1, <2>2, LeqOrder DEF SnapInv, CopyMovesOn
  <2>4. capture.since <= writer'.last
    BY <1>4, <1>5, <2>1 DEF SnapInv, CopyMovesOn
  <2>5. QED
    BY <2>1, <2>3, <2>4 DEF SnapInv, CopyMovesOn
<1>7. VerifyBetween'
  <2>1. SUFFICES ASSUME capture.op = "verify" PROVE VerifyBetween'
    BY DEF VerifyBetween
  <2>2. PICK f, w, n : Between(f, w, n)
    BY <2>1 DEF SnapInv, VerifyBetween
  <2>3. \A k \in Places : Leq(At(f, w, k), ReadOf(k)')
    BY <1>3, <2>2, LeqOrder DEF Between
  <2>4. n <= writer'.last
    BY <1>4, <1>5, <2>2 DEF Between
  <2>5. Between(f, w, n)'
    BY <2>2, <2>3, <2>4 DEF Between
  <2>6. QED
    BY <2>1, <2>5 DEF SnapInv, VerifyBetween
<1>8. QED
  BY <1>6, <1>7

\* Each step of the database, and of the capture, keeps it.
LEMMA CaptureStep == ASSUME SnapInv, SnapNext PROVE SnapInv'
<1>1. Pages \in Nat \ {0} /\ Slots \in Nat
  BY SnapConstants
<1>2. DatabaseInv /\ DatabaseInv'
  BY DatabaseStep DEF SnapInv
<1>3. \A k \in Places : ReadOf(k) \in Frame
  BY <1>2, PlacesTyped DEF DatabaseInv, DatabaseTyped, ReadOf, At
<1>4. writer.last \in Nat
  BY <1>2 DEF DatabaseInv, DatabaseTyped
<1>5. CASE AppendFrame \/ CheckpointPage \/ RestartLog
  <2>1. UNCHANGED <<capture, view>>
    BY <1>5 DEF AppendFrame, CheckpointPage, RestartLog
  <2>2. CopyMovesOn' /\ VerifyBetween'
    BY <2>1, CaptureKept
  <2>3. QED
    BY <1>2, <2>1, <2>2 DEF SnapInv, SnapshotIsCommitted
<1>6. ASSUME capture' = NoCapture, SnapshotIsCommitted' PROVE SnapInv'
  BY <1>2, <1>6 DEF SnapInv, NoCapture, CopyMovesOn, VerifyBetween
<1>7. CASE BeginCapture
  <2>1. capture' = [op |-> "copy", copied |-> << >>, checked |-> 0, since |-> writer.last]
    BY <1>7 DEF BeginCapture
  <2>2. UNCHANGED <<file, log, writer>> /\ view' = NoView
    BY <1>7 DEF BeginCapture
  <2>3. CopyMovesOn'
    BY <1>1, <1>4, <2>1, <2>2 DEF CopyMovesOn
  <2>4. QED
    BY <1>2, <2>1, <2>2, <2>3 DEF SnapInv, VerifyBetween, SnapshotIsCommitted
<1>8. CASE CopyNext
  <2> DEFINE n == Len(capture.copied) + 1
             copied == Append(capture.copied, ReadOf(n))
  <2>1. /\ capture.op = "copy" /\ UNCHANGED <<file, log, writer, view>>
        /\ capture.copied \in Seq(Frame) /\ n \in Places
        /\ capture.checked = 0 /\ capture.since \in Nat /\ capture.since <= writer.last
        /\ \A k \in 1..Len(capture.copied) : Leq(capture.copied[k], ReadOf(k))
    BY <1>1, <1>8 DEF CopyNext, SnapInv, CopyMovesOn, Places
  <2>2. /\ copied \in Seq(Frame) /\ Len(copied) = n
        /\ copied[n] = ReadOf(n) /\ \A k \in 1..(n - 1) : copied[k] = capture.copied[k]
    BY <1>3, <2>1
  <2>3. capture.copied \o <<ReadOf(n)>> = copied
    BY <1>3, <2>1
  <2>4. /\ capture'.op = (IF n < Pages + Slots THEN "copy" ELSE "verify")
        /\ capture'.copied = copied /\ capture'.checked = 0 /\ capture'.since = capture.since
        /\ capture' = [op |-> capture'.op, copied |-> capture'.copied,
                       checked |-> capture'.checked, since |-> capture'.since]
    <3>1. capture = [op |-> capture.op, copied |-> capture.copied,
                     checked |-> capture.checked, since |-> capture.since]
      BY <2>1 DEF SnapInv, NoCapture
    <3>2. capture' = [capture EXCEPT !.copied = copied,
                                     !.op = IF n < Pages + Slots THEN "copy" ELSE "verify"]
      BY <1>8, <2>3 DEF CopyNext
    <3> HIDE DEF copied, n
    <3>3. QED
      BY <2>1, <3>1, <3>2
  <2>5. \A k \in 1..n : Leq(copied[k], ReadOf(k))
    <3>1. Leq(copied[n], ReadOf(n))
      BY <1>3, <2>1, <2>2, LeqOrder
    <3>2. \A k \in 1..n : k = n \/ (k \in 1..(n - 1) /\ k \in 1..Len(capture.copied))
      BY <2>1
    <3> HIDE DEF copied, n
    <3>3. QED
      BY <2>1, <2>2, <3>1, <3>2
  <2>9. \A k \in Places : ReadOf(k)' = ReadOf(k)
    BY <2>1 DEF ReadOf
  <2> HIDE DEF copied
  <2>6. CASE n < Pages + Slots
    <3>1. CopyMovesOn'
      BY <1>1, <2>1, <2>2, <2>4, <2>5, <2>6, <2>9 DEF CopyMovesOn, Places
    <3>2. QED
      BY <1>2, <2>1, <2>4, <2>6, <3>1 DEF SnapInv, VerifyBetween, SnapshotIsCommitted
  <2>7. CASE n = Pages + Slots
    <3>1. \A k \in Places : At(file, log, k) = ReadOf(k)
      BY DEF At, ReadOf
    <3>2. \A k \in Places : At(file, log, k) \in Frame /\ Leq(At(file, log, k), ReadOf(k))
                            /\ Leq(copied[k], At(file, log, k))
      BY <1>3, <2>5, <2>7, <3>1, LeqOrder DEF Places
    <3>3. Recovered(file, log) = [page \in 1..Pages |-> writer.last]
      BY <1>2, RecoveredIsLast
    <3>4. /\ file = [page \in 1..Pages |-> file[page]]
          /\ log = [slot \in 1..Slots |-> log[slot]]
      BY <1>2 DEF DatabaseInv, DatabaseTyped
    <3>5. Between(file, log, writer.last)'
      BY <1>4, <2>1, <2>4, <2>9, <3>2, <3>3, <3>4 DEF Between
    <3>6. VerifyBetween'
      BY <1>1, <2>1, <2>2, <2>4, <2>7, <3>5 DEF VerifyBetween
    <3>7. QED
      BY <1>2, <2>1, <2>4, <2>7, <3>6 DEF SnapInv, CopyMovesOn, SnapshotIsCommitted
  <2>8. QED
    BY <1>1, <2>1, <2>6, <2>7 DEF Places
<1>9. CASE VerifyNext
  <2>1. CASE ~Stable(capture.checked + 1)
    <3>1. capture' = NoCapture /\ view' = view
      BY <1>9, <2>1 DEF VerifyNext
    <3>2. QED
      BY <1>6, <3>1 DEF SnapInv, SnapshotIsCommitted
  <2>2. CASE Stable(capture.checked + 1)
    <3>1. /\ capture.op = "verify" /\ UNCHANGED <<file, log, writer, view>>
          /\ capture.copied \in Seq(Frame) /\ Len(capture.copied) = Pages + Slots
          /\ capture.checked \in 0..(Pages + Slots) /\ capture.checked < Pages + Slots
          /\ capture.since \in Nat
      BY <1>9 DEF VerifyNext, SnapInv, VerifyBetween
    <3>2. /\ capture'.op = "verify" /\ capture'.copied = capture.copied
          /\ capture'.checked = capture.checked + 1 /\ capture'.since = capture.since
          /\ capture' = [op |-> capture'.op, copied |-> capture'.copied,
                         checked |-> capture'.checked, since |-> capture'.since]
      <4>1. capture = [op |-> capture.op, copied |-> capture.copied,
                       checked |-> capture.checked, since |-> capture.since]
        BY <3>1 DEF SnapInv, NoCapture
      <4>2. capture' = [capture EXCEPT !.checked = capture.checked + 1]
        BY <1>9, <2>2 DEF VerifyNext
      <4>3. QED
        BY <3>1, <4>1, <4>2
    <3>3. PICK f, w, n : Between(f, w, n)
      BY <3>1 DEF SnapInv, VerifyBetween
    <3> DEFINE place == capture.checked + 1
    <3>4. place \in Places /\ place \in 1..Len(capture.copied)
      BY <1>1, <3>1 DEF Places
    <3>5. capture.copied[place] = At(f, w, place)
      <4>1. capture.copied[place] = ReadOf(place)
        BY <2>2 DEF Stable
      <4>2. Leq(ReadOf(place), At(f, w, place)) /\ Leq(At(f, w, place), ReadOf(place))
        BY <3>3, <3>4, <4>1 DEF Between
      <4>3. ReadOf(place) \in Frame /\ At(f, w, place) \in Frame
        BY <1>3, <3>3, <3>4 DEF Between
      <4> HIDE DEF place
      <4>4. QED
        BY <4>1, <4>2, <4>3, LeqOrder
    <3>6. \A k \in 1..place : capture.copied[k] = At(f, w, k)
      <4>1. \A k \in 1..place : k = place \/ k \in 1..capture.checked
        BY <3>1
      <4>2. \A k \in 1..capture.checked : capture.copied[k] = At(f, w, k)
        BY <3>3 DEF Between
      <4>3. QED
        BY <3>5, <4>1, <4>2
    <3>7. \A k \in Places : ReadOf(k)' = ReadOf(k)
      BY <3>1 DEF ReadOf
    <3>8. Between(f, w, n)'
      BY <3>1, <3>2, <3>3, <3>6, <3>7 DEF Between
    <3>9. VerifyBetween'
      BY <1>1, <3>1, <3>2, <3>8 DEF VerifyBetween
    <3>10. QED
      BY <1>2, <3>1, <3>2, <3>9 DEF SnapInv, CopyMovesOn, SnapshotIsCommitted
  <2>3. QED
    BY <2>1, <2>2
<1>10. CASE OpenCopy
  <2>1. PICK f, w, n : Between(f, w, n)
    BY <1>10 DEF OpenCopy, SnapInv, VerifyBetween
  <2>2. /\ capture.checked = Pages + Slots /\ capture' = NoCapture
        /\ view' = [pages |-> Recovered([p \in 1..Pages |-> capture.copied[p].of],
                                        [k \in 1..Slots |-> capture.copied[Pages + k]]),
                    from |-> capture.since, upto |-> writer.last]
    BY <1>10 DEF OpenCopy
  <2>3. \A k \in Places : capture.copied[k] = At(f, w, k)
    BY <2>1, <2>2 DEF Between, Places
  <2>4. [p \in 1..Pages |-> capture.copied[p].of] = f
    <3>1. \A p \in 1..Pages : p \in Places /\ p <= Pages
      BY <1>1 DEF Places
    <3>3. \A p \in 1..Pages : capture.copied[p] = [of |-> f[p], salt |-> 0]
      BY <2>3, <3>1 DEF At
    <3>4. ASSUME NEW p \in 1..Pages PROVE capture.copied[p].of = f[p]
      <4>1. capture.copied[p] = [of |-> f[p], salt |-> 0]
        BY <3>3
      <4>2. QED
        BY <4>1
    <3>5. f = [p \in 1..Pages |-> f[p]]
      BY <2>1 DEF Between
    <3>6. QED
      BY <3>4, <3>5
  <2>5. [k \in 1..Slots |-> capture.copied[Pages + k]] = w
    <3>1. \A k \in 1..Slots : Pages + k \in Places /\ ~(Pages + k <= Pages) /\ (Pages + k) - Pages = k
      BY <1>1 DEF Places
    <3>2. \A k \in 1..Slots : capture.copied[Pages + k] = w[k]
      BY <2>3, <3>1 DEF At
    <3>3. QED
      BY <2>1, <3>2 DEF Between
  <2>6. /\ view'.pages = [page \in 1..Pages |-> n]
        /\ view'.from = capture.since /\ view'.upto = writer.last
    BY <2>1, <2>2, <2>4, <2>5 DEF Between
  <2>7. n \in view'.from..view'.upto
    BY <1>4, <1>10, <2>1, <2>6 DEF Between, SnapInv, VerifyBetween, OpenCopy
  <2>8. SnapshotIsCommitted'
    BY <2>6, <2>7 DEF SnapshotIsCommitted
  <2>9. QED
    BY <1>6, <2>2, <2>8
<1>11. CASE SnapshotUnavailable
  BY <1>6, <1>11 DEF SnapshotUnavailable, SnapInv, SnapshotIsCommitted
<1>12. QED
  BY <1>5, <1>7, <1>8, <1>9, <1>10, <1>11 DEF SnapNext

\* An empty database and no capture.
LEMMA SnapStarts == ASSUME SnapInit PROVE SnapInv
<1>1. Pages \in Nat \ {0} /\ Slots \in Nat
  BY SnapConstants
<1>2. /\ writer.slot = 1 /\ writer.salt = 1 /\ writer.last = 0
      /\ writer \in [slot : Nat, salt : Nat, last : Nat]
      /\ \A page \in 1..Pages : file[page] = 0
      /\ \A k \in 1..Slots : log[k].salt = 0
  BY DEF SnapInit
<1>3. DatabaseTyped
  BY <1>1, <1>2 DEF SnapInit, DatabaseTyped, Frame
<1>4. Generations
  BY <1>1, <1>2 DEF Generations
<1>5. LastCommitIsWhole
  <2>1. 0 \in 0..(1 - 1) /\ \A k \in 1..(1 - 1) : FALSE
    OBVIOUS
  <2>2. QED
    BY <1>2, <2>1 DEF LastCommitIsWhole
<1>6. OldGenerationIsWhole
  BY <1>2 DEF OldGenerationIsWhole
<1>7. QED
  BY <1>3, <1>4, <1>5, <1>6 DEF SnapInit, SnapInv, DatabaseInv, NoCapture, CopyMovesOn, VerifyBetween,
     SnapshotIsCommitted

\* Whatever is appended, checkpointed and overwritten while the files are read,
\* and however its generations look alike, a copy that is opened shows one whole
\* commit, not older than the last one before the capture.
THEOREM CopiesAreCommitted == SnapSpec => []SnapshotIsCommitted
<1>1. SnapInit => SnapInv
  BY SnapStarts
<1>2. SnapInv /\ [SnapNext]_snapVars => SnapInv'
  <2>1. ASSUME SnapInv, UNCHANGED snapVars PROVE SnapInv'
    <3>1. CopyMovesOn' /\ VerifyBetween'
      BY <2>1, CaptureKept DEF snapVars
    <3>2. DatabaseInv'
      BY <2>1, DatabaseStep DEF SnapInv
    <3>3. QED
      BY <2>1, <3>1, <3>2 DEF SnapInv, snapVars, SnapshotIsCommitted
  <2>2. QED
    BY <2>1, CaptureStep
<1>3. SnapInv => SnapshotIsCommitted
  BY DEF SnapInv
<1>4. QED
  BY <1>1, <1>2, <1>3, PTL DEF SnapSpec

-----------------------------------------------------------------------------
(* PostgresStore, for any jobs, threads and lease. *)

\* The threads of no two calls share a transaction.
OwnConnection == \A t, u \in PgThread : ConnOf[t] = ConnOf[u] => t = u

\* The types of a row and of a call in progress.
PgRow == [status : Status, attempt : Nat, by : PgThread \cup {None},
          until : Nat \cup {None}, due : Nat \cup {None}]

PgCallWindow == [op : PgCalls \cup {"idle", "held"}, jobs : SUBSET PgJob, held : SUBSET {PgResource[j] : j \in PgJob}]

RowsTyped ==
    /\ pgJobs \in [PgJob -> PgRow]
    /\ \A j \in PgJob : pgJobs[j].status = "running" => pgJobs[j].until \in Nat
    /\ rowLock \in [PgJob -> Conn \cup {None}]
    /\ aborted \subseteq Conn
    /\ pgWindow \in [PgThread -> PgCallWindow]
    /\ pgClock \in Nat

\* What a claim or a recovery has selected is locked by its connection and is still
\* as it was selected; a row about to be created is missing, every other row a call
\* has read is there.
Selected(t) ==
    \A j \in pgWindow[t].jobs :
        /\ pgWindow[t].op = "submit" <=> pgJobs[j].status = "absent"
        /\ pgWindow[t].op = "claim" => rowLock[j] = ConnOf[t] /\ pgJobs[j].status = "pending"
        /\ pgWindow[t].op = "recover" => rowLock[j] = ConnOf[t] /\ PgExpired(j)

\* No row is created twice.
SubmittedOnce ==
    \A t, u \in PgThread : \A j \in PgJob :
        /\ pgWindow[t].op = "submit" /\ j \in pgWindow[t].jobs
        /\ pgWindow[u].op = "submit" /\ j \in pgWindow[u].jobs
        => t = u

\* The inductive invariant.
PgInv == RowsTyped /\ SubmittedOnce /\ \A t \in PgThread : Selected(t)

\* A call that reads: rows stay, and rows it locks were free.
LEMMA Reads ==
    ASSUME PgInv, OwnConnection, NEW t \in PgThread, NEW w \in PgCallWindow,
           pgWindow' = [pgWindow EXCEPT ![t] = w],
           NEW locks \in SUBSET PgJob, \A j \in locks : Lockable(t, j),
           rowLock' = [j \in PgJob |-> IF j \in locks THEN ConnOf[t] ELSE rowLock[j]],
           UNCHANGED <<pgJobs, aborted, pgClock>>,
           \A j \in w.jobs :
              /\ w.op = "submit" <=> pgJobs[j].status = "absent"
              /\ w.op = "claim" => j \in locks /\ pgJobs[j].status = "pending"
              /\ w.op = "recover" => j \in locks /\ PgExpired(j),
           w.op = "submit" =>
              \A u \in PgThread \ {t} : pgWindow[u].op = "submit" => pgWindow[u].jobs \cap w.jobs = {}
    PROVE  PgInv'
<1>1. /\ pgWindow'[t] = w /\ \A u \in PgThread \ {t} : pgWindow'[u] = pgWindow[u]
      /\ pgWindow' \in [PgThread -> PgCallWindow] /\ w.jobs \subseteq PgJob
      /\ \A u \in PgThread : pgWindow[u].jobs \subseteq PgJob
  BY DEF PgInv, RowsTyped, PgCallWindow
<1>2. \A u \in PgThread : ConnOf[u] \in Conn /\ ConnOf[u] # None
  BY PgConstants
<1>3. RowsTyped'
  BY <1>1, <1>2 DEF PgInv, RowsTyped
<1>4. SubmittedOnce'
  BY <1>1 DEF PgInv, SubmittedOnce
<1>5. Selected(t)'
  BY <1>1 DEF Selected, PgExpired
<1>6. ASSUME NEW u \in PgThread \ {t} PROVE Selected(u)'
  <2>1. \A j \in PgJob : rowLock[j] = ConnOf[u] => rowLock'[j] = ConnOf[u]
    <3>1. \A j \in PgJob : rowLock[j] = ConnOf[u] => j \notin locks
      BY <1>2 DEF OwnConnection, Lockable
    <3>2. QED
      BY <3>1
  <2>2. QED
    BY <1>1, <2>1 DEF PgInv, Selected, PgExpired
<1>7. QED
  BY <1>3, <1>4, <1>5, <1>6 DEF PgInv

\* A statement that writes: it waits for the locks of others, or creates the
\* row its call has looked up.
LEMMA ReadsOnly ==
    ASSUME PgInv, OwnConnection, NEW t \in PgThread, NEW w \in PgCallWindow,
           pgWindow' = [pgWindow EXCEPT ![t] = w], UNCHANGED <<pgJobs, rowLock, aborted, pgClock>>,
           w.op \notin {"claim", "recover"},
           \A j \in w.jobs : w.op = "submit" <=> pgJobs[j].status = "absent",
           w.op = "submit" =>
              \A u \in PgThread \ {t} : pgWindow[u].op = "submit" => pgWindow[u].jobs \cap w.jobs = {}
    PROVE  PgInv'
<1>1. rowLock' = [k \in PgJob |-> IF k \in {} THEN ConnOf[t] ELSE rowLock[k]] /\ {} \in SUBSET PgJob
  BY DEF PgInv, RowsTyped
<1>2. QED
  BY <1>1, Reads

\* A call that writes one row, whose lock it may take or have.
LEMMA Writes ==
    ASSUME PgInv, OwnConnection, NEW t \in PgThread, NEW rows \in [PgJob -> PgRow],
           WriteAndCommit(t, rows),
           \A j \in PgJob : rows[j].status = "running" => rows[j].until \in Nat,
           \A j \in PgJob : \/ rows[j] = pgJobs[j]
                            \/ (Lockable(t, j) /\ pgJobs[j].status # "absent" /\ rows[j].status # "absent")
                            \/ pgWindow[t].op = "submit" /\ j \in pgWindow[t].jobs /\ rows[j].status # "absent"
    PROVE  PgInv'
<1>1. /\ pgWindow'[t] = PgIdle /\ \A u \in PgThread \ {t} : pgWindow'[u] = pgWindow[u]
      /\ PgIdle \in PgCallWindow /\ pgWindow' \in [PgThread -> PgCallWindow]
      /\ \A u \in PgThread : pgWindow[u].jobs \subseteq PgJob
  BY DEF PgInv, RowsTyped, PgCallWindow, PgIdle, WriteAndCommit
<1>2. /\ \A u \in PgThread : ConnOf[u] \in Conn /\ ConnOf[u] # None
      /\ \A u \in PgThread \ {t} : ConnOf[u] # ConnOf[t]
  BY PgConstants DEF OwnConnection
<1>3. pgClock' = pgClock
  BY DEF WriteAndCommit
<1>4. /\ pgJobs' = rows \/ pgJobs' = pgJobs
      /\ rowLock' = Released(ConnOf[t]) \/ rowLock' = rowLock
      /\ aborted' = aborted \/ aborted' = aborted \cup {ConnOf[t]}
  BY DEF WriteAndCommit
<1>5. RowsTyped'
  BY <1>1, <1>2, <1>3, <1>4 DEF PgInv, RowsTyped, Released
<1>6. SubmittedOnce'
  BY <1>1 DEF PgInv, SubmittedOnce, PgIdle
<1>7. Selected(t)'
  BY <1>1 DEF Selected, PgIdle
<1>8. ASSUME NEW u \in PgThread \ {t}, NEW j \in pgWindow[u].jobs
      PROVE  /\ rowLock[j] = ConnOf[u] => rowLock'[j] = ConnOf[u] /\ (pgJobs'[j] = pgJobs[j] \/ pgJobs[j].status = "absent")
             /\ pgWindow[u].op = "submit" => pgJobs'[j] = pgJobs[j]
             /\ pgJobs[j].status # "absent" => pgJobs'[j].status # "absent"
  <2>1. j \in PgJob
    BY <1>1
  <2>2. rowLock[j] = ConnOf[u] => ~Lockable(t, j) /\ rowLock'[j] = ConnOf[u]
    BY <1>2, <1>4, <2>1 DEF Lockable, Released
  <2>3. pgWindow[t].op = "submit" /\ j \in pgWindow[t].jobs => pgJobs[j].status = "absent" /\ pgWindow[u].op # "submit"
    BY <2>1 DEF PgInv, Selected, SubmittedOnce
  <2>4. pgWindow[u].op = "submit" => pgJobs[j].status = "absent"
    BY DEF PgInv, Selected
  <2>5. QED
    BY <1>4, <2>1, <2>2, <2>3, <2>4
<1>9. ASSUME NEW u \in PgThread \ {t} PROVE Selected(u)'
  BY <1>1, <1>3, <1>8 DEF PgInv, Selected, PgExpired
<1>10. QED
  BY <1>5, <1>6, <1>7, <1>9 DEF PgInv

\* A row that is settled is a row.
LEMMA SettledRow ==
    ASSUME PgInv, NEW j \in PgJob, NEW st \in Status
    PROVE  Settled(j, st) \in PgRow /\ Settled(j, st).status = st
                /\ Settled(j, st).attempt = pgJobs[j].attempt
  BY DEF PgInv, RowsTyped, PgRow, Settled

\* A mark, a release, a heartbeat, a promotion, a recovery: of the rows the call has
\* read, which nobody else has locked, each becomes another one.
LEMMA Updates ==
    ASSUME PgInv, OwnConnection, NEW t \in PgThread, NEW rows,
           pgWindow[t].op # "submit",
           \A j \in pgWindow[t].jobs : Lockable(t, j),
           WriteAndCommit(t, rows),
           rows = [j \in PgJob |-> IF j \in pgWindow[t].jobs THEN rows[j] ELSE pgJobs[j]],
           \A j \in pgWindow[t].jobs : /\ rows[j] \in PgRow /\ rows[j].status # "absent"
                                       /\ rows[j].status = "running" => rows[j].until \in Nat
    PROVE  PgInv'
<1>1. pgWindow[t].jobs \subseteq PgJob /\ \A j \in pgWindow[t].jobs : pgJobs[j].status # "absent"
  BY DEF PgInv, RowsTyped, PgCallWindow, Selected
<1>2. \A j \in PgJob : j \notin pgWindow[t].jobs => rows[j] = pgJobs[j]
  OBVIOUS
<1>3. rows \in [PgJob -> PgRow]
  BY <1>1, <1>2 DEF PgInv, RowsTyped
<1>4. /\ \A j \in PgJob : rows[j].status = "running" => rows[j].until \in Nat
      /\ \A j \in PgJob : \/ rows[j] = pgJobs[j]
                          \/ (Lockable(t, j) /\ pgJobs[j].status # "absent" /\ rows[j].status # "absent")
  BY <1>1, <1>2 DEF PgInv, RowsTyped
<1>5. QED
  BY <1>3, <1>4, Writes

\* One step of one thread: one case per statement of a call.
LEMMA PgStepKeeps == ASSUME PgInv, OwnConnection, NEW t \in PgThread, PgStep(t) PROVE PgInv'
<1> DEFINE w == pgWindow[t]
<1>0. /\ RowsTyped /\ Selected(t) /\ w \in PgCallWindow /\ w.jobs \subseteq PgJob
      /\ \A j \in PgJob : pgJobs[j] \in PgRow /\ pgJobs[j].status \in Status
      /\ PgIdle \in PgCallWindow
  BY DEF PgInv, RowsTyped, PgRow, PgCallWindow, PgIdle
<1>1. ASSUME NEW j \in PgJob, PgSubmit(t, j) PROVE PgInv'
  <2> DEFINE x == [PgIdle EXCEPT !.op = "submit", !.jobs = {j}]
  <2>1. /\ x \in PgCallWindow /\ x.op = "submit" /\ x.jobs = {j}
    BY DEF PgIdle, PgCallWindow, PgCalls
  <2>2. /\ pgWindow' = [pgWindow EXCEPT ![t] = x] /\ UNCHANGED <<pgJobs, rowLock, aborted, pgClock>>
        /\ pgJobs[j].status = "absent"
        /\ \A u \in PgThread : ~(pgWindow[u].op = "submit" /\ j \in pgWindow[u].jobs)
    BY <1>1 DEF PgSubmit, PgAbsent
  <2> HIDE DEF x
  <2>4. \A u \in PgThread \ {t} : pgWindow[u].op = "submit" => pgWindow[u].jobs \cap x.jobs = {}
    BY <2>1, <2>2
  <2>5. \A k \in x.jobs : pgJobs[k].status = "absent"
    BY <2>1, <2>2
  <2>6. QED
    BY <2>1, <2>2, <2>4, <2>5, ReadsOnly
<1>2. CASE PgCreate(t)
  <2> DEFINE row == [PgAbsent EXCEPT !.status = "pending"]
             rows == [j \in PgJob |-> IF j \in w.jobs THEN row ELSE pgJobs[j]]
  <2>1. w.op = "submit" /\ WriteAndCommit(t, rows)
    BY <1>2 DEF PgCreate, Inside, Set
  <2>2. row \in PgRow /\ row.status = "pending"
    BY DEF PgAbsent, PgRow, Status
  <2> HIDE DEF row
  <2>3. \A j \in PgJob : \/ rows[j] = pgJobs[j]
                         \/ j \in w.jobs /\ rows[j] = row
    OBVIOUS
  <2>4. rows \in [PgJob -> PgRow]
    BY <1>0, <2>2
  <2> HIDE DEF rows
  <2>5. \A j \in PgJob : /\ rows[j].status = "running" => rows[j].until \in Nat
                         /\ rows[j] = pgJobs[j] \/ (j \in w.jobs /\ rows[j].status # "absent")
    BY <1>0, <2>2, <2>3 DEF RowsTyped
  <2>6. QED
    BY <2>1, <2>4, <2>5, Writes
<1>3. CASE ReadHeld(t)
  <2> DEFINE x == [PgIdle EXCEPT !.op = "held", !.held = HeldNow]
  <2>1. x \in PgCallWindow /\ x.op = "held" /\ x.jobs = {}
    BY DEF PgIdle, PgCallWindow, PgCalls, HeldNow
  <2>2. pgWindow' = [pgWindow EXCEPT ![t] = x] /\ UNCHANGED <<pgJobs, rowLock, aborted, pgClock>>
    BY <1>3 DEF ReadHeld
  <2> HIDE DEF x
  <2>4. QED
    BY <2>1, <2>2, ReadsOnly
<1>4. CASE LockPending(t)
  <2> DEFINE rows == {j \in PgJob : pgJobs[j].status = "pending" /\ Lockable(t, j)}
             fits == {j \in rows : PgResource[j] \notin pgWindow[t].held /\ pgJobs[j].attempt < PgClaims}
             x == [w EXCEPT !.op = "claim", !.jobs = fits]
  <2>1. CASE WriteAndCommit(t, pgJobs)
    BY <1>0, <2>1, Writes DEF RowsTyped
  <2>2. CASE ~WriteAndCommit(t, pgJobs)
    <3>1. /\ rowLock' = [j \in PgJob |-> IF j \in rows THEN ConnOf[t] ELSE rowLock[j]]
          /\ pgWindow' = [pgWindow EXCEPT ![t].op = "claim", ![t].jobs = fits]
          /\ UNCHANGED <<pgJobs, aborted, pgClock>>
      BY <1>4, <2>2 DEF LockPending
    <3>2. fits \subseteq rows /\ rows \in SUBSET PgJob /\ \A j \in rows : Lockable(t, j) /\ pgJobs[j].status = "pending"
      OBVIOUS
    <3> HIDE DEF rows, fits
    <3>3. x \in PgCallWindow /\ x.op = "claim" /\ x.jobs = fits
      BY <1>0, <3>2 DEF PgCallWindow, PgCalls
    <3>4. pgWindow' = [pgWindow EXCEPT ![t] = x]
      BY <1>0, <3>1 DEF RowsTyped, PgCallWindow
    <3> HIDE DEF x
    <3>5. QED
      BY <3>1, <3>2, <3>3, <3>4, Reads
  <2>3. QED
    BY <2>1, <2>2
<1>5. ASSUME NEW j \in PgJob, UpdateClaimed(t, j) PROVE PgInv'
  <2> DEFINE row == [pgJobs[j] EXCEPT !.status = "running", !.attempt = @ + 1, !.by = t,
                                      !.until = pgClock + PgLease, !.due = None]
             rows == [k \in PgJob |-> IF k = j THEN row ELSE pgJobs[k]]
  <2>1. w.op = "claim" /\ j \in w.jobs /\ Lockable(t, j)
    BY <1>5 DEF UpdateClaimed, Inside
  <2>2. pgJobs[j].status = "pending"
    BY <1>0, <2>1 DEF Selected
  <2>3. WriteAndCommit(t, rows)
    <3>1. WriteAndCommit(t, [pgJobs EXCEPT ![j] = row])
      <4> DEFINE written == IF pgJobs[j].status # "pending" THEN pgJobs
                            ELSE [pgJobs EXCEPT ![j] = [pgJobs[j] EXCEPT
                                     !.status = "running", !.attempt = @ + 1, !.by = t,
                                     !.until = pgClock + PgLease, !.due = None]]
      <4>1. WriteAndCommit(t, written)
        BY <1>5 DEF UpdateClaimed
      <4>2. written = [pgJobs EXCEPT ![j] = row]
        BY <2>2
      <4> HIDE DEF written, row
      <4>3. QED
        BY <4>1, <4>2
    <3>2. rows = [pgJobs EXCEPT ![j] = row]
      BY <1>0 DEF RowsTyped
    <3>3. QED
      BY <3>1, <3>2
  <2>4. pgClock + PgLease \in Nat /\ pgJobs[j].attempt + 1 \in Nat
    BY <1>0, PgConstants DEF RowsTyped, PgRow
  <2>5. row \in PgRow /\ row.status = "running" /\ row.until \in Nat
    BY <1>0, <2>4 DEF PgRow, Status
  <2> HIDE DEF row
  <2>6. /\ rows \in [PgJob -> PgRow]
        /\ \A k \in PgJob : rows[k].status = "running" => rows[k].until \in Nat
        /\ \A k \in PgJob : \/ rows[k] = pgJobs[k]
                            \/ (Lockable(t, k) /\ pgJobs[k].status # "absent" /\ rows[k].status # "absent")
    BY <1>0, <2>1, <2>2, <2>5 DEF RowsTyped
  <2> HIDE DEF rows
  <2>7. QED
    BY <2>3, <2>6, Writes
<1>6. ASSUME NEW call \in {"succeeded", "failed", "retry_scheduled", "release", "heartbeat"}, NEW j \in PgJob,
             PgRead(t, call, j)
      PROVE  PgInv'
  <2> DEFINE x == [PgIdle EXCEPT !.op = call, !.jobs = {j}]
  <2>1. x \in PgCallWindow /\ x.op = call /\ x.jobs = {j}
    BY DEF PgIdle, PgCallWindow, PgCalls
  <2>2. pgWindow' = [pgWindow EXCEPT ![t] = x] /\ UNCHANGED <<pgJobs, rowLock, aborted, pgClock>>
    BY <1>6 DEF PgRead
  <2>3. pgJobs[j].status # "absent"
    <3>1. CASE call \in {"succeeded", "failed", "retry_scheduled"}
      <4>1. <<pgJobs[j].status, call>> \in ValidTransitions
        BY <1>6, <3>1 DEF PgRead
      <4>2. QED
        BY <4>1 DEF ValidTransitions
    <3>2. CASE call \in {"release", "heartbeat"}
      BY <1>6, <3>2 DEF PgRead
    <3>3. QED
      BY <3>1, <3>2
  <2> HIDE DEF x
  <2>5. /\ x.op \notin {"submit", "claim", "recover"}
        /\ \A k \in x.jobs : pgJobs[k].status # "absent"
    BY <2>1, <2>3
  <2>6. QED
    BY <2>1, <2>2, <2>5, ReadsOnly
<1>7. ASSUME NEW call \in {"succeeded", "failed", "retry_scheduled"}, PgMark(t, call) PROVE PgInv'
  <2> DEFINE rows == [j \in PgJob |-> IF j \in w.jobs
                          THEN IF call = "retry_scheduled" THEN [Settled(j, call) EXCEPT !.due = pgClock]
                               ELSE Settled(j, call)
                          ELSE pgJobs[j]]
  <2>1. WriteAndCommit(t, rows)
    BY <1>7 DEF PgMark, Set
  <2>2. call \in Status /\ call \notin {"absent", "running"}
    BY DEF Status
  <2>3. \A j \in w.jobs : rows[j] \in PgRow /\ rows[j].status = call
    <3>1. SUFFICES ASSUME NEW j \in w.jobs PROVE rows[j] \in PgRow /\ rows[j].status = call
      OBVIOUS
    <3>2. Settled(j, call) \in PgRow /\ Settled(j, call).status = call
      BY <1>0, <2>2, SettledRow
    <3>3. pgClock \in Nat \cup {None} /\ j \in PgJob
      BY <1>0 DEF RowsTyped
    <3>4. QED
      BY <3>2, <3>3 DEF PgRow
  <2>4. rows = [j \in PgJob |-> IF j \in w.jobs THEN rows[j] ELSE pgJobs[j]]
    BY <1>0
  <2>5. w.op # "submit" /\ \A j \in w.jobs : Lockable(t, j)
    BY <1>7 DEF PgMark, Inside
  <2> HIDE DEF rows
  <2>6. QED
    BY <2>1, <2>2, <2>3, <2>4, <2>5, Updates
<1>8. CASE PgRelease(t)
  <2> DEFINE rows == [j \in PgJob |-> IF j \in w.jobs THEN Settled(j, "pending") ELSE pgJobs[j]]
  <2>1. WriteAndCommit(t, rows)
    BY <1>8 DEF PgRelease, Set
  <2>2. \A j \in w.jobs : rows[j] \in PgRow /\ rows[j].status = "pending"
    BY <1>0, SettledRow DEF Status
  <2>3. rows = [j \in PgJob |-> IF j \in w.jobs THEN rows[j] ELSE pgJobs[j]]
    BY <1>0
  <2>4. w.op # "submit" /\ \A j \in w.jobs : Lockable(t, j)
    BY <1>8 DEF PgRelease, Inside
  <2> HIDE DEF rows
  <2>5. QED
    BY <2>1, <2>2, <2>3, <2>4, Updates
<1>9. CASE PgHeartbeat(t)
  <2> DEFINE rows == [j \in PgJob |-> IF j \in w.jobs
                          THEN IF pgJobs[j].by = t THEN [pgJobs[j] EXCEPT !.until = pgClock + PgLease]
                               ELSE pgJobs[j]
                          ELSE pgJobs[j]]
  <2>1. WriteAndCommit(t, rows)
    BY <1>9 DEF PgHeartbeat, Set
  <2>2. w.op = "heartbeat" /\ \A j \in w.jobs : Lockable(t, j)
    BY <1>9 DEF PgHeartbeat, Inside
  <2>3. \A j \in w.jobs : /\ rows[j] \in PgRow /\ rows[j].status = pgJobs[j].status
                          /\ rows[j].status = "running" => rows[j].until \in Nat
    <3>1. pgClock + PgLease \in Nat
      BY <1>0, PgConstants DEF RowsTyped
    <3>2. QED
      BY <1>0, <3>1 DEF RowsTyped, PgRow
  <2>4. \A j \in w.jobs : pgJobs[j].status # "absent"
    BY <1>0, <2>2 DEF Selected
  <2>5. rows = [j \in PgJob |-> IF j \in w.jobs THEN rows[j] ELSE pgJobs[j]]
    BY <1>0
  <2> HIDE DEF rows
  <2>6. QED
    BY <2>1, <2>2, <2>3, <2>4, <2>5, Updates
<1>10. ASSUME NEW call \in {"promote", "recover"}, NEW S \in SUBSET PgJob, SelectForUpdate(t, call, S),
              \A j \in S : pgJobs[j].status # "absent" /\ (call = "recover" => PgExpired(j))
       PROVE  PgInv'
  <2> DEFINE free == {j \in S : Lockable(t, j)}
             x == [PgIdle EXCEPT !.op = call, !.jobs = free]
  <2>1. x \in PgCallWindow /\ x.op = call /\ x.jobs = free
    BY DEF PgIdle, PgCallWindow, PgCalls
  <2>2. /\ pgWindow' = [pgWindow EXCEPT ![t] = x] /\ UNCHANGED <<pgJobs, aborted, pgClock>>
        /\ rowLock' = [j \in PgJob |-> IF j \in free THEN ConnOf[t] ELSE rowLock[j]]
    BY <1>10 DEF SelectForUpdate
  <2>3. /\ free \in SUBSET PgJob /\ \A j \in free : Lockable(t, j)
        /\ \A j \in free : pgJobs[j].status # "absent" /\ (call = "recover" => PgExpired(j))
    BY <1>10
  <2> HIDE DEF x, free
  <2>4. QED
    BY <2>1, <2>2, <2>3, Reads
<1>11. CASE SelectForUpdate(t, "promote", {j \in PgJob : PgDue(j)}) \/ SelectForUpdate(t, "recover", {j \in PgJob : PgExpired(j)})
  <2>1. \A j \in {k \in PgJob : PgDue(k)} : pgJobs[j].status # "absent"
    BY DEF PgDue
  <2>2. \A j \in {k \in PgJob : PgExpired(k)} : pgJobs[j].status # "absent" /\ PgExpired(j)
    BY DEF PgExpired
  <2>3. QED
    BY <1>10, <1>11, <2>1, <2>2
<1>12. CASE PgPromote(t)
  <2> DEFINE rows == [j \in PgJob |-> IF j \in w.jobs
                          THEN IF pgJobs[j].status = "retry_scheduled"
                               THEN [pgJobs[j] EXCEPT !.status = "pending", !.due = None] ELSE pgJobs[j]
                          ELSE pgJobs[j]]
  <2>1. WriteAndCommit(t, rows)
    BY <1>12 DEF PgPromote, Set
  <2>2. w.op = "promote" /\ \A j \in w.jobs : Lockable(t, j)
    BY <1>12 DEF PgPromote, Inside
  <2>3. \A j \in w.jobs : /\ rows[j] \in PgRow
                          /\ rows[j].status \in {"pending", pgJobs[j].status}
                          /\ rows[j].status = "running" => rows[j] = pgJobs[j]
    BY <1>0 DEF RowsTyped, PgRow, Status
  <2>4. \A j \in w.jobs : pgJobs[j].status # "absent" /\ (pgJobs[j].status = "running" => pgJobs[j].until \in Nat)
    BY <1>0, <2>2 DEF Selected, RowsTyped
  <2>5. rows = [j \in PgJob |-> IF j \in w.jobs THEN rows[j] ELSE pgJobs[j]]
    BY <1>0
  <2> HIDE DEF rows
  <2>6. QED
    BY <2>1, <2>2, <2>3, <2>4, <2>5, Updates
<1>13. CASE PgRecover(t)
  <2> DEFINE rows == [j \in PgJob |-> IF j \in w.jobs
                          THEN IF pgJobs[j].status = "running"
                               THEN Settled(j, IF pgJobs[j].attempt < PgAttempts[j] THEN "pending"
                                               ELSE "retry_scheduled")
                               ELSE pgJobs[j]
                          ELSE pgJobs[j]]
  <2>1. WriteAndCommit(t, rows)
    BY <1>13 DEF PgRecover, Set
  <2>2. w.op = "recover" /\ \A j \in w.jobs : Lockable(t, j)
    BY <1>13 DEF PgRecover, Inside
  <2>3. \A j \in w.jobs : rows[j] \in PgRow /\ rows[j].status \in {"pending", "retry_scheduled"}
    <3>1. SUFFICES ASSUME NEW j \in w.jobs
                   PROVE  rows[j] \in PgRow /\ rows[j].status \in {"pending", "retry_scheduled"}
      OBVIOUS
    <3>2. j \in PgJob /\ pgJobs[j].status = "running"
      BY <1>0, <2>2 DEF Selected, PgExpired
    <3>3. \A st \in {"pending", "retry_scheduled"} : Settled(j, st) \in PgRow /\ Settled(j, st).status = st
      BY <3>2, SettledRow DEF Status
    <3>4. QED
      BY <3>2, <3>3
  <2>4. rows = [j \in PgJob |-> IF j \in w.jobs THEN rows[j] ELSE pgJobs[j]]
    BY <1>0
  <2> HIDE DEF rows
  <2>5. QED
    BY <2>1, <2>2, <2>3, <2>4, Updates
<1>14. CASE PgRaise(t)
  <2>1. pgWindow' = [pgWindow EXCEPT ![t] = PgIdle] /\ UNCHANGED <<pgJobs, rowLock, aborted, pgClock>>
    BY <1>14 DEF PgRaise
  <2>3. PgIdle.op = "idle" /\ PgIdle.jobs = {}
    BY DEF PgIdle
  <2>4. QED
    BY <1>0, <2>1, <2>3, ReadsOnly
<1>15. QED
  BY <1>1, <1>2, <1>3, <1>4, <1>5, <1>6, <1>7, <1>8, <1>9, <1>11, <1>12, <1>13, <1>14 DEF PgStep

\* And with the clock, crashes and stuttering.
LEMMA PgStays == ASSUME PgInv, OwnConnection, [PgNext]_pgVars PROVE PgInv'
<1>1. ASSUME NEW c \in Conn, Reconnect(c) PROVE PgInv'
  <2>1. /\ rowLock' = Released(c) /\ aborted' = aborted \ {c} /\ UNCHANGED <<pgJobs, pgClock>>
        /\ pgWindow' = [t \in PgThread |-> IF ConnOf[t] = c THEN PgIdle ELSE pgWindow[t]]
    BY <1>1 DEF Reconnect
  <2>2. PgIdle \in PgCallWindow /\ PgIdle.op = "idle" /\ PgIdle.jobs = {}
    BY DEF PgIdle, PgCallWindow
  <2>3. RowsTyped'
    BY <2>1, <2>2 DEF PgInv, RowsTyped, Released
  <2>4. SubmittedOnce'
    BY <2>1, <2>2 DEF PgInv, SubmittedOnce
  <2>5. ASSUME NEW t \in PgThread PROVE Selected(t)'
    <3>1. CASE ConnOf[t] = c
      BY <2>1, <2>2, <3>1 DEF Selected
    <3>2. CASE ConnOf[t] # c
      <4>1. pgWindow'[t] = pgWindow[t] /\ pgWindow[t].jobs \subseteq PgJob
        BY <2>1, <3>2 DEF PgInv, RowsTyped, PgCallWindow
      <4>2. \A j \in PgJob : rowLock[j] = ConnOf[t] => rowLock'[j] = ConnOf[t]
        BY <2>1, <3>2 DEF Released
      <4>3. QED
        BY <2>1, <4>1, <4>2 DEF PgInv, Selected, PgExpired
    <3>3. QED
      BY <3>1, <3>2
  <2>6. QED
    BY <2>3, <2>4, <2>5 DEF PgInv
<1>2. CASE PgTick
  <2>1. RowsTyped' /\ SubmittedOnce'
    BY <1>2 DEF PgTick, PgInv, RowsTyped, SubmittedOnce
  <2>2. ASSUME NEW t \in PgThread PROVE Selected(t)'
    <3>1. \A j \in PgJob : PgExpired(j) => PgExpired(j)'
      BY <1>2 DEF PgTick, PgInv, RowsTyped, PgExpired
    <3>2. pgWindow[t].jobs \subseteq PgJob
      BY DEF PgInv, RowsTyped, PgCallWindow
    <3>3. QED
      BY <1>2, <3>1, <3>2 DEF PgTick, PgInv, Selected
  <2>3. QED
    BY <2>1, <2>2 DEF PgInv
<1>3. CASE UNCHANGED pgVars
  BY <1>3 DEF pgVars, PgInv, RowsTyped, SubmittedOnce, Selected, PgExpired
<1>4. QED
  BY <1>1, <1>2, <1>3, PgStepKeeps DEF PgNext

\* Where no two threads share a connection, a claim leases what it returns and
\* recovery takes only leases that have expired when it commits, for any jobs,
\* threads, attempts and lease.
THEOREM LiveLeasesSpared == ASSUME OwnConnection PROVE PgSpec => LiveLeaseSpared
<1>1. PgInit => PgInv
  <2>1. PgAbsent \in PgRow /\ PgAbsent.status = "absent" /\ PgIdle \in PgCallWindow
        /\ PgIdle.jobs = {} /\ PgIdle.op = "idle"
    BY DEF PgAbsent, PgRow, Status, PgIdle, PgCallWindow
  <2>2. QED
    BY <2>1 DEF PgInit, PgInv, RowsTyped, SubmittedOnce, Selected
<1>2. PgInv /\ [PgNext]_pgVars => PgInv'
  BY PgStays
<1>3. PgInv /\ [PgNext]_pgVars => [ClaimedAsTold /\ RecoverySpares]_pgVars
  <2>1. ASSUME PgInv, NEW t \in PgThread, NEW j \in PgJob, UpdateClaimed(t, j) PROVE pgJobs'[j].by = t
    <3>1. pgJobs[j].status = "pending" /\ pgJobs[j] \in PgRow /\ pgJobs = [k \in PgJob |-> pgJobs[k]]
      BY <2>1 DEF UpdateClaimed, Inside, PgInv, Selected, RowsTyped
    <3> DEFINE rows == [pgJobs EXCEPT ![j] = [pgJobs[j] EXCEPT
                            !.status = "running", !.attempt = @ + 1, !.by = t,
                            !.until = pgClock + PgLease, !.due = None]]
    <3>2. WriteAndCommit(t, rows)
      BY <2>1, <3>1 DEF UpdateClaimed
    <3>3. rows[j].by = t /\ \A k \in PgJob \ {j} : rows[k] = pgJobs[k]
      BY <3>1 DEF PgRow
    <3> HIDE DEF rows
    <3>4. pgJobs' = rows
      BY <3>1, <3>2, <3>3 DEF WriteAndCommit, ActiveStatuses
    <3>5. QED
      BY <3>3, <3>4
  <2>2. ASSUME PgInv, [PgNext]_pgVars, NEW t \in PgThread, NEW j \in PgJob,
               pgWindow[t].op = "recover", pgWindow'[t] = PgIdle,
               pgJobs[j].status = "running", pgJobs'[j].status # "running"
        PROVE  pgJobs[j].until <= pgClock
    <3>1. /\ j \in pgWindow[t].jobs => pgJobs[j].until <= pgClock
          /\ PgIdle.op = "idle" /\ pgJobs' # pgJobs
          /\ pgWindow \in [PgThread -> PgCallWindow]
      BY <2>2 DEF PgInv, Selected, PgExpired, PgIdle, RowsTyped
    <3>2. PICK u \in PgThread : PgStep(u)
      BY <2>2, <3>1 DEF PgNext, Reconnect, PgTick, pgVars
    <3>3. u = t
      <4>1. u # t => pgWindow'[t] = pgWindow[t]
        BY <3>1, <3>2 DEF PgStep, PgSubmit, PgCreate, ReadHeld, LockPending, UpdateClaimed, PgRead, PgMark,
           PgRelease, PgHeartbeat, SelectForUpdate, PgPromote, PgRecover, PgRaise, WriteAndCommit
      <4>2. QED
        BY <2>2, <3>1, <4>1
    <3>4. PgRecover(t)
      BY <2>2, <3>1, <3>2, <3>3 DEF PgStep, PgSubmit, PgCreate, ReadHeld, LockPending, UpdateClaimed, PgRead, PgMark,
         PgRelease, PgHeartbeat, SelectForUpdate, PgPromote, PgRaise, PgStarts, Inside
    <3>5. j \notin pgWindow[t].jobs => pgJobs'[j] = pgJobs[j]
      BY <3>1, <3>4 DEF PgRecover, Set, WriteAndCommit
    <3>6. QED
      BY <2>2, <3>1, <3>5
  <2>3. QED
    BY <2>1, <2>2 DEF ClaimedAsTold, RecoverySpares
<1>4. QED
  BY <1>1, <1>2, <1>3, PTL DEF PgSpec, LiveLeaseSpared

-----------------------------------------------------------------------------
(* What the Postgres table keeps whatever connections are shared. *)

\* What the table promises whatever connections are shared: a row runs exactly
\* while it has a holder and a lease, and of the rows with one key one is active.
PgLeased ==
    \A j \in PgJob :
        /\ pgJobs[j].status = "running" <=> pgJobs[j].by # None
        /\ pgJobs[j].by # None <=> pgJobs[j].until # None

PgKeysUnique ==
    \A i, j \in PgJob :
        i # j /\ PgKey[i] # None /\ PgKey[i] = PgKey[j] /\ PgActive(i) => ~PgActive(j)

\* The calls whose update may make a row active again write one row, so that the
\* unique index compares it with rows the statement leaves alone.
OneRowCalls == {"submit", "succeeded", "failed", "retry_scheduled", "release", "heartbeat"}

WritesOneRow == \A t \in PgThread : pgWindow[t].op \in OneRowCalls => \A i, j \in pgWindow[t].jobs : i = j

PgTable ==
    /\ pgClock \in Nat
    /\ pgJobs \in [PgJob -> PgRow]
    /\ pgWindow \in [PgThread -> PgCallWindow]
    /\ PgLeased
    /\ PgKeysUnique
    /\ WritesOneRow

RowLeased(r) == (r.status = "running" <=> r.by # None) /\ (r.by # None <=> r.until # None)

\* A statement that writes keeps the table sound if each row it writes is leased
\* exactly if it runs, and at most one of them becomes active.
LEMMA WriteKeepsTable ==
    ASSUME PgTable, NEW t \in PgThread, NEW rows \in [PgJob -> PgRow],
           WriteAndCommit(t, rows),
           \A j \in PgJob : RowLeased(rows[j]),
           \A i, j \in PgJob : /\ rows[i].status \in ActiveStatuses /\ pgJobs[i].status \notin ActiveStatuses
                               /\ rows[j].status \in ActiveStatuses /\ pgJobs[j].status \notin ActiveStatuses
                               => i = j
    PROVE  PgTable'
<1>1. PgIdle \in PgCallWindow /\ PgIdle.jobs = {}
  BY DEF PgIdle, PgCallWindow
<1>2. /\ pgClock' = pgClock /\ pgWindow' = [pgWindow EXCEPT ![t] = PgIdle]
      /\ pgJobs' = rows \/ pgJobs' = pgJobs
  BY DEF WriteAndCommit
<1>3. pgClock' \in Nat /\ pgJobs' \in [PgJob -> PgRow] /\ pgWindow' \in [PgThread -> PgCallWindow]
  BY <1>1, <1>2 DEF PgTable
<1>4. PgLeased'
  BY <1>2 DEF PgTable, PgLeased, RowLeased
<1>5. PgKeysUnique'
  <2>1. CASE pgJobs' = pgJobs
    BY <2>1 DEF PgTable, PgKeysUnique, PgActive
  <2>2. CASE pgJobs' # pgJobs
    <3>1. /\ pgJobs' = rows
          /\ \A j \in PgJob : rows[j].status \in ActiveStatuses /\ pgJobs[j].status \notin ActiveStatuses
                                => ~PgKeyTaken(j)
      BY <2>2 DEF WriteAndCommit
    <3>2. SUFFICES ASSUME NEW i \in PgJob, NEW j \in PgJob, i # j, PgKey[i] # None, PgKey[i] = PgKey[j],
                          rows[i].status \in ActiveStatuses, rows[j].status \in ActiveStatuses
                   PROVE  FALSE
      BY <3>1 DEF PgKeysUnique, PgActive
    <3>3. ~(PgActive(i) /\ PgActive(j))
      BY <3>2 DEF PgTable, PgKeysUnique
    <3>4. PgActive(i) <=> PgActive(j)
      BY <3>1, <3>2 DEF PgKeyTaken, PgActive
    <3>5. QED
      BY <3>2, <3>3, <3>4 DEF PgActive
  <2>3. QED
    BY <2>1, <2>2
<1>6. WritesOneRow'
  BY <1>1, <1>2 DEF PgTable, WritesOneRow
<1>7. QED
  BY <1>3, <1>4, <1>5, <1>6 DEF PgTable

\* A statement that reads leaves the table; a call that may write an inactive row
\* has read one row.
LEMMA ReadKeepsTable ==
    ASSUME PgTable, NEW t \in PgThread, NEW w \in PgCallWindow,
           pgWindow' = [pgWindow EXCEPT ![t] = w], UNCHANGED <<pgJobs, pgClock>>,
           w.op \in OneRowCalls => \A i, j \in w.jobs : i = j
    PROVE  PgTable'
  BY DEF PgTable, PgLeased, PgKeysUnique, PgActive, WritesOneRow

\* The row a call settles.
LEMMA SettledLeased ==
    ASSUME PgTable, NEW j \in PgJob, NEW st \in Status, st # "running"
    PROVE  Settled(j, st) \in PgRow /\ RowLeased(Settled(j, st)) /\ Settled(j, st).status = st
  BY DEF PgTable, PgRow, Settled, RowLeased

LEMMA UpdateKeepsTable ==
    ASSUME PgTable, NEW t \in PgThread, NEW rows,
           WriteAndCommit(t, rows),
           rows = [j \in PgJob |-> IF j \in pgWindow[t].jobs THEN rows[j] ELSE pgJobs[j]],
           \A j \in pgWindow[t].jobs : rows[j] \in PgRow /\ RowLeased(rows[j]),
           \/ pgWindow[t].op \in OneRowCalls
           \/ \A j \in pgWindow[t].jobs : rows[j].status \in ActiveStatuses => pgJobs[j].status \in ActiveStatuses
    PROVE  PgTable'
<1>1. \A j \in PgJob : j \notin pgWindow[t].jobs => rows[j] = pgJobs[j]
  OBVIOUS
<1>2. \A j \in PgJob : RowLeased(pgJobs[j])
  BY DEF PgTable, PgLeased, RowLeased
<1>3. rows \in [PgJob -> PgRow] /\ \A j \in PgJob : RowLeased(rows[j])
  BY <1>1, <1>2 DEF PgTable
<1>4. pgWindow[t].op \in OneRowCalls => \A i, j \in pgWindow[t].jobs : i = j
  BY DEF PgTable, WritesOneRow
<1>5. QED
  BY <1>1, <1>3, <1>4, WriteKeepsTable

\* One step of one thread.
LEMMA PgStepKeepsTable == ASSUME PgTable, NEW t \in PgThread, PgStep(t) PROVE PgTable'
<1> DEFINE w == pgWindow[t]
<1>0. /\ w \in PgCallWindow /\ w.jobs \subseteq PgJob /\ pgClock \in Nat
      /\ \A j \in PgJob : pgJobs[j] \in PgRow /\ pgJobs[j].status \in Status /\ RowLeased(pgJobs[j])
      /\ PgIdle \in PgCallWindow /\ PgIdle.op \notin OneRowCalls
  BY DEF PgTable, PgRow, PgCallWindow, PgIdle, PgLeased, RowLeased, OneRowCalls
<1>1. ASSUME NEW j \in PgJob, NEW call \in OneRowCalls,
             pgWindow' = [pgWindow EXCEPT ![t] = [PgIdle EXCEPT !.op = call, !.jobs = {j}]],
             UNCHANGED <<pgJobs, pgClock>>
      PROVE  PgTable'
  <2> DEFINE x == [PgIdle EXCEPT !.op = call, !.jobs = {j}]
  <2>1. x \in PgCallWindow /\ x.jobs = {j}
    BY DEF PgIdle, PgCallWindow, PgCalls, OneRowCalls
  <2>2. pgWindow' = [pgWindow EXCEPT ![t] = x]
    BY <1>1
  <2> HIDE DEF x
  <2>3. QED
    BY <1>1, <2>1, <2>2, ReadKeepsTable
<1>2. ASSUME NEW j \in PgJob, PgSubmit(t, j) PROVE PgTable'
  BY <1>1, <1>2 DEF PgSubmit, OneRowCalls
<1>3. CASE PgCreate(t)
  <2> DEFINE row == [PgAbsent EXCEPT !.status = "pending"]
             rows == [j \in PgJob |-> IF j \in w.jobs THEN row ELSE pgJobs[j]]
  <2>1. w.op \in OneRowCalls /\ WriteAndCommit(t, rows)
    BY <1>3 DEF PgCreate, Inside, Set, OneRowCalls
  <2>2. row \in PgRow /\ RowLeased(row)
    BY DEF PgAbsent, PgRow, Status, RowLeased
  <2> HIDE DEF row
  <2>3. rows = [j \in PgJob |-> IF j \in w.jobs THEN rows[j] ELSE pgJobs[j]]
    BY <1>0
  <2>4. \A j \in w.jobs : rows[j] \in PgRow /\ RowLeased(rows[j])
    BY <1>0, <2>2
  <2> HIDE DEF rows
  <2>5. QED
    BY <2>1, <2>3, <2>4, UpdateKeepsTable
<1>4. CASE ReadHeld(t)
  <2> DEFINE x == [PgIdle EXCEPT !.op = "held", !.held = HeldNow]
  <2>1. x \in PgCallWindow /\ x.op \notin OneRowCalls
    BY DEF PgIdle, PgCallWindow, PgCalls, HeldNow, OneRowCalls
  <2>2. pgWindow' = [pgWindow EXCEPT ![t] = x] /\ UNCHANGED <<pgJobs, pgClock>>
    BY <1>4 DEF ReadHeld
  <2> HIDE DEF x
  <2>3. QED
    BY <2>1, <2>2, ReadKeepsTable
<1>5. CASE LockPending(t)
  <2> DEFINE rows == {j \in PgJob : pgJobs[j].status = "pending" /\ Lockable(t, j)}
             fits == {j \in rows : PgResource[j] \notin pgWindow[t].held /\ pgJobs[j].attempt < PgClaims}
             x == [w EXCEPT !.op = "claim", !.jobs = fits]
  <2>1. CASE WriteAndCommit(t, pgJobs)
    BY <1>0, <2>1, WriteKeepsTable DEF PgTable
  <2>2. CASE ~WriteAndCommit(t, pgJobs)
    <3>1. /\ pgWindow' = [pgWindow EXCEPT ![t].op = "claim", ![t].jobs = fits]
          /\ UNCHANGED <<pgJobs, pgClock>>
      BY <1>5, <2>2 DEF LockPending
    <3>2. fits \subseteq PgJob
      OBVIOUS
    <3> HIDE DEF rows, fits
    <3>3. x \in PgCallWindow /\ x.op \notin OneRowCalls
      BY <1>0, <3>2 DEF PgCallWindow, PgCalls, OneRowCalls
    <3>4. pgWindow' = [pgWindow EXCEPT ![t] = x]
      BY <1>0, <3>1 DEF PgTable, PgCallWindow
    <3> HIDE DEF x
    <3>5. QED
      BY <3>1, <3>3, <3>4, ReadKeepsTable
  <2>3. QED
    BY <2>1, <2>2
<1>6. ASSUME NEW j \in PgJob, UpdateClaimed(t, j) PROVE PgTable'
  <2> DEFINE row == [pgJobs[j] EXCEPT !.status = "running", !.attempt = @ + 1, !.by = t,
                                      !.until = pgClock + PgLease, !.due = None]
             rows == IF pgJobs[j].status # "pending" THEN pgJobs ELSE [pgJobs EXCEPT ![j] = row]
  <2>1. WriteAndCommit(t, rows)
    BY <1>6 DEF UpdateClaimed
  <2>2. pgClock + PgLease \in Nat /\ pgJobs[j].attempt + 1 \in Nat /\ None \notin Nat /\ None \notin PgThread
    BY <1>0, PgConstants DEF PgRow
  <2>3. row \in PgRow /\ RowLeased(row)
    BY <1>0, <2>2 DEF PgRow, Status, RowLeased
  <2> HIDE DEF row
  <2>4. \A k \in PgJob : \/ rows[k] = pgJobs[k]
                         \/ rows[k] = row /\ pgJobs[k].status = "pending"
    BY <1>0 DEF PgTable
  <2>5. rows \in [PgJob -> PgRow] /\ \A k \in PgJob : RowLeased(rows[k])
    BY <1>0, <2>3, <2>4 DEF PgTable
  <2> HIDE DEF rows
  <2>6. QED
    BY <2>1, <2>4, <2>5, WriteKeepsTable DEF ActiveStatuses
<1>7. ASSUME NEW call \in {"succeeded", "failed", "retry_scheduled", "release", "heartbeat"}, NEW j \in PgJob,
             PgRead(t, call, j)
      PROVE  PgTable'
  BY <1>1, <1>7 DEF PgRead, OneRowCalls
<1>8. ASSUME NEW call \in {"succeeded", "failed", "retry_scheduled"}, PgMark(t, call) PROVE PgTable'
  <2> DEFINE rows == [j \in PgJob |-> IF j \in w.jobs
                          THEN IF call = "retry_scheduled" THEN [Settled(j, call) EXCEPT !.due = pgClock]
                               ELSE Settled(j, call)
                          ELSE pgJobs[j]]
  <2>1. WriteAndCommit(t, rows) /\ w.op \in OneRowCalls
    BY <1>8 DEF PgMark, Set, Inside, OneRowCalls
  <2>2. call \in Status /\ call # "running"
    BY DEF Status
  <2>3. ASSUME NEW j \in w.jobs PROVE rows[j] \in PgRow /\ RowLeased(rows[j])
    <3>1. Settled(j, call) \in PgRow /\ RowLeased(Settled(j, call))
      BY <1>0, <2>2, SettledLeased
    <3>2. pgClock \in Nat \cup {None} /\ j \in PgJob
      BY <1>0
    <3>3. QED
      BY <3>1, <3>2 DEF PgRow, RowLeased
  <2>4. rows = [j \in PgJob |-> IF j \in w.jobs THEN rows[j] ELSE pgJobs[j]]
    BY <1>0
  <2> HIDE DEF rows
  <2>5. QED
    BY <2>1, <2>3, <2>4, UpdateKeepsTable
<1>9. CASE PgRelease(t)
  <2> DEFINE rows == [j \in PgJob |-> IF j \in w.jobs THEN Settled(j, "pending") ELSE pgJobs[j]]
  <2>1. WriteAndCommit(t, rows) /\ w.op \in OneRowCalls
    BY <1>9 DEF PgRelease, Set, Inside, OneRowCalls
  <2>2. \A j \in w.jobs : rows[j] \in PgRow /\ RowLeased(rows[j])
    BY <1>0, SettledLeased DEF Status
  <2>3. rows = [j \in PgJob |-> IF j \in w.jobs THEN rows[j] ELSE pgJobs[j]]
    BY <1>0
  <2> HIDE DEF rows
  <2>4. QED
    BY <2>1, <2>2, <2>3, UpdateKeepsTable
<1>10. CASE PgHeartbeat(t)
  <2> DEFINE rows == [j \in PgJob |-> IF j \in w.jobs
                          THEN IF pgJobs[j].by = t THEN [pgJobs[j] EXCEPT !.until = pgClock + PgLease]
                               ELSE pgJobs[j]
                          ELSE pgJobs[j]]
  <2>1. WriteAndCommit(t, rows) /\ w.op \in OneRowCalls
    BY <1>10 DEF PgHeartbeat, Set, Inside, OneRowCalls
  <2>2. \A j \in w.jobs : rows[j] \in PgRow /\ RowLeased(rows[j])
    <3>1. pgClock + PgLease \in Nat /\ None \notin Nat /\ None \notin PgThread
      BY <1>0, PgConstants
    <3>2. QED
      BY <1>0, <3>1 DEF PgRow, RowLeased
  <2>3. rows = [j \in PgJob |-> IF j \in w.jobs THEN rows[j] ELSE pgJobs[j]]
    BY <1>0
  <2> HIDE DEF rows
  <2>4. QED
    BY <2>1, <2>2, <2>3, UpdateKeepsTable
<1>11. ASSUME NEW call \in {"promote", "recover"}, NEW S \in SUBSET PgJob, SelectForUpdate(t, call, S)
       PROVE  PgTable'
  <2> DEFINE free == {j \in S : Lockable(t, j)}
             x == [PgIdle EXCEPT !.op = call, !.jobs = free]
  <2>1. x \in PgCallWindow /\ x.op \notin OneRowCalls
    BY DEF PgIdle, PgCallWindow, PgCalls, OneRowCalls
  <2>2. pgWindow' = [pgWindow EXCEPT ![t] = x] /\ UNCHANGED <<pgJobs, pgClock>>
    BY <1>11 DEF SelectForUpdate
  <2> HIDE DEF x, free
  <2>3. QED
    BY <2>1, <2>2, ReadKeepsTable
<1>12. CASE PgPromote(t)
  <2> DEFINE rows == [j \in PgJob |-> IF j \in w.jobs
                          THEN IF pgJobs[j].status = "retry_scheduled"
                               THEN [pgJobs[j] EXCEPT !.status = "pending", !.due = None] ELSE pgJobs[j]
                          ELSE pgJobs[j]]
  <2>1. WriteAndCommit(t, rows)
    BY <1>12 DEF PgPromote, Set
  <2>2. \A j \in w.jobs : rows[j] \in PgRow /\ RowLeased(rows[j])
    BY <1>0 DEF PgRow, Status, RowLeased
  <2>3. \A j \in w.jobs : rows[j].status \in ActiveStatuses => pgJobs[j].status \in ActiveStatuses
    BY <1>0 DEF ActiveStatuses
  <2>4. rows = [j \in PgJob |-> IF j \in w.jobs THEN rows[j] ELSE pgJobs[j]]
    BY <1>0
  <2> HIDE DEF rows
  <2>5. QED
    BY <2>1, <2>2, <2>3, <2>4, UpdateKeepsTable
<1>13. CASE PgRecover(t)
  <2> DEFINE st(j) == IF pgJobs[j].attempt < PgAttempts[j] THEN "pending" ELSE "retry_scheduled"
             rows == [j \in PgJob |-> IF j \in w.jobs
                          THEN IF pgJobs[j].status = "running" THEN Settled(j, st(j)) ELSE pgJobs[j]
                          ELSE pgJobs[j]]
  <2>1. WriteAndCommit(t, rows)
    BY <1>13 DEF PgRecover, Set
  <2>2. \A j \in w.jobs : /\ rows[j] \in PgRow /\ RowLeased(rows[j])
                          /\ rows[j].status \in ActiveStatuses => pgJobs[j].status \in ActiveStatuses
    <3>1. SUFFICES ASSUME NEW j \in w.jobs, pgJobs[j].status = "running"
                   PROVE  Settled(j, st(j)) \in PgRow /\ RowLeased(Settled(j, st(j)))
      BY <1>0 DEF ActiveStatuses
    <3>2. j \in PgJob /\ st(j) \in Status /\ st(j) # "running"
      BY <1>0 DEF Status
    <3> HIDE DEF st
    <3>3. QED
      BY <3>2, SettledLeased
  <2>3. rows = [j \in PgJob |-> IF j \in w.jobs THEN rows[j] ELSE pgJobs[j]]
    BY <1>0
  <2> HIDE DEF rows
  <2>4. QED
    BY <2>1, <2>2, <2>3, UpdateKeepsTable
<1>14. CASE PgRaise(t)
  BY <1>0, <1>14, ReadKeepsTable DEF PgRaise
<1>15. QED
  BY <1>2, <1>3, <1>4, <1>5, <1>6, <1>7, <1>8, <1>9, <1>10, <1>11, <1>12, <1>13, <1>14 DEF PgStep

LEMMA PgTableStarts == PgInit => PgTable
<1>1. PgAbsent \in PgRow /\ RowLeased(PgAbsent) /\ PgAbsent.status \notin ActiveStatuses
      /\ PgIdle \in PgCallWindow /\ PgIdle.jobs = {}
  BY DEF PgAbsent, PgRow, Status, PgIdle, PgCallWindow, RowLeased, ActiveStatuses
<1>2. QED
  BY <1>1 DEF PgInit, PgTable, PgLeased, PgKeysUnique, PgActive, WritesOneRow, RowLeased

LEMMA PgTableStays == PgTable /\ [PgNext]_pgVars => PgTable'
<1>1. ASSUME PgTable, NEW c \in Conn, Reconnect(c) PROVE PgTable'
  <2>1. PgIdle \in PgCallWindow /\ PgIdle.jobs = {}
    BY DEF PgIdle, PgCallWindow
  <2>2. QED
    BY <1>1, <2>1 DEF Reconnect, PgTable, PgLeased, PgKeysUnique, PgActive, WritesOneRow
<1>2. PgTable /\ PgTick => PgTable'
  BY DEF PgTick, PgTable, PgLeased, PgKeysUnique, PgActive, WritesOneRow
<1>3. PgTable /\ UNCHANGED pgVars => PgTable'
  BY DEF pgVars, PgTable, PgLeased, PgKeysUnique, PgActive, WritesOneRow
<1>4. QED
  BY <1>1, <1>2, <1>3, PgStepKeepsTable DEF PgNext

\* However connections are shared, fail and come back, and however late a mark is:
\* a row runs exactly while somebody leases it, and the unique index is never
\* passed by, two active rows never have one key.
THEOREM PgRowsSound == PgSpec => [](PgLeased /\ PgKeysUnique)
<1>1. PgTable => PgLeased /\ PgKeysUnique
  BY DEF PgTable
<1>2. QED
  BY <1>1, PgTableStarts, PgTableStays, PTL DEF PgSpec

-----------------------------------------------------------------------------
(* No lock on a row of the Postgres table is left behind. *)

\* The calls that lock rows before they update them.
LockingCalls == {"claim", "promote", "recover"}

\* A locked row is locked by a call that goes on: its transaction has not failed
\* and every row it will write is free for it.
HoldersGoOn ==
    \A j \in PgJob : rowLock[j] # None =>
        \E t \in PgThread :
            /\ ConnOf[t] = rowLock[j]
            /\ ConnOf[t] \notin aborted
            /\ pgWindow[t].op \in LockingCalls
            /\ pgWindow[t].jobs # {}
            /\ \A k \in pgWindow[t].jobs : Lockable(t, k)

\* What is inductive: a call under way has locked all it will write.
LocksOwn == \A t \in PgThread : pgWindow[t].op \in LockingCalls => \A k \in pgWindow[t].jobs : rowLock[k] = ConnOf[t]

LockedFor(t, j) ==
    /\ rowLock[j] = ConnOf[t]
    /\ ConnOf[t] \notin aborted
    /\ pgWindow[t].op \in LockingCalls
    /\ pgWindow[t].jobs # {}

LocksHeld == \A j \in PgJob : rowLock[j] # None => \E t \in PgThread : LockedFor(t, j)

LockInv == RowsTyped /\ LocksOwn /\ LocksHeld

\* A thread whose call locks nothing holds no lock.
LEMMA HoldsNone ==
    ASSUME LockInv, OwnConnection, NEW t \in PgThread, pgWindow[t].op \notin LockingCalls
    PROVE  \A j \in PgJob : rowLock[j] # ConnOf[t]
<1>1. ConnOf[t] # None
  BY PgConstants
<1>2. QED
  BY <1>1 DEF LockInv, LocksHeld, LockedFor, OwnConnection

\* A call that starts and locks no row.
LEMMA LookKeepsLocks ==
    ASSUME LockInv, OwnConnection, NEW t \in PgThread, NEW x,
           pgWindow' = [pgWindow EXCEPT ![t] = x], UNCHANGED <<rowLock, aborted>>,
           pgWindow[t].op \notin LockingCalls, x.op \notin LockingCalls
    PROVE  (LocksOwn /\ LocksHeld)'
<1>1. pgWindow'[t] = x /\ \A u \in PgThread \ {t} : pgWindow'[u] = pgWindow[u]
  BY DEF LockInv, RowsTyped
<1>2. LocksOwn'
  BY <1>1 DEF LockInv, LocksOwn
<1>3. LocksHeld'
  BY <1>1 DEF LockInv, LocksHeld, LockedFor
<1>4. QED
  BY <1>2, <1>3

\* A statement that locks rows that were free.
LEMMA LockKeepsLocks ==
    ASSUME LockInv, OwnConnection, NEW t \in PgThread, NEW x, NEW locks \in SUBSET PgJob,
           pgWindow' = [pgWindow EXCEPT ![t] = x],
           rowLock' = [j \in PgJob |-> IF j \in locks THEN ConnOf[t] ELSE rowLock[j]],
           UNCHANGED aborted, ConnOf[t] \notin aborted,
           \A j \in locks : Lockable(t, j), pgWindow[t].op \notin LockingCalls,
           x.op \in LockingCalls, x.jobs \subseteq locks, x.jobs # {}
    PROVE  (LocksOwn /\ LocksHeld)'
<1>1. pgWindow'[t] = x /\ \A u \in PgThread \ {t} : pgWindow'[u] = pgWindow[u] /\ pgWindow[u].jobs \subseteq PgJob
  BY DEF LockInv, RowsTyped, PgCallWindow
<1>2. \A j \in locks : rowLock[j] = None
  BY HoldsNone DEF Lockable
<1>3. \A u \in PgThread : ConnOf[u] # None
  BY PgConstants
<1>4. \A j \in PgJob : rowLock[j] # None => rowLock'[j] = rowLock[j]
  BY <1>2
<1>5. LocksOwn'
  BY <1>1, <1>3, <1>4 DEF LockInv, LocksOwn
<1>6. LocksHeld'
  <2>1. SUFFICES ASSUME NEW j \in PgJob, rowLock'[j] # None PROVE \E u \in PgThread : LockedFor(u, j)'
    BY DEF LocksHeld
  <2>2. CASE j \in locks
    BY <1>1, <2>2 DEF LockedFor
  <2>3. CASE j \notin locks
    <3>1. rowLock'[j] = rowLock[j] /\ rowLock[j] # None
      BY <2>1, <2>3
    <3>2. PICK u \in PgThread : LockedFor(u, j)
      BY <3>1 DEF LockInv, LocksHeld
    <3>3. u # t
      BY <3>2 DEF LockedFor
    <3>4. LockedFor(u, j)'
      BY <1>1, <3>1, <3>2, <3>3 DEF LockedFor
    <3>5. QED
      BY <3>4
  <2>4. QED
    BY <2>2, <2>3
<1>7. QED
  BY <1>5, <1>6

\* A statement that writes: a call that has locked rows is never refused, for it
\* makes no row active that was not; so a refusal leaves no row locked.
LEMMA WriteKeepsLocks ==
    ASSUME LockInv, OwnConnection, NEW t \in PgThread, NEW rows,
           WriteAndCommit(t, rows),
           \/ pgWindow[t].op \notin LockingCalls
           \/ \A j \in PgJob : rows[j].status \in ActiveStatuses => pgJobs[j].status \in ActiveStatuses
    PROVE  (LocksOwn /\ LocksHeld)'
<1>1. PgIdle.op \notin LockingCalls /\ PgIdle.jobs = {}
  BY DEF PgIdle, LockingCalls
<1>2. pgWindow'[t] = PgIdle /\ \A u \in PgThread \ {t} : pgWindow'[u] = pgWindow[u] /\ pgWindow[u].jobs \subseteq PgJob
  BY DEF WriteAndCommit, LockInv, RowsTyped, PgCallWindow
<1>3. \A u \in PgThread \ {t} : ConnOf[u] # ConnOf[t]
  BY DEF OwnConnection
<1>4. /\ rowLock' = Released(ConnOf[t]) \/ rowLock' = rowLock
      /\ aborted' = aborted \/ aborted' = aborted \cup {ConnOf[t]}
  BY DEF WriteAndCommit
<1>5. \A j \in PgJob : rowLock'[j] # ConnOf[t]
  <2>1. CASE rowLock' = Released(ConnOf[t])
    BY <2>1, PgConstants DEF Released
  <2>2. CASE pgWindow[t].op \notin LockingCalls
    BY <1>4, <2>1, <2>2, HoldsNone
  <2>3. CASE \A j \in PgJob : rows[j].status \in ActiveStatuses => pgJobs[j].status \in ActiveStatuses
    BY <2>1, <2>3 DEF WriteAndCommit
  <2>4. QED
    BY <2>2, <2>3
<1>6. \A j \in PgJob : rowLock[j] # ConnOf[t] => rowLock'[j] = rowLock[j]
  BY <1>4 DEF Released
<1>7. \A j \in PgJob : rowLock'[j] # None => rowLock'[j] = rowLock[j]
  BY <1>4 DEF Released
<1>8. LocksOwn'
  BY <1>1, <1>2, <1>3, <1>6 DEF LockInv, LocksOwn
<1>9. LocksHeld'
  <2>1. SUFFICES ASSUME NEW j \in PgJob, rowLock'[j] # None PROVE \E u \in PgThread : LockedFor(u, j)'
    BY DEF LocksHeld
  <2>2. PICK u \in PgThread : LockedFor(u, j)
    BY <1>7, <2>1 DEF LockInv, LocksHeld
  <2>3. rowLock'[j] = rowLock[j] /\ u # t
    BY <1>5, <1>7, <2>1, <2>2 DEF LockedFor
  <2>4. LockedFor(u, j)'
    BY <1>2, <1>3, <1>4, <2>2, <2>3 DEF LockedFor
  <2>5. QED
    BY <2>4
<1>10. QED
  BY <1>8, <1>9

LEMMA PgStepKeepsLocks == ASSUME LockInv, OwnConnection, NEW t \in PgThread, PgStep(t) PROVE (LocksOwn /\ LocksHeld)'
<1> DEFINE w == pgWindow[t]
<1>0. /\ w \in PgCallWindow /\ w.jobs \subseteq PgJob
      /\ PgIdle.op \notin LockingCalls /\ PgIdle.jobs = {}
  BY DEF LockInv, RowsTyped, PgCallWindow, PgIdle, LockingCalls
<1>1. ASSUME NEW call \in {"submit", "succeeded", "failed", "retry_scheduled", "release", "heartbeat"}, NEW j \in PgJob,
             PgStarts(t, call),
             pgWindow' = [pgWindow EXCEPT ![t] = [PgIdle EXCEPT !.op = call, !.jobs = {j}]],
             UNCHANGED <<rowLock, aborted>>
      PROVE  (LocksOwn /\ LocksHeld)'
  <2> DEFINE x == [PgIdle EXCEPT !.op = call, !.jobs = {j}]
  <2>1. x.op \notin LockingCalls /\ pgWindow[t].op \notin LockingCalls
    BY <1>0, <1>1 DEF PgIdle, LockingCalls, PgStarts
  <2>2. pgWindow' = [pgWindow EXCEPT ![t] = x]
    BY <1>1
  <2> HIDE DEF x
  <2>3. QED
    BY <1>1, <2>1, <2>2, LookKeepsLocks
<1>2. ASSUME NEW j \in PgJob, PgSubmit(t, j) PROVE (LocksOwn /\ LocksHeld)'
  BY <1>1, <1>2 DEF PgSubmit
<1>3. ASSUME NEW rows, WriteAndCommit(t, rows), w.op \notin LockingCalls PROVE (LocksOwn /\ LocksHeld)'
  BY <1>3, WriteKeepsLocks
<1>4. CASE PgCreate(t)
  BY <1>3, <1>4 DEF PgCreate, Inside, LockingCalls
<1>5. CASE ReadHeld(t)
  <2> DEFINE x == [PgIdle EXCEPT !.op = "held", !.held = HeldNow]
  <2>1. x.op \notin LockingCalls /\ w.op \notin LockingCalls
    BY <1>0, <1>5 DEF ReadHeld, PgStarts, PgIdle, LockingCalls
  <2>2. pgWindow' = [pgWindow EXCEPT ![t] = x] /\ UNCHANGED <<rowLock, aborted>>
    BY <1>5 DEF ReadHeld
  <2> HIDE DEF x
  <2>3. QED
    BY <2>1, <2>2, LookKeepsLocks
<1>6. CASE LockPending(t)
  <2> DEFINE rows == {j \in PgJob : pgJobs[j].status = "pending" /\ Lockable(t, j)}
             fits == {j \in rows : PgResource[j] \notin pgWindow[t].held /\ pgJobs[j].attempt < PgClaims}
             x == [w EXCEPT !.op = "claim", !.jobs = fits]
  <2>0. w.op \notin LockingCalls /\ ConnOf[t] \notin aborted
    BY <1>6 DEF LockPending, Inside, LockingCalls
  <2>1. CASE WriteAndCommit(t, pgJobs)
    BY <1>3, <2>0, <2>1
  <2>2. CASE ~WriteAndCommit(t, pgJobs)
    <3>1. /\ rowLock' = [j \in PgJob |-> IF j \in rows THEN ConnOf[t] ELSE rowLock[j]]
          /\ pgWindow' = [pgWindow EXCEPT ![t].op = "claim", ![t].jobs = fits]
          /\ UNCHANGED aborted /\ fits # {}
      BY <1>6, <2>2 DEF LockPending
    <3>2. fits \subseteq rows /\ rows \in SUBSET PgJob /\ \A j \in rows : Lockable(t, j)
      OBVIOUS
    <3> HIDE DEF rows, fits
    <3>3. x.op \in LockingCalls /\ x.jobs = fits
      BY <1>0 DEF PgCallWindow, LockingCalls
    <3>4. pgWindow' = [pgWindow EXCEPT ![t] = x]
      BY <1>0, <3>1 DEF LockInv, RowsTyped, PgCallWindow
    <3> HIDE DEF x
    <3>5. QED
      BY <2>0, <3>1, <3>2, <3>3, <3>4, LockKeepsLocks
  <2>3. QED
    BY <2>1, <2>2
<1>7. ASSUME NEW j \in PgJob, UpdateClaimed(t, j) PROVE (LocksOwn /\ LocksHeld)'
  <2> DEFINE row == [pgJobs[j] EXCEPT !.status = "running", !.attempt = @ + 1, !.by = t,
                                      !.until = pgClock + PgLease, !.due = None]
             rows == IF pgJobs[j].status # "pending" THEN pgJobs ELSE [pgJobs EXCEPT ![j] = row]
  <2>1. WriteAndCommit(t, rows)
    BY <1>7 DEF UpdateClaimed
  <2> HIDE DEF row
  <2>2. \A k \in PgJob : rows[k].status \in ActiveStatuses => pgJobs[k].status \in ActiveStatuses
    BY DEF LockInv, RowsTyped, ActiveStatuses
  <2> HIDE DEF rows
  <2>3. QED
    BY <2>1, <2>2, WriteKeepsLocks
<1>8. ASSUME NEW call \in {"succeeded", "failed", "retry_scheduled", "release", "heartbeat"}, NEW j \in PgJob,
             PgRead(t, call, j)
      PROVE  (LocksOwn /\ LocksHeld)'
  BY <1>1, <1>8 DEF PgRead
<1>9. ASSUME NEW call \in {"succeeded", "failed", "retry_scheduled"}, PgMark(t, call) PROVE (LocksOwn /\ LocksHeld)'
  BY <1>3, <1>9 DEF PgMark, Inside, LockingCalls
<1>10. CASE PgRelease(t)
  BY <1>3, <1>10 DEF PgRelease, Inside, LockingCalls
<1>11. CASE PgHeartbeat(t)
  BY <1>3, <1>11 DEF PgHeartbeat, Inside, LockingCalls
<1>12. ASSUME NEW call \in {"promote", "recover"}, NEW S \in SUBSET PgJob, SelectForUpdate(t, call, S)
       PROVE  (LocksOwn /\ LocksHeld)'
  <2> DEFINE free == {j \in S : Lockable(t, j)}
             x == [PgIdle EXCEPT !.op = call, !.jobs = free]
  <2>1. x.op \in LockingCalls /\ x.jobs = free
    BY DEF PgIdle, LockingCalls
  <2>2. /\ pgWindow' = [pgWindow EXCEPT ![t] = x] /\ UNCHANGED aborted /\ free # {}
        /\ rowLock' = [j \in PgJob |-> IF j \in free THEN ConnOf[t] ELSE rowLock[j]]
        /\ w.op \notin LockingCalls /\ ConnOf[t] \notin aborted
    BY <1>0, <1>12 DEF SelectForUpdate, PgStarts
  <2>3. free \in SUBSET PgJob /\ \A j \in free : Lockable(t, j)
    OBVIOUS
  <2> HIDE DEF x, free
  <2>4. QED
    BY <2>1, <2>2, <2>3, LockKeepsLocks
<1>13. CASE PgPromote(t)
  <2> DEFINE rows == [j \in PgJob |-> IF j \in w.jobs
                          THEN IF pgJobs[j].status = "retry_scheduled"
                               THEN [pgJobs[j] EXCEPT !.status = "pending", !.due = None] ELSE pgJobs[j]
                          ELSE pgJobs[j]]
  <2>1. WriteAndCommit(t, rows)
    BY <1>13 DEF PgPromote, Set
  <2>2. \A j \in PgJob : rows[j].status \in ActiveStatuses => pgJobs[j].status \in ActiveStatuses
    BY DEF ActiveStatuses
  <2> HIDE DEF rows
  <2>3. QED
    BY <2>1, <2>2, WriteKeepsLocks
<1>14. CASE PgRecover(t)
  <2> DEFINE row(j) == Settled(j, IF pgJobs[j].attempt < PgAttempts[j] THEN "pending" ELSE "retry_scheduled")
             rows == [j \in PgJob |-> IF j \in w.jobs
                          THEN IF pgJobs[j].status = "running" THEN row(j) ELSE pgJobs[j]
                          ELSE pgJobs[j]]
  <2>1. WriteAndCommit(t, rows)
    BY <1>14 DEF PgRecover, Set
  <2> HIDE DEF row
  <2>2. \A j \in PgJob : rows[j].status \in ActiveStatuses => pgJobs[j].status \in ActiveStatuses
    BY DEF ActiveStatuses
  <2> HIDE DEF rows
  <2>3. QED
    BY <2>1, <2>2, WriteKeepsLocks
<1>15. CASE PgRaise(t)
  <2>1. pgWindow' = [pgWindow EXCEPT ![t] = PgIdle] /\ UNCHANGED <<rowLock, aborted>> /\ ConnOf[t] \in aborted
    BY <1>15 DEF PgRaise
  <2>2. pgWindow'[t] = PgIdle /\ \A u \in PgThread \ {t} : pgWindow'[u] = pgWindow[u]
    BY <2>1 DEF LockInv, RowsTyped
  <2>3. LocksOwn'
    BY <1>0, <2>1, <2>2 DEF LockInv, LocksOwn
  <2>4. LocksHeld'
    BY <2>1, <2>2 DEF LockInv, LocksHeld, LockedFor
  <2>5. QED
    BY <2>3, <2>4
<1>16. QED
  BY <1>2, <1>4, <1>5, <1>6, <1>7, <1>8, <1>9, <1>10, <1>11, <1>12, <1>13, <1>14, <1>15 DEF PgStep

\* Where no two threads share a connection, no row stays locked by a transaction
\* that failed, and no two calls wait for each other's rows, for any jobs, threads
\* and deaths: the calls the unique index may refuse are those that hold no lock.
THEOREM LocksAreFreed == ASSUME OwnConnection PROVE PgSpec => []HoldersGoOn
<1> DEFINE Inv == PgInv /\ LocksOwn /\ LocksHeld
<1>1. PgInit => Inv
  <2>1. PgAbsent \in PgRow /\ PgAbsent.status = "absent" /\ PgIdle \in PgCallWindow
        /\ PgIdle.jobs = {} /\ PgIdle.op = "idle"
    BY DEF PgAbsent, PgRow, Status, PgIdle, PgCallWindow
  <2>2. PgInit => PgInv
    BY <2>1 DEF PgInit, PgInv, RowsTyped, SubmittedOnce, Selected
  <2>3. PgInit => LocksOwn /\ LocksHeld
    BY <2>1 DEF PgInit, LocksOwn, LocksHeld
  <2>4. QED
    BY <2>2, <2>3
<1>2. Inv /\ [PgNext]_pgVars => Inv'
  <2>1. PgInv /\ [PgNext]_pgVars => PgInv'
    BY PgStays
  <2>2. ASSUME LockInv, NEW c \in Conn, Reconnect(c) PROVE (LocksOwn /\ LocksHeld)'
    <3>1. PgIdle.op \notin LockingCalls /\ \A t \in PgThread : pgWindow[t].jobs \subseteq PgJob
      BY <2>2 DEF PgIdle, LockingCalls, LockInv, RowsTyped, PgCallWindow
    <3>2. /\ \A j \in PgJob : rowLock'[j] = IF rowLock[j] = c THEN None ELSE rowLock[j]
          /\ aborted' \subseteq aborted
          /\ \A t \in PgThread : pgWindow'[t] = IF ConnOf[t] = c THEN PgIdle ELSE pgWindow[t]
      BY <2>2 DEF Reconnect, Released
    <3>3. LocksOwn'
      BY <2>2, <3>1, <3>2 DEF LockInv, LocksOwn
    <3>4. LocksHeld'
      BY <2>2, <3>1, <3>2 DEF LockInv, LocksHeld, LockedFor
    <3>5. QED
      BY <3>3, <3>4
  <2>3. LockInv /\ PgTick => (LocksOwn /\ LocksHeld)'
    BY DEF PgTick, LockInv, LocksOwn, LocksHeld, LockedFor
  <2>4. LockInv /\ UNCHANGED pgVars => (LocksOwn /\ LocksHeld)'
    BY DEF pgVars, LockInv, LocksOwn, LocksHeld, LockedFor
  <2>5. LockInv /\ [PgNext]_pgVars => (LocksOwn /\ LocksHeld)'
    BY <2>2, <2>3, <2>4, PgStepKeepsLocks DEF PgNext
  <2>6. PgInv /\ LocksOwn /\ LocksHeld => LockInv
    BY DEF PgInv, LockInv
  <2>7. QED
    BY <2>1, <2>5, <2>6
<1>3. Inv => HoldersGoOn
  BY DEF LocksHeld, LocksOwn, LockedFor, HoldersGoOn, Lockable
<1>4. QED
  BY <1>1, <1>2, <1>3, PTL DEF PgSpec

-----------------------------------------------------------------------------
(* PostgresStore: when resources are exclusive. *)

\* One thread claims; any others submit, mark, beat, promote and recover.
OneClaimer == \A t, u \in PgThread : "claim" \in PgUses[t] /\ "claim" \in PgUses[u] => t = u

\* Of two jobs that need one resource at most one runs.
PgResourceExclusive ==
    \A i, j \in PgJob :
        /\ i # j /\ PgResource[i] # None /\ PgResource[i] = PgResource[j]
        /\ pgJobs[i].status = "running"
        => pgJobs[j].status # "running"

\* What a claim computed before it locked a row still covers all that is held, and
\* none of the rows it chooses from needs any of it.
Covers(t) ==
    pgWindow[t].op \in {"held", "claim"} =>
        /\ "claim" \in PgUses[t]
        /\ HeldNow \subseteq pgWindow[t].held
        /\ pgWindow[t].op = "claim" => \A j \in pgWindow[t].jobs : PgResource[j] \notin pgWindow[t].held

ClaimInv == PgTable /\ PgResourceExclusive /\ \A t \in PgThread : Covers(t)

\* A step that starts no job.
LEMMA StartsNone ==
    ASSUME ClaimInv, NEW t \in PgThread, NEW x,
           pgWindow' = [pgWindow EXCEPT ![t] = x],
           \A j \in PgJob : pgJobs'[j].status = "running" => pgJobs[j].status = "running",
           x.op \in {"held", "claim"} =>
              /\ "claim" \in PgUses[t]
              /\ HeldNow \subseteq x.held
              /\ x.op = "claim" => \A j \in x.jobs : PgResource[j] \notin x.held
    PROVE  PgResourceExclusive' /\ \A u \in PgThread : Covers(u)'
<1>1. pgWindow'[t] = x /\ \A u \in PgThread \ {t} : pgWindow'[u] = pgWindow[u]
  BY DEF ClaimInv, PgTable
<1>2. HeldNow' \subseteq HeldNow
  BY DEF HeldNow
<1>3. PgResourceExclusive'
  BY DEF ClaimInv, PgResourceExclusive
<1>4. ASSUME NEW u \in PgThread PROVE Covers(u)'
  <2>1. CASE u = t
    BY <1>1, <1>2, <2>1 DEF Covers
  <2>2. CASE u # t
    BY <1>1, <1>2, <2>2 DEF ClaimInv, Covers
  <2>3. QED
    BY <2>1, <2>2
<1>5. QED
  BY <1>3, <1>4

\* A statement that writes and starts no job.
LEMMA WritesStartNone ==
    ASSUME ClaimInv, NEW t \in PgThread, NEW rows, WriteAndCommit(t, rows),
           \A j \in PgJob : rows[j].status = "running" => pgJobs[j].status = "running"
    PROVE  PgResourceExclusive' /\ \A u \in PgThread : Covers(u)'
<1>1. /\ pgWindow' = [pgWindow EXCEPT ![t] = PgIdle]
      /\ pgJobs' = rows \/ pgJobs' = pgJobs
  BY DEF WriteAndCommit
<1>2. PgIdle.op = "idle"
  BY DEF PgIdle
<1>3. QED
  BY <1>1, <1>2, StartsNone

\* The update that starts a job: what is held was read by the same call.
LEMMA ClaimExcludes ==
    ASSUME ClaimInv, OneClaimer, NEW t \in PgThread, NEW j \in PgJob, UpdateClaimed(t, j)
    PROVE  PgResourceExclusive' /\ \A u \in PgThread : Covers(u)'
<1> DEFINE row == [pgJobs[j] EXCEPT !.status = "running", !.attempt = @ + 1, !.by = t,
                                    !.until = pgClock + PgLease, !.due = None]
           rows == IF pgJobs[j].status # "pending" THEN pgJobs ELSE [pgJobs EXCEPT ![j] = row]
<1>1. WriteAndCommit(t, rows) /\ pgWindow[t].op = "claim" /\ j \in pgWindow[t].jobs
  BY DEF UpdateClaimed, Inside
<1>2. \A k \in PgJob \ {j} : rows[k] = pgJobs[k]
  BY DEF ClaimInv, PgTable
<1> HIDE DEF rows
<1>3. /\ pgWindow' = [pgWindow EXCEPT ![t] = PgIdle]
      /\ pgJobs' = rows \/ pgJobs' = pgJobs
  BY <1>1 DEF WriteAndCommit
<1>4. \A k \in PgJob \ {j} : pgJobs'[k] = pgJobs[k]
  BY <1>2, <1>3
<1>5. PgIdle.op = "idle"
  BY DEF PgIdle
<1>6. PgResource[j] \notin HeldNow
  BY <1>1 DEF ClaimInv, Covers
<1>7. PgResourceExclusive'
  <2>1. \A k \in PgJob \ {j} : pgJobs[k].status = "running" /\ PgResource[k] # None => PgResource[k] # PgResource[j]
    BY <1>6 DEF HeldNow
  <2>2. QED
    BY <1>4, <2>1 DEF ClaimInv, PgResourceExclusive
<1>8. ASSUME NEW u \in PgThread PROVE Covers(u)'
  <2>1. pgWindow'[t] = PgIdle /\ \A v \in PgThread \ {t} : pgWindow'[v] = pgWindow[v]
    BY <1>3 DEF ClaimInv, PgTable
  <2>2. pgWindow[u].op \in {"held", "claim"} => u = t
    BY <1>1 DEF ClaimInv, Covers, OneClaimer
  <2>3. pgWindow'[u].op \notin {"held", "claim"}
    BY <1>5, <2>1, <2>2
  <2>4. QED
    BY <2>3 DEF Covers
<1>9. QED
  BY <1>7, <1>8

LEMMA PgStepExcludes ==
    ASSUME ClaimInv, OneClaimer, NEW t \in PgThread, PgStep(t)
    PROVE  PgResourceExclusive' /\ \A u \in PgThread : Covers(u)'
<1> DEFINE w == pgWindow[t]
           Goal == PgResourceExclusive' /\ \A u \in PgThread : Covers(u)'
<1>0. /\ w \in PgCallWindow /\ PgIdle.op = "idle"
      /\ \A j \in PgJob : pgJobs[j] \in PgRow
  BY DEF ClaimInv, PgTable, PgIdle
<1>1. ASSUME NEW j \in PgJob, NEW call \in OneRowCalls,
             pgWindow' = [pgWindow EXCEPT ![t] = [PgIdle EXCEPT !.op = call, !.jobs = {j}]], UNCHANGED pgJobs
      PROVE  Goal
  <2> DEFINE x == [PgIdle EXCEPT !.op = call, !.jobs = {j}]
  <2>1. x.op \notin {"held", "claim"} /\ pgWindow' = [pgWindow EXCEPT ![t] = x]
    BY <1>1 DEF PgIdle, OneRowCalls
  <2> HIDE DEF x
  <2>2. QED
    BY <1>1, <2>1, StartsNone
<1>2. ASSUME NEW j \in PgJob, PgSubmit(t, j) PROVE Goal
  BY <1>1, <1>2 DEF PgSubmit, OneRowCalls
<1>3. CASE PgCreate(t)
  <2> DEFINE rows == [j \in PgJob |-> IF j \in w.jobs THEN [PgAbsent EXCEPT !.status = "pending"] ELSE pgJobs[j]]
  <2>1. WriteAndCommit(t, rows) /\ \A j \in PgJob : rows[j].status = "running" => pgJobs[j].status = "running"
    BY <1>3 DEF PgCreate, Set, PgAbsent
  <2> HIDE DEF rows
  <2>2. QED
    BY <2>1, WritesStartNone
<1>4. CASE ReadHeld(t)
  <2> DEFINE x == [PgIdle EXCEPT !.op = "held", !.held = HeldNow]
  <2>1. x.op = "held" /\ x.held = HeldNow
    BY DEF PgIdle
  <2>2. pgWindow' = [pgWindow EXCEPT ![t] = x] /\ UNCHANGED pgJobs /\ "claim" \in PgUses[t]
    BY <1>4 DEF ReadHeld, PgStarts
  <2> HIDE DEF x
  <2>3. QED
    BY <2>1, <2>2, StartsNone
<1>5. CASE LockPending(t)
  <2> DEFINE rows == {j \in PgJob : pgJobs[j].status = "pending" /\ Lockable(t, j)}
             fits == {j \in rows : PgResource[j] \notin w.held /\ pgJobs[j].attempt < PgClaims}
             x == [w EXCEPT !.op = "claim", !.jobs = fits]
  <2>1. CASE WriteAndCommit(t, pgJobs)
    BY <2>1, WritesStartNone
  <2>2. CASE ~WriteAndCommit(t, pgJobs)
    <3>1. /\ pgWindow' = [pgWindow EXCEPT ![t].op = "claim", ![t].jobs = fits]
          /\ UNCHANGED pgJobs /\ w.op = "held"
      BY <1>5, <2>2 DEF LockPending, Inside
    <3>2. \A j \in fits : PgResource[j] \notin w.held
      OBVIOUS
    <3> HIDE DEF rows, fits
    <3>3. x.op = "claim" /\ x.jobs = fits /\ x.held = w.held
      BY <1>0 DEF PgCallWindow
    <3>4. pgWindow' = [pgWindow EXCEPT ![t] = x]
      BY <1>0, <3>1 DEF ClaimInv, PgTable, PgCallWindow
    <3>5. "claim" \in PgUses[t] /\ HeldNow \subseteq w.held
      BY <3>1 DEF ClaimInv, Covers
    <3> HIDE DEF x
    <3>6. QED
      BY <3>1, <3>2, <3>3, <3>4, <3>5, StartsNone
  <2>3. QED
    BY <2>1, <2>2
<1>6. ASSUME NEW j \in PgJob, UpdateClaimed(t, j) PROVE Goal
  BY <1>6, ClaimExcludes
<1>7. ASSUME NEW call \in {"succeeded", "failed", "retry_scheduled", "release", "heartbeat"}, NEW j \in PgJob,
             PgRead(t, call, j)
      PROVE  Goal
  BY <1>1, <1>7 DEF PgRead, OneRowCalls
<1>8. ASSUME NEW call \in {"succeeded", "failed", "retry_scheduled"}, PgMark(t, call) PROVE Goal
  <2> DEFINE rows == [j \in PgJob |-> IF j \in w.jobs
                          THEN IF call = "retry_scheduled" THEN [Settled(j, call) EXCEPT !.due = pgClock]
                               ELSE Settled(j, call)
                          ELSE pgJobs[j]]
  <2>1. WriteAndCommit(t, rows)
    BY <1>8 DEF PgMark, Set
  <2>2. \A j \in PgJob : rows[j].status = "running" => pgJobs[j].status = "running"
    BY <1>0 DEF Settled, PgRow
  <2> HIDE DEF rows
  <2>3. QED
    BY <2>1, <2>2, WritesStartNone
<1>9. CASE PgRelease(t)
  <2> DEFINE rows == [j \in PgJob |-> IF j \in w.jobs THEN Settled(j, "pending") ELSE pgJobs[j]]
  <2>1. WriteAndCommit(t, rows)
    BY <1>9 DEF PgRelease, Set
  <2>2. \A j \in PgJob : rows[j].status = "running" => pgJobs[j].status = "running"
    BY <1>0 DEF Settled, PgRow
  <2> HIDE DEF rows
  <2>3. QED
    BY <2>1, <2>2, WritesStartNone
<1>10. CASE PgHeartbeat(t)
  <2> DEFINE rows == [j \in PgJob |-> IF j \in w.jobs
                          THEN IF pgJobs[j].by = t THEN [pgJobs[j] EXCEPT !.until = pgClock + PgLease]
                               ELSE pgJobs[j]
                          ELSE pgJobs[j]]
  <2>1. WriteAndCommit(t, rows)
    BY <1>10 DEF PgHeartbeat, Set
  <2>2. \A j \in PgJob : rows[j].status = "running" => pgJobs[j].status = "running"
    BY <1>0 DEF PgRow
  <2> HIDE DEF rows
  <2>3. QED
    BY <2>1, <2>2, WritesStartNone
<1>11. ASSUME NEW call \in {"promote", "recover"}, NEW S \in SUBSET PgJob, SelectForUpdate(t, call, S)
       PROVE  Goal
  <2> DEFINE x == [PgIdle EXCEPT !.op = call, !.jobs = {j \in S : Lockable(t, j)}]
  <2>1. x.op \notin {"held", "claim"} /\ pgWindow' = [pgWindow EXCEPT ![t] = x] /\ UNCHANGED pgJobs
    BY <1>11 DEF PgIdle, SelectForUpdate
  <2> HIDE DEF x
  <2>2. QED
    BY <2>1, StartsNone
<1>12. CASE PgPromote(t)
  <2> DEFINE rows == [j \in PgJob |-> IF j \in w.jobs
                          THEN IF pgJobs[j].status = "retry_scheduled"
                               THEN [pgJobs[j] EXCEPT !.status = "pending", !.due = None] ELSE pgJobs[j]
                          ELSE pgJobs[j]]
  <2>1. WriteAndCommit(t, rows)
    BY <1>12 DEF PgPromote, Set
  <2>2. \A j \in PgJob : rows[j].status = "running" => pgJobs[j].status = "running"
    BY <1>0 DEF PgRow
  <2> HIDE DEF rows
  <2>3. QED
    BY <2>1, <2>2, WritesStartNone
<1>13. CASE PgRecover(t)
  <2> DEFINE row(j) == Settled(j, IF pgJobs[j].attempt < PgAttempts[j] THEN "pending" ELSE "retry_scheduled")
             rows == [j \in PgJob |-> IF j \in w.jobs
                          THEN IF pgJobs[j].status = "running" THEN row(j) ELSE pgJobs[j]
                          ELSE pgJobs[j]]
  <2>1. WriteAndCommit(t, rows)
    BY <1>13 DEF PgRecover, Set
  <2> HIDE DEF row
  <2>2. \A j \in PgJob : rows[j].status = "running" => pgJobs[j].status = "running"
    OBVIOUS
  <2> HIDE DEF rows
  <2>3. QED
    BY <2>1, <2>2, WritesStartNone
<1>14. CASE PgRaise(t)
  BY <1>0, <1>14, StartsNone DEF PgRaise
<1>15. QED
  BY <1>2, <1>3, <1>4, <1>5, <1>6, <1>7, <1>8, <1>9, <1>10, <1>11, <1>12, <1>13, <1>14 DEF PgStep

\* A Postgres claim computes the held resources before it locks a row.  Where one
\* thread claims, nothing becomes held in between, and no two jobs that need one
\* resource run at once, however connections are shared, fail and come back.
THEOREM PgResourcesExclusive == ASSUME OneClaimer PROVE PgSpec => []PgResourceExclusive
<1>1. PgInit => ClaimInv
  <2>1. PgInit => PgTable
    BY PgTableStarts
  <2>2. PgAbsent.status = "absent" /\ PgIdle.op = "idle"
    BY DEF PgAbsent, PgIdle
  <2>3. QED
    BY <2>1, <2>2 DEF PgInit, ClaimInv, PgResourceExclusive, Covers
<1>2. ClaimInv /\ [PgNext]_pgVars => ClaimInv'
  <2>1. PgTable /\ [PgNext]_pgVars => PgTable'
    BY PgTableStays
  <2>2. ASSUME ClaimInv, NEW c \in Conn, Reconnect(c)
        PROVE  PgResourceExclusive' /\ \A t \in PgThread : Covers(t)'
    BY <2>2 DEF Reconnect, ClaimInv, PgResourceExclusive, Covers, HeldNow, PgIdle
  <2>3. ClaimInv /\ (PgTick \/ UNCHANGED pgVars) => PgResourceExclusive' /\ \A t \in PgThread : Covers(t)'
    BY DEF PgTick, pgVars, ClaimInv, PgResourceExclusive, Covers, HeldNow
  <2>4. QED
    BY <2>1, <2>2, <2>3, PgStepExcludes DEF PgNext, ClaimInv
<1>3. ClaimInv => PgResourceExclusive
  BY DEF ClaimInv
<1>4. QED
  BY <1>1, <1>2, <1>3, PTL DEF PgSpec

-----------------------------------------------------------------------------
(* AgentRegistry, for any agents, threads and timeout. *)

\* The registry is used by one process, whose lock every call holds throughout.
OneHost == \A p, q \in Part : Host[p] = Host[q]

AgentRow == [status : {"none", "online", "offline"}, age : Ages, capability : SUBSET Capability]

RegistryCall == [op : {"none", "register", "beat", "reap"}, rows : SUBSET Agent,
                 capability : SUBSET Capability, age : Ages]

RegistryTyped ==
    /\ agents \in [Agent -> AgentRow]
    /\ within \in [Part -> RegistryCall]

\* One call is in the registry at a time, and what a reap has selected is still silent.
OneCall == \A p, q \in Part : within[p].op # "none" /\ within[q].op # "none" => p = q

SilentSelected == \A p \in Part : within[p].op = "reap" => \A a \in within[p].rows : StaleRow(a)

RegistryInv == RegistryTyped /\ OneCall /\ SilentSelected

\* Who is marked offline has been silent for longer than the timeout as it is marked.
ReapedWereSilent ==
    [][\A a \in Agent : agents[a].status = "online" /\ agents'[a].status = "offline"
                        => agents[a].age > Timeout]_agentVars

LEMMA Aging == \A age \in Ages : Older(age) \in Ages /\ (age > Timeout => Older(age) > Timeout)
  BY AgentConstants DEF Ages, Older

\* A call that begins while nobody else is in the registry.
LEMMA EntersKeeps ==
    ASSUME RegistryInv, OneHost, NEW p \in Part, NEW op \in {"register", "beat", "reap"},
           NEW rows \in SUBSET Agent, NEW given \in SUBSET Capability, Enters(p, op, rows, given),
           op = "reap" => \A a \in rows : StaleRow(a)
    PROVE  RegistryInv'
<1> DEFINE x == [op |-> op, rows |-> rows, capability |-> given, age |-> 0]
<1>1. /\ \A q \in Part : within[q].op = "none"
      /\ within' = [within EXCEPT ![p] = x] /\ UNCHANGED agents
  BY DEF Enters, FreeLock, OneHost, Outwith
<1>2. x \in RegistryCall /\ x.op = op /\ x.rows = rows
  BY AgentConstants DEF RegistryCall, Ages
<1> HIDE DEF x
<1>3. QED
  BY <1>1, <1>2 DEF RegistryInv, RegistryTyped, OneCall, SilentSelected, StaleRow

\* A call that ends: nobody else is in the registry.
LEMMA LeavesKeeps ==
    ASSUME RegistryInv, NEW p \in Part, within[p].op # "none", Leaves(p), agents' \in [Agent -> AgentRow]
    PROVE  RegistryInv'
<1>1. Outwith \in RegistryCall /\ Outwith.op = "none"
  BY AgentConstants DEF Outwith, RegistryCall, Ages
<1>2. \A q \in Part : within'[q].op = "none"
  BY <1>1 DEF Leaves, RegistryInv, RegistryTyped, OneCall
<1>3. within' \in [Part -> RegistryCall]
  BY <1>1 DEF Leaves, RegistryInv, RegistryTyped
<1>4. QED
  BY <1>2, <1>3 DEF RegistryInv, RegistryTyped, OneCall, SilentSelected

LEMMA RegistryStep == ASSUME RegistryInv, OneHost, [AgentNext]_agentVars PROVE RegistryInv'
<1>0. /\ \A a \in Agent : agents[a] \in AgentRow
      /\ \A p \in Part : within[p] \in RegistryCall
  BY DEF RegistryInv, RegistryTyped
<1>1. ASSUME NEW p \in Part, NEW a \in Agent, NEW given \in SUBSET Capability, BeginRegister(p, a, given)
      PROVE  RegistryInv'
  <2> DEFINE kept == IF given = {} THEN agents[a].capability ELSE given
  <2>1. kept \in SUBSET Capability /\ {a} \in SUBSET Agent
    BY <1>0 DEF AgentRow
  <2>2. Enters(p, "register", {a}, kept)
    BY <1>1 DEF BeginRegister
  <2> HIDE DEF kept
  <2>3. QED
    BY <2>1, <2>2, EntersKeeps
<1>2. ASSUME NEW p \in Part, NEW a \in Agent, BeginBeat(p, a) PROVE RegistryInv'
  BY <1>2, EntersKeeps DEF BeginBeat
<1>3. ASSUME NEW p \in Part, BeginReap(p) PROVE RegistryInv'
  <2>1. {a \in Agent : StaleRow(a)} \in SUBSET Agent /\ {} \in SUBSET Capability
    OBVIOUS
  <2>2. Enters(p, "reap", {a \in Agent : StaleRow(a)}, {})
    BY <1>3 DEF BeginReap
  <2>3. QED
    BY <2>1, <2>2, EntersKeeps
<1>4. ASSUME NEW p \in Part, Register(p) PROVE RegistryInv'
  <2>1. PICK a \in within[p].rows :
            agents' = [agents EXCEPT ![a] = [status |-> "online", age |-> within[p].age,
                                             capability |-> within[p].capability]]
    BY <1>4 DEF Register
  <2>2. agents' \in [Agent -> AgentRow]
    BY <1>0, <2>1 DEF RegistryInv, RegistryTyped, AgentRow, RegistryCall
  <2>3. QED
    BY <1>4, <2>2, LeavesKeeps DEF Register
<1>5. ASSUME NEW p \in Part, Beat(p) PROVE RegistryInv'
  <2>1. PICK a \in within[p].rows :
            agents' = [agents EXCEPT ![a].status = "online", ![a].age = within[p].age]
    BY <1>5 DEF Beat
  <2>2. a \in Agent /\ within[p].age \in Ages /\ agents[a] \in AgentRow
    BY <1>0 DEF RegistryCall
  <2> DEFINE row == [agents[a] EXCEPT !.status = "online", !.age = within[p].age]
  <2>3. row \in AgentRow
    BY <2>2 DEF AgentRow
  <2>4. agents' = [agents EXCEPT ![a] = row]
    BY <2>1, <2>2 DEF RegistryInv, RegistryTyped
  <2> HIDE DEF row
  <2>5. agents' \in [Agent -> AgentRow]
    BY <2>2, <2>3, <2>4 DEF RegistryInv, RegistryTyped
  <2>6. QED
    BY <1>5, <2>5, LeavesKeeps DEF Beat
<1>6. ASSUME NEW p \in Part, Reap(p) PROVE RegistryInv'
  <2>1. agents' \in [Agent -> AgentRow]
    BY <1>0, <1>6 DEF Reap, AgentRow
  <2>2. QED
    BY <1>6, <2>1, LeavesKeeps DEF Reap
<1>7. ASSUME NEW p \in Part, Exit(p) PROVE RegistryInv'
  <2>1. Outwith \in RegistryCall /\ Outwith.op = "none"
    BY AgentConstants DEF Outwith, RegistryCall, Ages
  <2>2. QED
    BY <1>7, <2>1 DEF Exit, OneHost, RegistryInv, RegistryTyped, OneCall, SilentSelected
<1>8. ASSUME NEW a \in Agent, Stops(a) \/ Starts(a) PROVE RegistryInv'
  BY <1>8 DEF Stops, Starts, RegistryInv, RegistryTyped, OneCall, SilentSelected, StaleRow
<1>9. CASE Passes
  <2>1. /\ \A a \in Agent : /\ agents'[a] \in AgentRow
                            /\ agents'[a].status = agents[a].status
                            /\ agents'[a].age = Older(agents[a].age)
        /\ agents' = [a \in Agent |-> agents'[a]]
    BY <1>0, <1>9, Aging DEF Passes, AgentRow
  <2>2. /\ \A p \in Part : /\ within'[p] \in RegistryCall
                           /\ within'[p].op = within[p].op
                           /\ within'[p].rows = within[p].rows
        /\ within' = [p \in Part |-> within'[p]]
    <3>1. SUFFICES ASSUME NEW p \in Part
                   PROVE  /\ within'[p] \in RegistryCall
                          /\ within'[p].op = within[p].op
                          /\ within'[p].rows = within[p].rows
      BY <1>9 DEF Passes
    <3>2. within'[p] = IF within[p] = Outwith THEN Outwith ELSE [within[p] EXCEPT !.age = Older(@)]
      BY <1>9 DEF Passes
    <3>3. Older(within[p].age) \in Ages
      BY <1>0, Aging DEF RegistryCall
    <3>4. QED
      BY <1>0, <3>2, <3>3 DEF RegistryCall
  <2>3. RegistryTyped' /\ OneCall'
    BY <2>1, <2>2 DEF RegistryInv, RegistryTyped, OneCall
  <2>4. \A a \in Agent : StaleRow(a) => StaleRow(a)'
    BY <1>0, <2>1, Aging DEF StaleRow, AgentRow
  <2>5. SilentSelected'
    BY <1>0, <2>2, <2>4 DEF RegistryInv, SilentSelected, RegistryCall
  <2>6. QED
    BY <2>3, <2>5 DEF RegistryInv
<1>10. CASE UNCHANGED agentVars
  BY <1>10 DEF agentVars, RegistryInv, RegistryTyped, OneCall, SilentSelected, StaleRow
<1>11. QED
  BY <1>1, <1>2, <1>3, <1>4, <1>5, <1>6, <1>7, <1>8, <1>9, <1>10 DEF AgentNext, Registry

\* Where one process keeps the registry, only an agent that has been silent for
\* longer than the timeout is marked offline, however calls, heartbeats, deaths and
\* restarts interleave, for any agents, threads and timeout.
THEOREM OnlySilentReaped == ASSUME OneHost PROVE AgentSpec => ReapedWereSilent
<1>1. AgentInit => RegistryInv
  <2>1. Unregistered \in AgentRow /\ Outwith \in RegistryCall /\ Outwith.op = "none"
    BY AgentConstants DEF Unregistered, AgentRow, Outwith, RegistryCall, Ages
  <2>2. QED
    BY <2>1 DEF AgentInit, RegistryInv, RegistryTyped, OneCall, SilentSelected
<1>2. RegistryInv /\ [AgentNext]_agentVars => RegistryInv'
  BY RegistryStep
<1>3. RegistryInv /\ [AgentNext]_agentVars
        => [\A a \in Agent : agents[a].status = "online" /\ agents'[a].status = "offline"
                             => agents[a].age > Timeout]_agentVars
  <2>1. SUFFICES ASSUME RegistryInv, AgentNext, NEW a \in Agent,
                        agents[a].status = "online", agents'[a].status = "offline"
                 PROVE  agents[a].age > Timeout
    OBVIOUS
  <2>2. ASSUME NEW p \in Part, Reap(p) PROVE agents[a].age > Timeout
    <3>1. a \in within[p].rows
      BY <2>1, <2>2 DEF Reap
    <3>2. QED
      BY <2>1, <2>2, <3>1 DEF Reap, RegistryInv, SilentSelected, StaleRow
  <2>3. ASSUME NEW p \in Part, Register(p) PROVE FALSE
    BY <2>1, <2>3 DEF Register, RegistryInv, RegistryTyped, AgentRow
  <2>4. ASSUME NEW p \in Part, Beat(p) PROVE FALSE
    <3>1. PICK b \in within[p].rows :
              agents' = [agents EXCEPT ![b].status = "online", ![b].age = within[p].age]
      BY <2>4 DEF Beat
    <3>2. agents'[a].status \in {"online", agents[a].status}
      BY <2>1, <3>1 DEF RegistryInv, RegistryTyped, AgentRow
    <3>3. QED
      BY <2>1, <3>2
  <2>5. Passes => agents'[a].status = agents[a].status
    BY <2>1 DEF Passes, RegistryInv, RegistryTyped, AgentRow
  <2>6. QED
    BY <2>1, <2>2, <2>3, <2>4, <2>5 DEF AgentNext, Registry, BeginRegister, BeginBeat, BeginReap, Enters, Exit, Stops, Starts
<1>4. QED
  BY <1>1, <1>2, <1>3, PTL DEF AgentSpec, ReapedWereSilent
=============================================================================
