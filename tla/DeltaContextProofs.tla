------------------------- MODULE DeltaContextProofs -------------------------
(***************************************************************************)
(* Proofs about DeltaContext, for any tasks, sizes, budgets and limits.    *)
(***************************************************************************)
EXTENDS DeltaContext, TLAPS, WellFoundedInduction, FiniteSetTheorems

-----------------------------------------------------------------------------
(* The newest of finitely many revisions *)

\* A bounded set of revisions has a largest one, which is what Max returns.
LEMMA MaxOfBounded ==
    ASSUME NEW n \in Nat, NEW S \in SUBSET (0..n), S # {}
    PROVE  Max(S) \in S /\ \A i \in S : i <= Max(S)
<1> DEFINE gaps == {n - i : i \in S}
<1>1. gaps \subseteq Nat /\ gaps # {}
  <2>1. PICK i \in S : TRUE
    OBVIOUS
  <2>2. n - i \in gaps
    OBVIOUS
  <2>3. \A j \in S : n - j \in Nat
    OBVIOUS
  <2> QED BY <2>2, <2>3
<1>2. PICK g \in gaps : \A h \in gaps : ~(<<h, g>> \in OpToRel(<, Nat))
  BY <1>1, WFMin, NatLessThanWellFounded
<1>3. PICK m \in S : g = n - m
  OBVIOUS
<1>4. \A i \in S : i <= m
  <2> SUFFICES ASSUME NEW i \in S, ~(i <= m) PROVE FALSE
    OBVIOUS
  <2>1. n - i \in gaps /\ n - i \in Nat /\ g \in Nat /\ n - i < g
    BY <1>3
  <2>2. <<n - i, g>> \in OpToRel(<, Nat)
    BY <2>1 DEF OpToRel
  <2> QED BY <1>2, <2>1, <2>2
<1>5. \A i \in S : m >= i
  BY <1>4
<1> QED BY <1>5 DEF Max

-----------------------------------------------------------------------------
(* What an append leaves of the ledger *)

Entry == [task: Task, state: State]

LedgerType == ledger \in Seq(Entry) /\ Len(ledger) <= MaxRevision

Appended(t, s) == ledger' = Append(ledger, [task |-> t, state |-> s])

\* Revisions up to one that exists are never rewritten.
LEMMA PastIsKept ==
    ASSUME LedgerType, NEW t \in Task, NEW s \in State, Appended(t, s),
           NEW n \in 0..Len(ledger), NEW u
    PROVE  /\ Visible(n)' = Visible(n)
           /\ StateAt(u, n)' = StateAt(u, n)
<1>1. /\ Len(ledger) \in Nat
      /\ Len(ledger') = Len(ledger) + 1
      /\ \A i \in 1..Len(ledger) : ledger'[i] = ledger[i]
  BY DEF LedgerType, Appended, Entry
<1>2. Visible(n)' = Visible(n)
  BY <1>1 DEF Visible
<1>3. \A i \in Visible(n) : ledger'[i] = ledger[i]
  BY <1>1 DEF Visible
<1>4. Revisions(u, n)' = Revisions(u, n)
  BY <1>2, <1>3 DEF Revisions
<1>5. Revisions(u, n) # {} =>
         Max(Revisions(u, n)) \in Revisions(u, n)
  <2> SUFFICES ASSUME Revisions(u, n) # {}
               PROVE  Max(Revisions(u, n)) \in Revisions(u, n)
    OBVIOUS
  <2>1. Revisions(u, n) \in SUBSET (0..Len(ledger))
    BY <1>1 DEF Revisions, Visible
  <2> QED BY <1>1, <2>1, MaxOfBounded
<1>6. Revisions(u, n) \subseteq Visible(n)
  BY DEF Revisions
<1> QED BY <1>2, <1>3, <1>4, <1>5, <1>6 DEF StateAt

\* The head is the newest visible revision, or 0.
HeadIsNewest ==
    /\ HeadRevision \in 0..Len(ledger)
    /\ HeadRevision \in {0} \cup Visible(Len(ledger))
    /\ \A i \in Visible(Len(ledger)) : i <= HeadRevision

LEMMA HeadBounds == LedgerType => HeadIsNewest
<1> SUFFICES ASSUME LedgerType PROVE HeadIsNewest
  OBVIOUS
<1>1. Len(ledger) \in Nat
  BY DEF LedgerType
<1>2. {0} \cup Visible(Len(ledger)) \in SUBSET (0..Len(ledger))
  BY <1>1 DEF Visible
<1> QED BY <1>1, <1>2, MaxOfBounded DEF HeadRevision, HeadIsNewest

LEMMA HeadBoundsNext == LedgerType' => HeadIsNewest'
BY HeadBounds, PTL

LEMMA HeadAdvances ==
    ASSUME LedgerType, LedgerType', NEW t \in Task, NEW s \in State, Appended(t, s)
    PROVE  HeadRevision <= HeadRevision'
<1>1. /\ Len(ledger) \in Nat
      /\ Len(ledger') = Len(ledger) + 1
      /\ \A i \in 1..Len(ledger) : ledger'[i] = ledger[i]
  BY DEF LedgerType, Appended, Entry
<1>2. Visible(Len(ledger)) \subseteq Visible(Len(ledger))'
  BY <1>1 DEF Visible
<1>3. HeadIsNewest /\ HeadIsNewest'
  BY HeadBounds, HeadBoundsNext
<1> QED BY <1>1, <1>2, <1>3 DEF HeadIsNewest

-----------------------------------------------------------------------------
(* What a page contains *)

Unseen(from) == {i \in Visible(Len(ledger)) : i > from}

\* The limited query returns nothing only if there is nothing to return.
LEMMA LimitKeepsOldest ==
    ASSUME LedgerType, NEW from \in Nat, Unseen(from) # {}
    PROVE  Events(from) # {}
<1>1. Len(ledger) \in Nat /\ Unseen(from) \subseteq Nat
  BY DEF LedgerType, Unseen, Visible
<1>2. PICK i \in Unseen(from) :
         \A k \in Unseen(from) : ~(<<k, i>> \in OpToRel(<, Nat))
  BY <1>1, WFMin, NatLessThanWellFounded
<1>3. \A k \in Unseen(from) : i <= k
  <2> SUFFICES ASSUME NEW k \in Unseen(from), ~(i <= k) PROVE FALSE
    OBVIOUS
  <2>1. i \in Nat /\ k \in Nat /\ k < i
    BY <1>1
  <2>2. <<k, i>> \in OpToRel(<, Nat)
    BY <2>1 DEF OpToRel
  <2> QED BY <1>2, <2>2
<1>4. {k \in Unseen(from) : k <= i} = {i}
  <2>1. ASSUME NEW k \in Unseen(from), k <= i PROVE k = i
    <3>1. i \in Nat /\ k \in Nat /\ i <= k
      BY <1>1, <1>3
    <3> QED BY <2>1, <3>1
  <2>2. i \in Unseen(from) /\ i <= i
    BY <1>1
  <2> QED BY <2>1, <2>2
<1>5. Cardinality({k \in Unseen(from) : k <= i}) <= ScanLimit
  <2>1. Cardinality({i}) = 1
    BY FS_Singleton
  <2>2. 1 <= ScanLimit
    BY DeltaConstants DEF DeltaConstants
  <2> QED BY <1>4, <2>1, <2>2
<1> QED BY <1>5 DEF Events, Unseen

\* Everything before a row of the limited query is in it.
LEMMA LimitIsPrefix ==
    ASSUME LedgerType, NEW from \in Nat, NEW to \in Events(from),
           NEW i \in Unseen(from), i <= to
    PROVE  i \in Events(from)
<1> DEFINE below(n) == {k \in Unseen(from) : k <= n}
<1>1. Len(ledger) \in Nat /\ Unseen(from) \subseteq 0..Len(ledger)
  BY DEF LedgerType, Unseen, Visible
<1>2. to \in Unseen(from) /\ Cardinality(below(to)) <= ScanLimit
  BY DEF Events, Unseen
<1>3. below(i) \subseteq below(to)
  BY <1>1, <1>2
<1>4. IsFiniteSet(below(to))
  <2>1. IsFiniteSet(0..Len(ledger))
    BY <1>1, FS_Interval
  <2> QED BY <1>1, <2>1, FS_Subset
<1>5. /\ Cardinality(below(i)) <= Cardinality(below(to))
      /\ Cardinality(below(i)) \in Nat /\ Cardinality(below(to)) \in Nat
  <2>1. IsFiniteSet(below(i)) /\ Cardinality(below(i)) <= Cardinality(below(to))
    BY <1>3, <1>4, FS_Subset
  <2> QED BY <2>1, <1>4, FS_CardinalityType
<1>6. Cardinality(below(i)) <= ScanLimit
  BY <1>2, <1>5, DeltaConstants DEF DeltaConstants
<1> QED BY <1>6 DEF Events, Unseen

\* A task without an accepted event did not change between "from" and "to".
LEMMA UnchangedBetween ==
    ASSUME LedgerType, NEW from \in Nat, NEW to \in Nat, from <= to,
           NEW t, \A i \in Unseen(from) : i <= to => i \in Events(from),
           to <= Len(ledger), t \notin ChangedIn(from, to)
    PROVE  StateAt(t, to) = StateAt(t, from)
<1>1. Len(ledger) \in Nat
  BY DEF LedgerType
<1>2. ASSUME NEW i \in Visible(to), ledger[i].task = t, i > from PROVE FALSE
  <2>1. i \in Unseen(from) /\ i <= to
    BY <1>1, <1>2 DEF Unseen, Visible
  <2> QED BY <1>2, <2>1 DEF ChangedIn
<1>3. Revisions(t, to) = Revisions(t, from)
  BY <1>1, <1>2 DEF Revisions, Visible
<1> QED BY <1>3 DEF StateAt

\* The bounds of a page: where it starts and the revision it returns.
From == IF cursor > HeadRevision THEN 0 ELSE cursor
To == IF Events(From) = {} THEN HeadRevision ELSE LastAccepted(From)

CursorType == cursor \in (0..HeadRevision) \cup {ForeignCursor}

LEMMA PageBounds ==
    ASSUME LedgerType, CursorType
    PROVE  /\ HeadRevision \in 0..Len(ledger)
           /\ From \in 0..HeadRevision
           /\ cursor > HeadRevision <=> cursor = ForeignCursor
           /\ To \in From..HeadRevision
           /\ \A i \in Unseen(From) : i <= To => i \in Events(From)
<1>1. Len(ledger) \in Nat /\ Len(ledger) <= MaxRevision /\ MaxRevision \in Nat
  BY DeltaConstants DEF LedgerType, DeltaConstants
<1>2. /\ HeadRevision \in 0..Len(ledger)
      /\ \A i \in Visible(Len(ledger)) : i <= HeadRevision
  BY HeadBounds DEF HeadIsNewest
<1>3. From \in 0..HeadRevision /\ (cursor > HeadRevision <=> cursor = ForeignCursor)
  BY <1>1, <1>2 DEF From, CursorType, ForeignCursor
<1>4. Unseen(From) \subseteq Visible(Len(ledger)) /\ Events(From) \subseteq Unseen(From)
  BY DEF Unseen, Events
<1>5. CASE Events(From) = {}
  <2>1. Unseen(From) = {}
    BY <1>2, <1>3, <1>5, LimitKeepsOldest
  <2> QED BY <1>2, <1>3, <1>5, <2>1 DEF To
<1>6. CASE Events(From) # {}
  <2> DEFINE accepted == {i \in Events(From) :
                            \A k \in Events(From) : k <= i => Fits(From, k)}
  <2>1. {From} \cup accepted \in SUBSET (0..Len(ledger))
    BY <1>1, <1>2, <1>3, <1>4 DEF Visible
  <2>2. To \in {From} \cup accepted
    <3>1. To = Max({From} \cup accepted)
      BY <1>6 DEF To, LastAccepted
    <3> HIDE DEF accepted
    <3> QED BY <1>1, <2>1, <3>1, MaxOfBounded
  <2>3. To \in {From} \cup Events(From)
    BY <2>2
  <2>4. To \in From..HeadRevision
    BY <1>2, <1>3, <1>4, <2>3 DEF Unseen, Visible
  <2>5. ASSUME NEW i \in Unseen(From), i <= To PROVE i \in Events(From)
    <3>1. To \in Events(From)
      BY <1>2, <1>3, <2>3, <2>5 DEF Unseen, Visible
    <3> QED BY <1>2, <1>3, <2>5, <3>1, LimitIsPrefix
  <2> QED BY <1>2, <1>3, <2>4, <2>5
<1> QED BY <1>5, <1>6

-----------------------------------------------------------------------------
(* The inductive invariant *)

\* What the page on its way says about the ledger, relative to the cursor the
\* reader still has: its changes are the ledger's states at its revision, and
\* every task it leaves out did not change since the cursor.
PageSound ==
    page # NoPage =>
      /\ page.revision \in 0..HeadRevision
      /\ page.reset <=> cursor = ForeignCursor
      /\ \A t \in Mine : StateAt(t, page.revision) =
            IF t \in DOMAIN page.changes THEN page.changes[t]
            ELSE IF page.reset THEN "absent" ELSE StateAt(t, cursor)

\* Without the silent repair the newest revision of a task is its state.
TableCurrent == \A t \in Mine : jobs[t] = StateAt(t, Len(ledger))

DeltaInv ==
    /\ jobs \in [Task -> State]
    /\ LedgerType
    /\ CursorType
    /\ FollowsLedger
    /\ PageSound
    /\ cursor = ForeignCursor => stateHash = Hash(copy)

\* What holds besides if every change writes an event.
Current == TableCurrent /\ UnchangedIsCurrent

LEMMA InitEstablishes == Init => DeltaInv /\ Current
<1> SUFFICES ASSUME Init PROVE DeltaInv /\ Current
  OBVIOUS
<1>1. Len(ledger) = 0 /\ Visible(0) = {} /\ LedgerType
  BY DeltaConstants DEF Init, Visible, LedgerType, DeltaConstants
<1>2. HeadRevision = 0
  BY <1>1, HeadBounds DEF HeadIsNewest
<1>3. \A t : StateAt(t, 0) = "absent"
  BY <1>1 DEF StateAt, Revisions
<1>4. jobs \in [Task -> State]
  BY DEF Init, State, Status
<1>5. CursorType /\ FollowsLedger
  BY <1>2, <1>3 DEF Init, CursorType, FollowsLedger, ForeignCursor
<1>6. TableCurrent
  BY <1>1, <1>3, DeltaConstants DEF Init, TableCurrent, DeltaConstants
<1>7. cursor = ForeignCursor => stateHash = Hash(copy)
  BY DeltaConstants DEF Init, ForeignCursor, DeltaConstants
<1> QED BY <1>1, <1>4, <1>5, <1>6, <1>7
        DEF Init, DeltaInv, PageSound, Current, UnchangedIsCurrent

\* A writer's event: old revisions stay, the new one is the task's state.
LEMMA RecordKeeps ==
    ASSUME DeltaInv, NEW t \in Task, NEW s \in State, Record(t, s)
    PROVE  DeltaInv' /\ (Current => Current')
<1>0. PICK n \in Nat : n = Len(ledger)
  BY DEF DeltaInv, LedgerType
<1>1. /\ n < MaxRevision /\ MaxRevision \in Nat
      /\ LedgerType /\ Appended(t, s)
      /\ UNCHANGED <<cursor, copy, stateHash, page>>
  BY <1>0, DeltaConstants DEF DeltaInv, LedgerType, Record, Appended, DeltaConstants
<1>2. /\ LedgerType' /\ Len(ledger') = n + 1
      /\ ledger'[n + 1] = [task |-> t, state |-> s]
      /\ \A i \in 1..n : ledger'[i] = ledger[i]
  <2>1. [task |-> t, state |-> s] \in Entry
    BY DEF Entry
  <2> QED BY <1>0, <1>1, <2>1 DEF LedgerType, Appended
<1>3. HeadRevision \in 0..n /\ HeadRevision' \in 0..(n + 1) /\ HeadRevision <= HeadRevision'
  BY <1>0, <1>1, <1>2, HeadBounds, HeadBoundsNext, HeadAdvances DEF HeadIsNewest
<1>4. \A k \in 0..n, u \in Mine : StateAt(u, k)' = StateAt(u, k)
  BY <1>0, <1>1, PastIsKept
<1>5. jobs' \in [Task -> State]
  BY DEF DeltaInv, Record
<1>6. CursorType'
  BY <1>0, <1>1, <1>3 DEF DeltaInv, CursorType, ForeignCursor
<1>7. cursor # ForeignCursor => cursor \in 0..n
  BY <1>0, <1>3 DEF DeltaInv, CursorType
<1>8. FollowsLedger'
  BY <1>0, <1>1, <1>4, <1>7 DEF DeltaInv, FollowsLedger, ForeignCursor
<1>9. PageSound'
  <2> SUFFICES ASSUME page' # NoPage
               PROVE  PageSound!2'
    BY DEF PageSound
  <2>1. page' = page /\ cursor' = cursor /\ page # NoPage
    BY <1>0, <1>1
  <2>2. page.revision \in 0..HeadRevision /\ page.revision \in 0..n
    BY <1>3, <2>1 DEF DeltaInv, PageSound
  <2>3. page.reset <=> cursor = ForeignCursor
    BY <2>1 DEF DeltaInv, PageSound
  <2>4. \A u \in Mine : /\ StateAt(u, page.revision)' = StateAt(u, page.revision)
                        /\ ~page.reset => StateAt(u, cursor)' = StateAt(u, cursor)
    BY <1>4, <1>7, <2>1, <2>2, <2>3
  <2> QED BY <1>3, <2>1, <2>2, <2>3, <2>4 DEF DeltaInv, PageSound, ForeignCursor
<1>10. Hash(copy)' = Hash(copy)
  BY <1>0, <1>1 DEF Hash
<1>11. TableCurrent => TableCurrent'
  <2> SUFFICES ASSUME TableCurrent, NEW u \in Mine
               PROVE  jobs'[u] = StateAt(u, n + 1)'
    BY <1>0, <1>2 DEF TableCurrent
  <2>1. CASE u = t
    <3>1. n + 1 \in Revisions(u, n + 1)' /\ Revisions(u, n + 1)' \in SUBSET (0..(n + 1))
      BY <1>0, <1>1, <1>2, <2>1 DEF Revisions, Visible
    <3>2. /\ Max(Revisions(u, n + 1)') \in Revisions(u, n + 1)'
          /\ n + 1 <= Max(Revisions(u, n + 1)')
      BY <1>0, <1>1, <3>1, MaxOfBounded
    <3>3. Max(Revisions(u, n + 1)') = n + 1
      BY <1>0, <1>1, <3>1, <3>2
    <3>4. jobs'[u] = s
      BY <2>1 DEF DeltaInv, Record
    <3> QED BY <1>0, <1>2, <3>1, <3>3, <3>4 DEF StateAt
  <2>2. CASE u # t
    <3>1. Revisions(u, n + 1)' = Revisions(u, n)'
      BY <1>0, <1>1, <1>2, <2>2 DEF Revisions, Visible
    <3>2. StateAt(u, n + 1)' = StateAt(u, n)
      BY <1>0, <1>1, <1>4, <3>1 DEF StateAt
    <3>3. jobs'[u] = jobs[u]
      BY <2>2, DeltaConstants DEF DeltaInv, Record, DeltaConstants
    <3> QED BY <1>0, <3>2, <3>3 DEF TableCurrent
  <2> QED BY <2>1, <2>2
<1>12. UnchangedIsCurrent => UnchangedIsCurrent'
  BY <1>0, <1>1, <1>10 DEF UnchangedIsCurrent
<1> QED BY <1>0, <1>1, <1>2, <1>5, <1>6, <1>8, <1>9, <1>10, <1>11, <1>12
        DEF DeltaInv, Current, ForeignCursor

LEMMA RepairKeeps ==
    ASSUME DeltaInv, RecoverNullRetries
    PROVE  DeltaInv'
<1>1. /\ UNCHANGED <<ledger, cursor, copy, stateHash, page>>
      /\ jobs' \in [Task -> State]
  BY DEF RecoverNullRetries, DeltaInv, State, Status
<1>2. /\ \A n : Visible(n)' = Visible(n)
      /\ \A t, n : Revisions(t, n)' = Revisions(t, n)
      /\ HeadRevision' = HeadRevision
      /\ \A t, n : StateAt(t, n)' = StateAt(t, n)
      /\ Hash(copy)' = Hash(copy)
  BY <1>1 DEF Visible, Revisions, HeadRevision, StateAt, Hash
<1> QED BY <1>1, <1>2
        DEF DeltaInv, LedgerType, CursorType, FollowsLedger, PageSound, ForeignCursor

\* A page tells a reader of this database what happened since its cursor.
LEMMA CallKeeps ==
    ASSUME DeltaInv, Call
    PROVE  DeltaInv' /\ (Current => Current')
<1>1. /\ UNCHANGED <<jobs, ledger, cursor, copy, stateHash>>
      /\ page' = Page
  BY DEF Call
<1>2. /\ \A n : Visible(n)' = Visible(n)
      /\ \A t, n : Revisions(t, n)' = Revisions(t, n)
      /\ HeadRevision' = HeadRevision
      /\ \A t, n : StateAt(t, n)' = StateAt(t, n)
      /\ Hash(copy)' = Hash(copy) /\ Hash(jobs)' = Hash(jobs)
  BY <1>1 DEF Visible, Revisions, HeadRevision, StateAt, Hash
<1>3. /\ page'.revision = To
      /\ page'.reset <=> cursor > HeadRevision
      /\ page'.changes = [t \in ChangedIn(From, To) |-> StateAt(t, To)]
      /\ page'.hash = Hash(jobs)
      /\ page'.unchanged = (To >= HeadRevision /\ ChangedIn(From, To) = {}
                              /\ stateHash = Hash(jobs))
  BY <1>1 DEF Page, From, To
<1>4. LedgerType /\ CursorType /\ Len(ledger) \in Nat
  BY DEF DeltaInv, LedgerType
<1>5. /\ HeadRevision \in 0..Len(ledger)
      /\ From \in 0..HeadRevision
      /\ cursor > HeadRevision <=> cursor = ForeignCursor
      /\ To \in From..HeadRevision
      /\ \A i \in Unseen(From) : i <= To => i \in Events(From)
  BY <1>4, PageBounds
<1>6. \A t \in Mine : t \notin ChangedIn(From, To) => StateAt(t, To) = StateAt(t, From)
  BY <1>4, <1>5, UnchangedBetween
<1>7. \A t : StateAt(t, 0) = "absent"
  BY DEF StateAt, Revisions, Visible
<1>8. PageSound'
  <2>1. ASSUME NEW t \in Mine
        PROVE  StateAt(t, To) = IF t \in ChangedIn(From, To) THEN StateAt(t, To)
                                ELSE IF cursor > HeadRevision THEN "absent"
                                ELSE StateAt(t, cursor)
    BY <1>6, <1>7 DEF From
  <2>2. ASSUME NEW t \in Mine
        PROVE  /\ StateAt(t, page.revision)' = StateAt(t, To)
               /\ StateAt(t, cursor)' = StateAt(t, cursor)
    BY <1>1, <1>3 DEF StateAt, Revisions, Visible
  <2>3. DOMAIN page'.changes = ChangedIn(From, To)
    BY <1>3
  <2>4. ASSUME NEW t \in Mine
        PROVE  StateAt(t, page.revision)' =
                 IF t \in DOMAIN page'.changes THEN page'.changes[t]
                 ELSE IF page'.reset THEN "absent" ELSE StateAt(t, cursor)'
    BY <1>3, <2>1, <2>2, <2>3
  <2>5. page'.reset <=> cursor' = ForeignCursor'
    BY <1>1, <1>3, <1>5 DEF ForeignCursor
  <2>6. page'.revision \in 0..HeadRevision'
    BY <1>2, <1>3, <1>5
  <2> QED BY <2>4, <2>5, <2>6 DEF PageSound
<1>9. ASSUME TableCurrent PROVE UnchangedIsCurrent'
  <2> SUFFICES ASSUME To >= HeadRevision, ChangedIn(From, To) = {},
                      stateHash = Hash(jobs)
               PROVE  Hash(copy) = Hash(jobs)
    BY <1>1, <1>2, <1>3 DEF UnchangedIsCurrent
  <2>1. CASE cursor = ForeignCursor
    BY <2>1 DEF DeltaInv
  <2>2. CASE cursor # ForeignCursor
    <3>1. To = HeadRevision /\ From = cursor
      BY <1>5, <2>2 DEF From
    <3>2. ASSUME NEW t \in Mine PROVE copy[t] = jobs[t]
      <4>1. Revisions(t, Len(ledger)) = Revisions(t, HeadRevision)
        BY <1>4, <1>5, HeadBounds DEF Revisions, Visible, HeadIsNewest
      <4>2. StateAt(t, Len(ledger)) = StateAt(t, HeadRevision)
        BY <4>1 DEF StateAt
      <4>3. copy[t] = StateAt(t, cursor)
        BY <2>2 DEF DeltaInv, FollowsLedger
      <4> QED BY <1>6, <1>9, <3>1, <4>2, <4>3 DEF TableCurrent
    <3> QED BY <3>2 DEF Hash
  <2> QED BY <2>1, <2>2
<1> QED BY <1>1, <1>2, <1>8, <1>9
        DEF DeltaInv, Current, LedgerType, CursorType, FollowsLedger, TableCurrent, ForeignCursor

LEMMA ReceiveKeeps ==
    ASSUME DeltaInv, Receive
    PROVE  DeltaInv' /\ (Current => Current')
<1>1. /\ UNCHANGED <<jobs, ledger>>
      /\ page # NoPage /\ page' = NoPage
      /\ cursor' = page.revision
      /\ \A t \in Mine : copy'[t] = IF t \in DOMAIN page.changes THEN page.changes[t]
                                    ELSE IF page.reset THEN "absent" ELSE copy[t]
  BY DEF Receive
<1>2. /\ \A n : Visible(n)' = Visible(n)
      /\ \A t, n : Revisions(t, n)' = Revisions(t, n)
      /\ HeadRevision' = HeadRevision
      /\ \A t, n : StateAt(t, n)' = StateAt(t, n)
  BY <1>1 DEF Visible, Revisions, HeadRevision, StateAt
<1>3. page.revision \in 0..HeadRevision /\ page.revision # ForeignCursor
  <2>1. HeadRevision \in 0..Len(ledger) /\ Len(ledger) \in Nat /\ MaxRevision \in Nat
        /\ Len(ledger) <= MaxRevision
    BY HeadBounds, DeltaConstants DEF DeltaInv, LedgerType, HeadIsNewest, DeltaConstants
  <2> QED BY <1>1, <2>1 DEF DeltaInv, PageSound, ForeignCursor
<1>4. \A t \in Mine : copy'[t] = StateAt(t, page.revision)
  BY <1>1 DEF DeltaInv, PageSound, FollowsLedger
<1>5. CursorType' /\ FollowsLedger' /\ cursor' # ForeignCursor'
  BY <1>1, <1>2, <1>3, <1>4 DEF CursorType, FollowsLedger, ForeignCursor
<1> QED BY <1>1, <1>2, <1>5
        DEF DeltaInv, Current, LedgerType, PageSound, TableCurrent, UnchangedIsCurrent

LEMMA LoseKeeps ==
    ASSUME DeltaInv, Lose \/ UNCHANGED vars
    PROVE  DeltaInv' /\ (Current => Current')
<1>1. /\ UNCHANGED <<jobs, ledger, cursor, copy, stateHash>>
      /\ page' \in {NoPage, page}
  BY DEF Lose, vars
<1>2. /\ \A n : Visible(n)' = Visible(n)
      /\ \A t, n : Revisions(t, n)' = Revisions(t, n)
      /\ HeadRevision' = HeadRevision
      /\ \A t, n : StateAt(t, n)' = StateAt(t, n)
      /\ Hash(copy)' = Hash(copy)
  BY <1>1 DEF Visible, Revisions, HeadRevision, StateAt, Hash
<1> QED BY <1>1, <1>2
        DEF DeltaInv, Current, LedgerType, CursorType, FollowsLedger, PageSound, TableCurrent,
            UnchangedIsCurrent, ForeignCursor

\* The calls of QueueService and of the reader keep both.
LEMMA LoggedKeeps ==
    ASSUME DeltaInv, [LoggedNext]_vars
    PROVE  DeltaInv' /\ (Current => Current')
<1>1. ASSUME NEW t \in Task, Create(t) PROVE DeltaInv' /\ (Current => Current')
  BY <1>1, RecordKeeps DEF Create, State, Status
<1>2. ASSUME NEW t \in Task, Delete(t) PROVE DeltaInv' /\ (Current => Current')
  BY <1>2, RecordKeeps DEF Delete, State
<1>3. ASSUME NEW t \in Task, NEW s \in State, Change(t, s)
      PROVE  DeltaInv' /\ (Current => Current')
  BY <1>3, RecordKeeps DEF Change
<1> QED BY <1>1, <1>2, <1>3, CallKeeps, ReceiveKeeps, LoseKeeps
        DEF LoggedNext, LoggedWrite

LEMMA NextKeeps == DeltaInv /\ [Next]_vars => DeltaInv'
<1> QED BY LoggedKeeps, RepairKeeps DEF Next

LEMMA DeltaInvariant == Spec => []DeltaInv
<1> QED BY InitEstablishes, NextKeeps, PTL DEF Spec

-----------------------------------------------------------------------------
(* Theorems *)

\* Whatever the sizes, budgets and limits, however many answers are lost and
\* whatever is written between and during the calls, the reader's copy is what
\* the ledger says at its cursor.
THEOREM CopyFollowsLedger == Spec => []FollowsLedger
BY DeltaInvariant, PTL DEF DeltaInv

\* A reader that got its cursor from this database is never told to reset.
THEOREM NoSpuriousReset == Spec => []NeverReset
<1>1. DeltaInv => NeverReset
  BY DEF DeltaInv, PageSound, NeverReset
<1> QED BY <1>1, DeltaInvariant, PTL

\* If every change of a task writes an event, an "unchanged" page reaches only
\* readers whose incomplete tasks are the table's.
THEOREM UnchangedIsTrue == LoggedSpec => []UnchangedIsCurrent
<1>1. DeltaInv /\ Current /\ [LoggedNext]_vars => (DeltaInv /\ Current)'
  BY LoggedKeeps
<1>2. Current => UnchangedIsCurrent
  BY DEF Current
<1> QED BY <1>1, <1>2, InitEstablishes, PTL DEF LoggedSpec
=============================================================================
