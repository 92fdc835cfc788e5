---------------------------- MODULE BoundaryProofs ---------------------------
(***************************************************************************)
(* Proofs about what surrounds the queue and the memory: the tools that    *)
(* make several calls, records in an external adapter, imported sessions,  *)
(* retrieval, the evidence contract, the door of the memory commands, and  *)
(* the host configuration.                                                 *)
(***************************************************************************)
EXTENDS TaskTools, ExternalMemory, SessionMemory, Retrieval, MemoryCommands, HostSetup,
        EvidenceContract, SequenceTheorems, FiniteSetTheorems, WellFoundedInduction, TLAPS

-----------------------------------------------------------------------------
(* TaskTools, for any tasks, clients and batches. *)

\* A set of naturals has a least member: induction over the naturals, for sets.
LEMMA LeastNumber == ASSUME NEW B \in SUBSET Nat, B # {} PROVE \E n \in B : \A m \in B : n <= m
<1> DEFINE Below == {1..n : n \in B}
<1>1. Below # {} /\ Below \subseteq FiniteSubsetsOf(Nat)
  <2>1. ASSUME NEW n \in B PROVE 1..n \in FiniteSubsetsOf(Nat)
    <3>1. n \in Int /\ 1 \in Int
      OBVIOUS
    <3>2. IsFiniteSet(1..n)
      BY <3>1, FS_Interval
    <3>3. 1..n \in SUBSET Nat
      OBVIOUS
    <3>4. QED
      BY <3>2, <3>3 DEF FiniteSubsetsOf
  <2>2. QED
    BY <2>1
<1>2. IsWellFoundedOn(StrictSubsetOrdering(Nat), FiniteSubsetsOf(Nat))
  BY FS_StrictSubsetOrderingWellFounded
<1>3. PICK x \in Below : \A y \in Below : <<y, x>> \notin StrictSubsetOrdering(Nat)
  BY <1>1, <1>2, WFMin
<1>4. PICK n \in B : x = 1..n
  OBVIOUS
<1>5. ASSUME NEW m \in B, m < n PROVE FALSE
  <2>1. 1..m \in Below /\ 1..m \subseteq 1..n /\ n \in 1..n /\ n \notin 1..m
    BY <1>5
  <2>2. <<1..m, 1..n>> \in StrictSubsetOrdering(Nat)
    BY <2>1 DEF StrictSubsetOrdering
  <2>3. QED
    BY <1>3, <1>4, <2>1, <2>2
<1>6. QED
  BY <1>5

\* And a set of naturals that has a bound has a greatest.
LEMMA GreatestNumber ==
    ASSUME NEW n \in Nat, NEW B \in SUBSET (0..n), B # {} PROVE \E m \in B : \A k \in B : k <= m
<1> DEFINE C == {n - k : k \in B}
<1>0. \A k \in B : k \in 0..n /\ n - k \in Nat
  <2>1. \A k \in B : k \in 0..n
    OBVIOUS
  <2>2. QED
    BY <2>1
<1>1. C \in SUBSET Nat /\ C # {}
  BY <1>0
<1>2. PICK c \in C : \A d \in C : c <= d
  BY <1>1, LeastNumber
<1>3. PICK m \in B : c = n - m
  OBVIOUS
<1>4. ASSUME NEW k \in B PROVE k <= m
  <2>1. n - m <= n - k
    BY <1>2, <1>3
  <2>2. QED
    BY <1>0, <2>1
<1>5. QED
  BY <1>4

\* A set of positions is finite.
LEMMA FinitePositions ==
    ASSUME NEW n \in Nat, NEW at \in SUBSET (1..n)
    PROVE  IsFiniteSet(at) /\ Cardinality(at) \in Nat
<1>1. IsFiniteSet(1..n)
  <2>1. 1 \in Int /\ n \in Int
    OBVIOUS
  <2>2. QED
    BY <2>1, FS_Interval
<1>2. QED
  BY <1>1, FS_Subset, FS_CardinalityType

\* Of the members of a finite set of positions, one is the k-th.
LEMMA KthPosition ==
    ASSUME NEW n \in Nat, NEW at \in SUBSET (1..n), NEW k \in 1..Cardinality(at)
    PROVE  \E i \in at : Cardinality({m \in at : m <= i}) = k
<1> DEFINE Upto(i) == {m \in at : m <= i}
           B == {i \in Nat : Cardinality(Upto(i)) >= k}
<1>0. at \subseteq 1..n /\ \A m \in at : m \in Int /\ 1 <= m /\ m <= n
  <2>1. \A m \in at : m \in 1..n
    OBVIOUS
  <2>2. QED
    BY <2>1
<1>1. IsFiniteSet(at) /\ Cardinality(at) \in Nat
  BY <1>0, FinitePositions
<1>2. ASSUME NEW i \in Nat PROVE IsFiniteSet(Upto(i)) /\ Cardinality(Upto(i)) \in Nat
  <2>1. Upto(i) \in SUBSET at
    OBVIOUS
  <2>2. QED
    BY <1>1, <2>1, FS_Subset, FS_CardinalityType
<1>3. n \in B
  <2>1. Upto(n) = at
    BY <1>0
  <2> HIDE DEF Upto
  <2>2. QED
    BY <1>1, <2>1
<1>4. PICK i \in B : \A j \in B : i <= j
  <2> HIDE DEF Upto
  <2>1. B \in SUBSET Nat /\ B # {}
    BY <1>3
  <2> HIDE DEF B
  <2>2. QED
    BY <2>1, LeastNumber
<1>5. i # 0
  <2>0. \A m \in at : ~(m <= 0)
    BY <1>0
  <2>1. Upto(0) = {}
    BY <2>0
  <2> HIDE DEF Upto
  <2>2. Cardinality(Upto(0)) = 0
    BY <2>1, FS_EmptySet
  <2>3. QED
    BY <2>2
<1>6. i - 1 \in Nat /\ Cardinality(Upto(i - 1)) < k
  <2> HIDE DEF Upto
  <2>1. i - 1 \in Nat /\ i - 1 \notin B /\ Cardinality(Upto(i - 1)) \in Nat
    BY <1>2, <1>4, <1>5
  <2>2. QED
    BY <1>1, <2>1
<1>7. CASE i \in at
  <2>0. \A m \in at : m <= i <=> m <= i - 1 \/ m = i
    BY <1>0, <1>6
  <2>1. Upto(i) = Upto(i - 1) \cup {i} /\ i \notin Upto(i - 1)
    <3>1. ~(i <= i - 1)
      BY <1>6
    <3>2. i \notin Upto(i - 1)
      BY <3>1
    <3>3. \A m : m \in Upto(i) <=> m \in Upto(i - 1) \/ m = i
      BY <1>7, <2>0
    <3> HIDE DEF Upto
    <3>4. QED
      BY <3>2, <3>3
  <2> HIDE DEF Upto
  <2>2. Cardinality(Upto(i)) = Cardinality(Upto(i - 1)) + 1
    BY <1>2, <1>6, <2>1, FS_AddElement
  <2>3. Cardinality(Upto(i)) = k
    BY <1>2, <1>4, <1>6, <2>2
  <2>4. QED
    BY <1>7, <2>3 DEF Upto
<1>8. CASE i \notin at
  <2>0. \A m \in at : m # i /\ (m <= i <=> m <= i - 1)
    BY <1>0, <1>6, <1>8
  <2>1. Upto(i) = Upto(i - 1)
    BY <2>0
  <2> HIDE DEF Upto
  <2>2. QED
    BY <1>2, <1>4, <1>6, <2>1
<1>9. QED
  BY <1>7, <1>8

\* Only keeps rows, and only those that are in s.
LEMMA OnlyRows ==
    ASSUME NEW T, NEW list \in Seq(T), NEW s PROVE Only(list, s) \in Seq(T \cap s)
<1> DEFINE at == {i \in DOMAIN list : list[i] \in s}
           Pick(k) == CHOOSE i \in at : Cardinality({m \in at : m <= i}) = k
<1>1. at \in SUBSET (1..Len(list)) /\ Len(list) \in Nat
  OBVIOUS
<1>2. Cardinality(at) \in Nat
  <2> HIDE DEF at
  <2>1. QED
    BY <1>1, FinitePositions
<1>3. ASSUME NEW k \in 1..Cardinality(at) PROVE Pick(k) \in at
  <2> HIDE DEF at
  <2>1. \E i \in at : Cardinality({m \in at : m <= i}) = k
    BY <1>1, KthPosition
  <2>2. QED
    BY <2>1
<1>4. \A i \in at : list[i] \in T \cap s
  OBVIOUS
<1>5. Only(list, s) = [k \in 1..Cardinality(at) |-> list[Pick(k)]]
  BY DEF Only
<1> HIDE DEF at, Pick
<1>6. QED
  BY <1>2, <1>3, <1>4, <1>5

\* A page is the beginning of what is left.
LEMMA CapsulePage ==
    ASSUME NEW rest \in Seq(ToolTask)
    PROVE  /\ Capsule(rest) \in Seq(ToolTask)
           /\ Len(Capsule(rest)) <= Len(rest)
           /\ \A i \in 1..Len(Capsule(rest)) : Capsule(rest)[i] = rest[i]
<1> DEFINE fits == {0} \cup {n \in 1..Len(rest) : n <= CapsuleItems /\ CostOf(SubSeq(rest, 1, n)) <= CapsuleBudget}
           n == CHOOSE m \in fits : \A k \in fits : k <= m
<1>1. fits \in SUBSET (0..Len(rest)) /\ fits # {} /\ Len(rest) \in Nat
  OBVIOUS
<1>2. n \in 0..Len(rest)
  <2> HIDE DEF fits
  <2>1. \E m \in fits : \A k \in fits : k <= m
    BY <1>1, GreatestNumber
  <2>2. QED
    BY <1>1, <2>1
<1>3. Capsule(rest) = IF n = 0 /\ rest # <<>> /\ MinimalCost <= CapsuleBudget THEN <<rest[1]>> ELSE SubSeq(rest, 1, n)
  BY DEF Capsule
<1> HIDE DEF n
<1>4. CASE Capsule(rest) = <<rest[1]>> /\ rest # <<>>
  BY <1>4
<1>5. CASE Capsule(rest) = SubSeq(rest, 1, n)
  BY <1>2, <1>5
<1>6. QED
  BY <1>3, <1>4, <1>5

-----------------------------------------------------------------------------
(* The states *)

\* The types of a row and of a call in progress.
ToolStatus == Status \cup {"deleted"}
TaskRow == [status: ToolStatus, due: BOOLEAN]
Visit == [tool: {"none", "enqueue", "complete", "accept", "archive", "told", "explain", "capsule", "read", "exhausted"},
          left: Seq(ToolTask), offset: Nat, seen: SUBSET ToolTask, fresh: BOOLEAN]
Plan == [task: ToolTask, status: ToolStatus \ {"absent"}, entry: BOOLEAN]

ToolTyped ==
    /\ tasks \in [ToolTask -> TaskRow]
    /\ order \in Seq(ToolTask)
    /\ visit \in [Client -> Visit]
    /\ plan \in [Client -> Plan \cup {NoPlan}]
    /\ never \subseteq ToolTask
    /\ astray \subseteq ToolTask

\* Where there is no way back from.
Closed == {"deleted", "failed", "dead_lettered", "archived"}
Done == {"succeeded", "archived", "deleted"}

\* The calls that take one entry after the other to such a status.
Sweeping == {"complete", "accept", "archive"}

\* The row is there, or was deleted.
Created(t) == tasks[t].status # "absent"

\* A task is created after those it needs, and what a batch has left to create is
\* in nobody else's.
EnqueueGood(c) ==
    visit[c].tool = "enqueue" =>
        /\ IsInjective(visit[c].left)
        /\ \A t \in Range(visit[c].left) : ~Created(t) /\ \A d \in Needs[t] : Created(d)

\* What two clients are about to create is not the same.
Apart ==
    \A c, e \in Client : c # e /\ visit[c].tool = "enqueue" /\ visit[e].tool = "enqueue"
        => Range(visit[c].left) \cap Range(visit[e].left) = {}

\* A page after the other has shown the candidates up to the offset.
PagesGood(c) ==
    visit[c].fresh /\ visit[c].tool \in {"capsule", "read"} =>
        /\ \A i \in 1..Len(Candidates) : i <= visit[c].offset => Candidates[i] \in visit[c].seen
        /\ visit[c].tool = "read" => Len(Candidates) <= visit[c].offset

\* What a sweep has been through is done.
SweptGood(c) ==
    visit[c].tool \in Sweeping \cup {"told"} => \A t \in visit[c].seen \ astray : tasks[t].status \in Done

\* A write by id is about a task that was there, and of a sweep about its next entry.
PlanGood(c) ==
    plan[c] # NoPlan =>
        /\ Created(plan[c].task)
        /\ plan[c].entry => visit[c].tool \in Sweeping /\ visit[c].left # <<>> /\ plan[c].status \in Done

\* What the call of a client may count on.
VisitGood(c) ==
    /\ SweptGood(c)
    /\ EnqueueGood(c)
    /\ visit[c].tool = "explain" => \A t \in visit[c].seen : Created(t)
    /\ PagesGood(c)

\* The inductive invariant.
ToolInv ==
    /\ ToolTyped
    /\ \A t \in Listed : Created(t)
    /\ \A t \in ToolTask : Created(t) => \A d \in Needs[t] : Created(d)
    /\ \A d \in never \ astray : tasks[d].status \in Closed
    /\ \A c \in Client : VisitGood(c) /\ PlanGood(c)
    /\ Apart

\* The tasks a capsule lists are rows.
LEMMA CandidateRows == ASSUME order \in Seq(ToolTask) PROVE Candidates \in Seq(ToolTask)
<1>1. Unfinished \in Seq(ToolTask \cap {t \in ToolTask : Active(t)})
  BY OnlyRows DEF Unfinished
<1>2. Unfinished \in Seq(ToolTask)
  BY <1>1, SeqMonotonic
<1>3. Candidates \in Seq(ToolTask \cap {t \in ToolTask : ~Waits(t)})
  BY <1>2, OnlyRows DEF Candidates
<1>4. QED
  BY <1>3, SeqMonotonic

\* Only the entry of one client changes, and no task.
LEMMA OneVisit ==
    ASSUME ToolInv, NEW c \in Client, NEW w \in Visit, visit' = [visit EXCEPT ![c] = w],
           UNCHANGED <<tasks, order, plan, never, astray>>,
           plan[c] = NoPlan \/ visit[c].tool \notin Sweeping,
           w.tool \in Sweeping \cup {"told"} => \A t \in w.seen \ astray : tasks[t].status \in Done,
           w.tool = "enqueue" =>
              /\ IsInjective(w.left)
              /\ \A t \in Range(w.left) : ~Created(t) /\ \A d \in Needs[t] : Created(d)
              /\ \A e \in Client \ {c} : visit[e].tool = "enqueue" => Range(w.left) \cap Range(visit[e].left) = {},
           w.tool = "explain" => \A t \in w.seen : Created(t),
           w.fresh /\ w.tool \in {"capsule", "read"} =>
              /\ \A i \in 1..Len(Candidates) : i <= w.offset => Candidates[i] \in w.seen
              /\ w.tool = "read" => Len(Candidates) <= w.offset
    PROVE  ToolInv'
<1>1. visit'[c] = w /\ (\A e \in Client \ {c} : visit'[e] = visit[e]) /\ visit' \in [Client -> Visit]
  BY DEF ToolInv, ToolTyped
<1>2. Candidates' = Candidates /\ Listed' = Listed /\ \A t : Created(t)' = Created(t)
  BY DEF Listed, Candidates, Unfinished, Waits, Active, Created
<1>3. VisitGood(c)' /\ PlanGood(c)'
  <2>1. PlanGood(c)
    BY DEF ToolInv
  <2>2. PlanGood(c)'
    BY <1>2, <2>1 DEF PlanGood
  <2>3. SweptGood(c)'
    BY <1>1 DEF SweptGood
  <2>4. QED
    BY <1>1, <1>2, <2>2, <2>3 DEF VisitGood, EnqueueGood, PagesGood
<1>4. ASSUME NEW e \in Client \ {c} PROVE VisitGood(e)' /\ PlanGood(e)'
  <2>1. VisitGood(e) /\ PlanGood(e) /\ visit'[e] = visit[e]
    BY <1>1 DEF ToolInv
  <2>2. PlanGood(e)' /\ SweptGood(e)'
    BY <1>2, <2>1 DEF VisitGood, SweptGood, PlanGood
  <2>3. QED
    BY <1>2, <2>1, <2>2 DEF VisitGood, EnqueueGood, PagesGood
<1>5. Apart'
  BY <1>1 DEF ToolInv, Apart
<1>6. QED
  BY <1>1, <1>2, <1>3, <1>4, <1>5 DEF ToolInv, ToolTyped

\* A write is validated: nothing but the plan of one client changes.
LEMMA OnePlan ==
    ASSUME ToolInv, NEW c \in Client, NEW p \in Plan, plan' = [plan EXCEPT ![c] = p],
           UNCHANGED <<tasks, order, visit, never, astray>>,
           Created(p.task), p.entry => visit[c].tool \in Sweeping /\ visit[c].left # <<>> /\ p.status \in Done
    PROVE  ToolInv'
<1>1. plan'[c] = p /\ (\A e \in Client \ {c} : plan'[e] = plan[e]) /\ plan' \in [Client -> Plan \cup {NoPlan}]
  BY DEF ToolInv, ToolTyped
<1>2. Candidates' = Candidates /\ Listed' = Listed /\ \A t : Created(t)' = Created(t)
  BY DEF Listed, Candidates, Unfinished, Waits, Active, Created
<1>3. ASSUME NEW e \in Client PROVE VisitGood(e)'
  <2>1. VisitGood(e)
    BY DEF ToolInv
  <2>2. QED
    BY <1>2, <2>1 DEF VisitGood, EnqueueGood, PagesGood, SweptGood
<1>4. ASSUME NEW e \in Client PROVE PlanGood(e)'
  <2>1. CASE e = c
    BY <1>1, <1>2, <2>1 DEF PlanGood
  <2>2. CASE e # c
    <3>1. PlanGood(e) /\ plan'[e] = plan[e]
      BY <1>1, <2>2 DEF ToolInv
    <3>2. QED
      BY <1>2, <3>1 DEF PlanGood
  <2>3. QED
    BY <2>1, <2>2
<1>5. QED
  BY <1>1, <1>2, <1>3, <1>4 DEF ToolInv, ToolTyped, Apart

\* A task is changed, and clients have less left: what was read before is no more
\* fresh.
LEMMA OneTask ==
    ASSUME ToolInv, NEW v \in [Client -> Visit], visit' = StaleVisits(v),
           order' \in Seq(ToolTask), \A t \in Listed' : Created(t)',
           UNCHANGED never, tasks' \in [ToolTask -> TaskRow],
           plan' \in [Client -> Plan \cup {NoPlan}], astray \subseteq astray', astray' \subseteq ToolTask,
           \A t \in ToolTask : Created(t) => Created(t)',
           \A t \in ToolTask : Created(t)' => \A d \in Needs[t] : Created(d)',
           \A t \in ToolTask \ astray' : tasks[t].status \in Closed => tasks'[t].status \in Closed,
           \A t \in ToolTask \ astray' : tasks[t].status \in Done => tasks'[t].status \in Done,
           \A e \in Client : plan'[e] # NoPlan =>
              /\ plan'[e] = plan[e]
              /\ plan[e].entry => v[e] = visit[e],
           \A e \in Client : v[e].tool \in Sweeping \cup {"told"} =>
              \/ visit[e].tool \in Sweeping \cup {"told"} /\ v[e].seen \subseteq visit[e].seen
              \/ \A t \in v[e].seen \ astray' : tasks'[t].status \in Done,
           \A e \in Client : v[e].tool = "enqueue" =>
              /\ visit[e].tool = "enqueue" /\ IsInjective(v[e].left) /\ Range(v[e].left) \subseteq Range(visit[e].left)
              /\ \A t \in Range(v[e].left) : Created(t)' <=> Created(t),
           \A e \in Client : v[e].tool = "explain" => v[e] = visit[e]
    PROVE  ToolInv'
<1>1. ASSUME NEW e \in Client
      PROVE  /\ visit'[e] \in Visit /\ visit'[e].tool = v[e].tool /\ visit'[e].left = v[e].left
             /\ visit'[e].seen = v[e].seen /\ visit'[e].fresh = FALSE
  <2>1. v[e] \in Visit /\ visit'[e] = [v[e] EXCEPT !.fresh = FALSE]
    BY DEF StaleVisits
  <2>2. QED
    BY <2>1 DEF Visit
<1>2. visit' \in [Client -> Visit]
  BY <1>1 DEF StaleVisits
<1>3. ASSUME NEW e \in Client PROVE VisitGood(e)' /\ PlanGood(e)'
  <2>1. VisitGood(e) /\ PlanGood(e) /\ (plan[e] # NoPlan => plan[e] \in Plan)
    BY DEF ToolInv, ToolTyped
  <2>2. \A u \in ToolTask : Needs[u] \subseteq ToolTask
    BY ToolConstants
  <2>3. Range(visit[e].left) \subseteq ToolTask /\ visit[e].seen \subseteq ToolTask
    <3>1. visit[e].left \in Seq(ToolTask) /\ visit[e].seen \subseteq ToolTask
      BY DEF ToolInv, ToolTyped, Visit
    <3>2. QED
      BY <3>1, RangeOfSeq
  <2>4. EnqueueGood(e)'
    <3>1. ASSUME v[e].tool = "enqueue", NEW t \in Range(v[e].left)
          PROVE  ~Created(t)' /\ \A d \in Needs[t] : Created(d)'
      <4>1. t \in Range(visit[e].left) /\ (Created(t)' <=> Created(t)) /\ visit[e].tool = "enqueue"
        BY <3>1
      <4>2. t \in ToolTask /\ ~Created(t) /\ \A d \in Needs[t] : d \in ToolTask /\ Created(d)
        BY <2>1, <2>2, <2>3, <4>1 DEF EnqueueGood, VisitGood
      <4>3. QED
        BY <4>1, <4>2
    <3>2. QED
      BY <1>1, <3>1 DEF EnqueueGood
  <2>5. PagesGood(e)'
    BY <1>1 DEF PagesGood
  <2>6. visit'[e].tool = "explain" => \A t \in visit'[e].seen : Created(t)'
    BY <1>1, <2>1, <2>3 DEF VisitGood
  <2>7. SweptGood(e)'
    <3>1. ASSUME visit'[e].tool \in Sweeping \cup {"told"}, NEW t \in visit'[e].seen \ astray'
          PROVE  tasks'[t].status \in Done
      <4>1. CASE visit[e].tool \in Sweeping \cup {"told"} /\ v[e].seen \subseteq visit[e].seen
        <5>1. t \in visit[e].seen \ astray /\ t \in ToolTask \ astray'
          BY <1>1, <2>3, <3>1, <4>1
        <5>2. tasks[t].status \in Done
          BY <2>1, <4>1, <5>1 DEF VisitGood, SweptGood
        <5>3. QED
          BY <5>1, <5>2
      <4>2. CASE \A u \in v[e].seen \ astray' : tasks'[u].status \in Done
        BY <1>1, <3>1, <4>2
      <4>3. v[e].tool \in Sweeping \cup {"told"}
        BY <1>1, <3>1
      <4>4. QED
        BY <4>1, <4>2, <4>3
    <3>2. QED
      BY <3>1 DEF SweptGood
  <2>8. PlanGood(e)'
    <3>1. ASSUME plan'[e] # NoPlan
          PROVE  /\ tasks'[plan'[e].task].status # "absent"
                 /\ plan'[e].entry => visit'[e].tool \in Sweeping /\ visit'[e].left # <<>> /\ plan'[e].status \in Done
      <4>1. plan'[e] = plan[e] /\ plan[e] \in Plan /\ (plan[e].entry => v[e] = visit[e])
        BY <2>1, <3>1
      <4>2. plan[e].task \in ToolTask /\ Created(plan[e].task)
        BY <2>1, <3>1, <4>1 DEF PlanGood, Plan
      <4>3. tasks'[plan[e].task].status # "absent"
        BY <4>2 DEF Created
      <4>4. QED
        BY <1>1, <2>1, <3>1, <4>1, <4>3 DEF PlanGood, Created
    <3>2. QED
      BY <3>1 DEF PlanGood, Created
  <2>9. QED
    BY <2>4, <2>5, <2>6, <2>7, <2>8 DEF VisitGood
<1>4. Apart'
  <2>1. ASSUME NEW e \in Client, visit'[e].tool = "enqueue"
        PROVE  visit[e].tool = "enqueue" /\ Range(visit'[e].left) \subseteq Range(visit[e].left)
    BY <1>1, <2>1
  <2>2. QED
    BY <2>1 DEF ToolInv, Apart
<1>5. \A d \in never' \ astray' : tasks'[d].status \in Closed
  BY DEF ToolInv, ToolTyped
<1>6. QED
  BY <1>2, <1>3, <1>4, <1>5 DEF ToolInv, ToolTyped

\* The entries after the first are those of a batch without its head.
LEMMA LeftAfter ==
    ASSUME ToolInv, NEW c \in Client, NEW tool, Doing(c, tool)
    PROVE  /\ After(c) \in Visit
           /\ After(c).tool \in {"none", tool}
           /\ After(c).tool = tool /\ tool = "enqueue" =>
                 /\ IsInjective(After(c).left)
                 /\ Range(After(c).left) \subseteq Range(visit[c].left) \ {Head(visit[c].left)}
           /\ Head(visit[c].left) \in Range(visit[c].left) \cap ToolTask
<1> DEFINE l == visit[c].left
<1>1. visit[c] \in Visit /\ visit[c].tool = tool /\ l \in Seq(ToolTask) /\ l # <<>>
  BY DEF ToolInv, ToolTyped, Visit, Doing
<1>2. /\ Head(l) = l[1] /\ 1 \in DOMAIN l /\ Head(l) \in ToolTask /\ Tail(l) \in Seq(ToolTask)
      /\ DOMAIN Tail(l) = 1..Len(l) - 1 /\ \A i \in 1..Len(l) - 1 : Tail(l)[i] = l[i + 1]
      /\ DOMAIN l = 1..Len(l) /\ Len(l) \in Nat
  BY <1>1
<1>3. Head(l) \in Range(l) \cap ToolTask
  BY <1>2 DEF Range
<1>4. CASE After(c) = Quiet
  <2>1. <<>> \in Seq(ToolTask)
    OBVIOUS
  <2>2. Quiet \in Visit /\ Quiet.tool = "none" /\ Quiet.left = <<>>
    BY <2>1 DEF Quiet, Visit
  <2>3. tool = "enqueue" => Quiet.tool # tool
    BY <2>2
  <2>4. QED
    BY <1>3, <1>4, <2>2, <2>3
<1>5. CASE After(c) = [visit[c] EXCEPT !.left = Tail(l)]
  <2>1. After(c) \in Visit /\ After(c).tool = tool /\ After(c).left = Tail(l)
    BY <1>1, <1>2, <1>5 DEF Visit
  <2>2. ASSUME tool = "enqueue"
        PROVE  IsInjective(Tail(l)) /\ Range(Tail(l)) \subseteq Range(l) \ {Head(l)}
    <3>1. IsInjective(l)
      BY <1>1, <2>2 DEF ToolInv, VisitGood, EnqueueGood
    <3>2. \A i \in 1..Len(l) - 1 : i + 1 \in 1..Len(l) /\ i + 1 # 1
      BY <1>2
    <3>3. IsInjective(Tail(l))
      <4>1. ASSUME NEW i \in 1..Len(l) - 1, NEW k \in 1..Len(l) - 1, l[i + 1] = l[k + 1] PROVE i = k
        <5>1. i + 1 = k + 1
          BY <1>2, <3>1, <3>2, <4>1 DEF IsInjective
        <5>2. QED
          BY <5>1
      <4>2. QED
        BY <1>2, <4>1 DEF IsInjective
    <3>4. ASSUME NEW i \in 1..Len(l) - 1 PROVE Tail(l)[i] \in Range(l) /\ Tail(l)[i] # Head(l)
      BY <1>2, <3>1, <3>2 DEF IsInjective, Range
    <3>5. QED
      BY <1>2, <3>3, <3>4 DEF Range
  <2>3. QED
    BY <1>3, <2>1, <2>2
<1>6. QED
  BY <1>4, <1>5 DEF After

\* A row gets a status, and it is a row already or those it needs are.
LEMMA PutRow ==
    ASSUME ToolInv, NEW t \in ToolTask, NEW s \in ToolStatus \ {"absent"}, Put(t, s),
           Created(t) \/ \A d \in Needs[t] : Created(d),
           t \in astray' \/ ((tasks[t].status \in Closed => s \in Closed) /\ (tasks[t].status \in Done => s \in Done))
    PROVE  /\ tasks' \in [ToolTask -> TaskRow] /\ tasks'[t].status = s
           /\ \A u \in ToolTask : Created(u)' <=> Created(u) \/ u = t
           /\ \A u \in ToolTask : Created(u)' => \A d \in Needs[u] : Created(d)'
           /\ \A u \in ToolTask \ astray' : tasks[u].status \in Closed => tasks'[u].status \in Closed
           /\ \A u \in ToolTask \ astray' : tasks[u].status \in Done => tasks'[u].status \in Done
<1>1. tasks \in [ToolTask -> TaskRow] /\ \A u \in ToolTask : Created(u) => \A d \in Needs[u] : Created(d)
  BY DEF ToolInv, ToolTyped
<1>2. \A u \in ToolTask : Needs[u] \subseteq ToolTask
  BY ToolConstants
<1>3. /\ tasks' \in [ToolTask -> TaskRow] /\ tasks'[t].status = s
      /\ \A u \in ToolTask : u # t => tasks'[u] = tasks[u]
  BY <1>1 DEF Put, TaskRow
<1>4. \A u \in ToolTask : Created(u)' <=> Created(u) \/ u = t
  BY <1>3 DEF Created
<1>5. \A u \in ToolTask : Created(u)' => \A d \in Needs[u] : Created(d)'
  BY <1>1, <1>2, <1>4
<1>6. QED
  BY <1>3, <1>4, <1>5

\* A valid transition has a status to start from, and none leads out of the closed ones,
\* or of those that are done, but to the archive.
LEMMA Transitions ==
    ASSUME NEW t, NEW s, May(t, s)
    PROVE  /\ s \in ToolStatus \ {"absent"} /\ Created(t)
           /\ tasks[t].status \in Closed => s \in Closed
           /\ tasks[t].status \in Done => s \in Done
BY DEF May, ValidTransitions, ToolStatus, Status, Created, Closed, Done

\* A client that does nothing.
LEMMA QuietTyped == Quiet \in Visit /\ Quiet.tool = "none" /\ Quiet.left = <<>> /\ ~Quiet.fresh
<1>1. <<>> \in Seq(ToolTask)
  OBVIOUS
<1>2. QED
  BY <1>1 DEF Quiet, Visit

\* The visits of a call that goes on to the next entry.
Passed(c) == [visit EXCEPT ![c] = After(c)]

LEMMA NextVisits ==
    ASSUME ToolInv, NEW c \in Client, NEW tool, Doing(c, tool), tool # "explain"
    PROVE  /\ Passed(c) \in [Client -> Visit]
           /\ \A e \in Client : Passed(c)[e].tool = "enqueue" =>
                /\ visit[e].tool = "enqueue" /\ IsInjective(Passed(c)[e].left)
                /\ Range(Passed(c)[e].left) \subseteq Range(visit[e].left)
                /\ tool = "enqueue" => Head(visit[c].left) \notin Range(Passed(c)[e].left)
           /\ \A e \in Client : Passed(c)[e].tool = "explain" => Passed(c)[e] = visit[e]
<1> DEFINE v == Passed(c)
<1>1. visit \in [Client -> Visit] /\ visit[c].tool = tool
  BY DEF ToolInv, ToolTyped, Doing
<1>2. /\ After(c) \in Visit /\ After(c).tool \in {"none", tool}
      /\ After(c).tool = tool /\ tool = "enqueue" =>
            IsInjective(After(c).left) /\ Range(After(c).left) \subseteq Range(visit[c].left) \ {Head(visit[c].left)}
      /\ Head(visit[c].left) \in Range(visit[c].left)
  BY LeftAfter
<1>3. v \in [Client -> Visit] /\ v[c] = After(c) /\ \A e \in Client \ {c} : v[e] = visit[e]
  BY <1>1, <1>2 DEF Passed
<1> HIDE DEF v
<1>4. ASSUME NEW e \in Client, v[e].tool = "enqueue"
      PROVE  /\ visit[e].tool = "enqueue" /\ IsInjective(v[e].left)
             /\ Range(v[e].left) \subseteq Range(visit[e].left)
             /\ tool = "enqueue" => Head(visit[c].left) \notin Range(v[e].left)
  <2>1. CASE e = c
    BY <1>1, <1>2, <1>3, <1>4, <2>1
  <2>2. CASE e # c
    <3>1. v[e] = visit[e] /\ EnqueueGood(e)
      BY <1>3, <2>2 DEF ToolInv, VisitGood
    <3>2. tool = "enqueue" => Range(visit[e].left) \cap Range(visit[c].left) = {}
      BY <1>1, <1>4, <2>2, <3>1 DEF ToolInv, Apart
    <3>3. QED
      BY <1>2, <1>4, <3>1, <3>2 DEF EnqueueGood
  <2>3. QED
    BY <2>1, <2>2
<1>5. QED
  <2>1. \A e \in Client : v[e].tool = "explain" => v[e] = visit[e]
    <3>1. After(c).tool # "explain"
      BY <1>2
    <3>2. QED
      BY <1>3, <3>1
  <2>2. QED
    BY <1>3, <1>4, <2>1 DEF v

\* A task of which a change says no more than its status.
LEMMA PutKeeps ==
    ASSUME ToolInv, NEW t \in ToolTask, NEW s \in ToolStatus \ {"absent"}, Put(t, s), Created(t),
           t \in astray' \/ ((tasks[t].status \in Closed => s \in Closed) /\ (tasks[t].status \in Done => s \in Done)),
           NEW v \in [Client -> Visit], visit' = StaleVisits(v), order' \in Seq(ToolTask), Listed' \subseteq Listed,
           UNCHANGED never, plan' \in [Client -> Plan \cup {NoPlan}], astray \subseteq astray', astray' \subseteq ToolTask,
           \A e \in Client : v[e].tool = "enqueue" => v[e] = visit[e],
           \A e \in Client : v[e].tool = "explain" => v[e] = visit[e],
           \A e \in Client : plan'[e] # NoPlan => plan'[e] = plan[e] /\ (plan[e].entry => v[e] = visit[e]),
           \A e \in Client : v[e].tool \in Sweeping \cup {"told"} =>
              \/ visit[e].tool \in Sweeping \cup {"told"} /\ v[e].seen \subseteq visit[e].seen
              \/ /\ visit[e].tool \in Sweeping \cup {"told"} /\ v[e].seen \subseteq visit[e].seen \cup {t}
                 /\ s \in Done
    PROVE  ToolInv'
<1>1. /\ tasks' \in [ToolTask -> TaskRow] /\ tasks'[t].status = s
      /\ \A u \in ToolTask : Created(u)' <=> Created(u) \/ u = t
      /\ \A u \in ToolTask : Created(u)' => \A d \in Needs[u] : Created(d)'
      /\ \A u \in ToolTask \ astray' : tasks[u].status \in Closed => tasks'[u].status \in Closed
      /\ \A u \in ToolTask \ astray' : tasks[u].status \in Done => tasks'[u].status \in Done
  BY PutRow
<1>2. ASSUME NEW e \in Client, v[e].tool = "enqueue"
      PROVE  /\ visit[e].tool = "enqueue" /\ IsInjective(v[e].left)
             /\ Range(v[e].left) \subseteq Range(visit[e].left)
             /\ \A u \in Range(v[e].left) : Created(u)' <=> Created(u)
  <2>1. v[e] = visit[e] /\ v[e].left \in Seq(ToolTask) /\ VisitGood(e)
    BY <1>2 DEF Visit, ToolInv
  <2>2. \A u \in Range(v[e].left) : u \in ToolTask
    BY <2>1, RangeOfSeq
  <2>3. QED
    BY <1>1, <1>2, <2>1, <2>2 DEF VisitGood, EnqueueGood
<1>3. \A u \in ToolTask : Created(u) => Created(u)'
  BY <1>1
<1>4. \A u \in Listed' : Created(u)'
  BY <1>3, RangeOfSeq DEF ToolInv, ToolTyped, Listed
<1>5. ASSUME NEW e \in Client, v[e].tool \in Sweeping \cup {"told"}
      PROVE  \/ visit[e].tool \in Sweeping \cup {"told"} /\ v[e].seen \subseteq visit[e].seen
             \/ \A u \in v[e].seen \ astray' : tasks'[u].status \in Done
  <2>1. CASE visit[e].tool \in Sweeping \cup {"told"} /\ v[e].seen \subseteq visit[e].seen \cup {t} /\ s \in Done
    <3>1. ASSUME NEW u \in v[e].seen \ astray' PROVE tasks'[u].status \in Done
      <4>1. CASE u = t
        BY <1>1, <2>1, <4>1
      <4>2. CASE u # t
        <5>1. u \in visit[e].seen \ astray /\ VisitGood(e) /\ visit[e] \in Visit
          BY <2>1, <3>1, <4>2 DEF ToolInv, ToolTyped
        <5>2. u \in ToolTask \ astray' /\ tasks[u].status \in Done
          BY <2>1, <3>1, <5>1 DEF VisitGood, SweptGood, Visit
        <5>3. QED
          BY <1>1, <5>2
      <4>3. QED
        BY <4>1, <4>2
    <3>2. QED
      BY <3>1
  <2>2. QED
    BY <1>5, <2>1
<1>6. QED
  BY <1>1, <1>2, <1>3, <1>4, <1>5, OneTask

\* The clients go on with what they were doing.
LEMMA SameVisits ==
    ASSUME ToolInv
    PROVE  /\ visit \in [Client -> Visit] /\ plan \in [Client -> Plan \cup {NoPlan}] /\ astray \subseteq ToolTask
           /\ \A e \in Client : visit[e].tool = "enqueue" =>
                IsInjective(visit[e].left) /\ Range(visit[e].left) \subseteq Range(visit[e].left)
BY DEF ToolInv, ToolTyped, VisitGood, EnqueueGood

\* A change of one row in one step, that is no write by id.
LEMMA RowMoves ==
    ASSUME ToolInv, NEW t \in ToolTask, NEW s \in ToolStatus \ {"absent"}, Put(t, s), Created(t),
           tasks[t].status \in Closed => s \in Closed, tasks[t].status \in Done => s \in Done,
           visit' = StaleVisits(visit), order' \in Seq(ToolTask), Listed' \subseteq Listed,
           UNCHANGED <<plan, never, astray>>
    PROVE  ToolInv'
BY SameVisits, PutKeeps

-----------------------------------------------------------------------------
(* The steps *)

\* A worker claims a task, and recovery and promotion move one.
LEMMA ClaimsKeeps ==
    ASSUME ToolInv, NEW c \in Client, NEW t \in ToolTask, NEW s \in Status, Claims(c, t) \/ Recovers(c, t, s)
    PROVE  ToolInv'
<1>1. PICK r \in {"running", s} :
        /\ r \in ToolStatus \ {"absent"} /\ Created(t)
        /\ tasks[t].status \notin Closed /\ tasks[t].status \notin Done
        /\ Put(t, r)
  BY DEF Claims, ClaimableNow, Recovers, ToolStatus, Status, Created, Closed, Done
<1>2. visit' = StaleVisits(visit) /\ order' \in Seq(ToolTask) /\ Listed' = Listed /\ UNCHANGED <<plan, never, astray>>
  BY DEF Claims, Recovers, ToolInv, ToolTyped, Listed
<1>3. QED
  BY <1>1, <1>2, RowMoves

\* A mark or a release of one task is validated.
LEMMA MarkKeeps ==
    ASSUME ToolInv, NEW c \in Client, NEW t \in ToolTask, NEW s, Settles(c, t, s) \/ CloseTask(c, t, s)
    PROVE  ToolInv'
<1> DEFINE p == [task |-> t, status |-> s, entry |-> FALSE]
<1>1. May(t, s) /\ plan' = [plan EXCEPT ![c] = p] /\ UNCHANGED <<tasks, order, visit, never, astray>>
  BY DEF Settles, CloseTask, Validates
<1>2. s \in ToolStatus \ {"absent"} /\ Created(t)
  BY <1>1, Transitions
<1>3. p \in Plan /\ p.task = t /\ ~p.entry
  BY <1>2 DEF Plan
<1> HIDE DEF p
<1>4. QED
  BY <1>1, <1>2, <1>3, OnePlan

\* Time passes.
LEMMA ComesDueKeeps ==
    ASSUME ToolInv, NEW t \in ToolTask, ComesDue(t) PROVE ToolInv'
<1>1. tasks \in [ToolTask -> TaskRow] /\ order' \in Seq(ToolTask) /\ tasks' = [tasks EXCEPT ![t].due = TRUE]
  BY DEF ComesDue, ToolInv, ToolTyped
<1>2. tasks' \in [ToolTask -> TaskRow] /\ \A u \in ToolTask : tasks'[u].status = tasks[u].status
  BY <1>1 DEF TaskRow
<1>3. \A u \in ToolTask : Created(u)' <=> Created(u)
  BY <1>2 DEF Created
<1>4. \A u \in ToolTask : Created(u)' => \A d \in Needs[u] : Created(d)'
  BY <1>3, ToolConstants DEF ToolInv
<1>5. ASSUME NEW e \in Client, NEW u \in Range(visit[e].left) PROVE u \in ToolTask
  <2>1. visit[e].left \in Seq(ToolTask)
    BY DEF ToolInv, ToolTyped, Visit
  <2>2. QED
    BY <2>1, <1>5, RangeOfSeq
<1>6. visit' = StaleVisits(visit) /\ UNCHANGED <<plan, never, astray>>
  BY DEF ComesDue
<1>7. \A u \in ToolTask : /\ tasks[u].status \in Closed => tasks'[u].status \in Closed
                         /\ tasks[u].status \in Done => tasks'[u].status \in Done
  BY <1>2
<1>8. \A u \in ToolTask : Created(u) => Created(u)'
  BY <1>3
<1>9. \A e \in Client : visit[e].tool = "enqueue" =>
         /\ IsInjective(visit[e].left) /\ Range(visit[e].left) \subseteq Range(visit[e].left)
         /\ \A u \in Range(visit[e].left) : Created(u)' <=> Created(u)
  BY <1>3, <1>5, SameVisits
<1>10. visit \in [Client -> Visit] /\ plan' \in [Client -> Plan \cup {NoPlan}] /\ astray' \subseteq ToolTask
  BY <1>6, SameVisits
<1>11. \A u \in Listed' : Created(u)'
  BY <1>8, RangeOfSeq DEF ComesDue, ToolInv, ToolTyped, Listed
<1>12. QED
  BY <1>11, <1>1, <1>2, <1>4, <1>6, <1>7, <1>8, <1>9, <1>10, OneTask

\* Nothing.
LEMMA ToolStutters ==
    ASSUME ToolInv, UNCHANGED toolVars PROVE ToolInv'
<1>1. UNCHANGED <<tasks, order, visit, plan, never, astray>>
  BY DEF toolVars
<1>2. Candidates' = Candidates /\ Listed' = Listed /\ \A t : Created(t)' = Created(t)
  BY <1>1 DEF Listed, Candidates, Unfinished, Waits, Active, Created
<1>3. ASSUME NEW e \in Client PROVE VisitGood(e)' /\ PlanGood(e)'
  <2>1. VisitGood(e) /\ PlanGood(e)
    BY DEF ToolInv
  <2>2. PlanGood(e)' /\ SweptGood(e)'
    BY <1>1, <1>2, <2>1 DEF VisitGood, SweptGood, PlanGood
  <2>3. QED
    BY <1>1, <1>2, <2>1, <2>2 DEF VisitGood, EnqueueGood, PagesGood
<1>4. QED
  BY <1>1, <1>2, <1>3 DEF ToolInv, ToolTyped, Apart

\* A batch begins: nobody else creates its entries.
LEMMA BeginBatchKeeps ==
    ASSUME ToolInv, NEW c \in Client, NEW tool \in {"enqueue", "complete"}, NEW batch \in TaskBatches,
           BeginBatch(c, tool, batch)
    PROVE  ToolInv'
<1> DEFINE w == [Quiet EXCEPT !.tool = tool, !.left = batch]
<1>1. batch \in Seq(ToolTask)
  BY ToolConstants
<1>2. /\ w \in Visit /\ w.tool = tool /\ w.left = batch /\ ~w.fresh /\ w.tool # "explain" /\ w.seen = {}
  BY <1>1 DEF Quiet, Visit
<1>3. visit' = [visit EXCEPT ![c] = w] /\ UNCHANGED <<tasks, order, plan, never, astray>> /\ plan[c] = NoPlan
  BY DEF BeginBatch, Idle, LockFree
<1>4. tool = "enqueue" =>
        /\ IsInjective(batch)
        /\ \A t \in Range(batch) : ~Created(t) /\ \A d \in Needs[t] : Created(d)
        /\ \A e \in Client \ {c} : visit[e].tool = "enqueue" => Range(batch) \cap Range(visit[e].left) = {}
  BY DEF BeginBatch, Created
<1> HIDE DEF w
<1>5. QED
  BY <1>2, <1>3, <1>4, OneVisit

\* A call that goes on, or ends, without a change.
LEMMA PassesOver ==
    ASSUME ToolInv, NEW c \in Client, Doing(c, "enqueue"), LockFree(c),
           NEW w \in {Quiet, After(c)}, visit' = [visit EXCEPT ![c] = w], UNCHANGED <<tasks, order, plan, never, astray>>
    PROVE  ToolInv'
<1>1. /\ After(c) \in Visit /\ After(c).tool \in {"none", "enqueue"}
      /\ After(c).tool = "enqueue" =>
            IsInjective(After(c).left) /\ Range(After(c).left) \subseteq Range(visit[c].left)
  BY LeftAfter
<1>2. w \in Visit /\ w.tool \in {"none", "enqueue"}
  BY <1>1, QuietTyped
<1>3. ASSUME w.tool = "enqueue"
      PROVE  /\ IsInjective(w.left)
             /\ \A t \in Range(w.left) : ~Created(t) /\ \A d \in Needs[t] : Created(d)
             /\ \A e \in Client \ {c} : visit[e].tool = "enqueue" => Range(w.left) \cap Range(visit[e].left) = {}
  <2>1. w = After(c) /\ visit[c].tool = "enqueue"
    BY <1>2, <1>3, QuietTyped DEF Doing
  <2>2. IsInjective(w.left) /\ Range(w.left) \subseteq Range(visit[c].left)
    BY <1>1, <1>3, <2>1
  <2>3. EnqueueGood(c) /\ Apart
    BY DEF ToolInv, VisitGood
  <2>4. QED
    BY <2>1, <2>2, <2>3 DEF EnqueueGood, Apart
<1>4. w.tool # "explain" /\ ~(w.tool \in {"capsule", "read"}) /\ w.tool \notin Sweeping \cup {"told"} /\ plan[c] = NoPlan
  BY <1>2 DEF Sweeping, LockFree
<1>5. QED
  BY <1>2, <1>3, <1>4, OneVisit

\* The next entry of a batch is created, found or refused.
LEMMA EnqueueKeeps ==
    ASSUME ToolInv, NEW c \in Client, EnqueueNext(c) PROVE ToolInv'
<1> DEFINE t == Head(visit[c].left)
           v == [visit EXCEPT ![c] = After(c)]
<1>0. Doing(c, "enqueue") /\ LockFree(c) /\ UNCHANGED <<plan, never, astray>>
  BY DEF EnqueueNext
<1>1. CASE \E w \in {Quiet, After(c)} : visit' = [visit EXCEPT ![c] = w] /\ UNCHANGED <<tasks, order>>
  BY <1>0, <1>1, PassesOver
<1>2. CASE Put(t, "pending") /\ order' = Append(order, t) /\ visit' = StaleVisits(v)
  <2>1. t \in Range(visit[c].left) /\ t \in ToolTask
    BY <1>0, LeftAfter
  <2>2. ~Created(t) /\ \A d \in Needs[t] : Created(d)
    BY <1>0, <2>1 DEF ToolInv, VisitGood, EnqueueGood, Doing
  <2>3. tasks[t].status \notin Closed /\ tasks[t].status \notin Done
    BY <2>2 DEF Created, Closed, Done
  <2>4. "pending" \in ToolStatus \ {"absent"}
    BY DEF ToolStatus, Status
  <2>5. order' \in Seq(ToolTask)
    BY <1>2, <2>1 DEF ToolInv, ToolTyped
  <2>6. /\ tasks' \in [ToolTask -> TaskRow]
        /\ \A u \in ToolTask : Created(u)' <=> Created(u) \/ u = t
        /\ \A u \in ToolTask : Created(u)' => \A d \in Needs[u] : Created(d)'
        /\ \A u \in ToolTask \ astray' : tasks[u].status \in Closed => tasks'[u].status \in Closed
        /\ \A u \in ToolTask \ astray' : tasks[u].status \in Done => tasks'[u].status \in Done
    BY <1>2, <2>1, <2>2, <2>3, <2>4, PutRow
  <2>7. /\ v \in [Client -> Visit]
        /\ \A e \in Client : v[e].tool = "enqueue" =>
             /\ visit[e].tool = "enqueue" /\ IsInjective(v[e].left)
             /\ Range(v[e].left) \subseteq Range(visit[e].left) /\ t \notin Range(v[e].left)
        /\ \A e \in Client : v[e].tool = "explain" => v[e] = visit[e]
    <3>1. v = Passed(c) /\ t = Head(visit[c].left)
      BY DEF Passed
    <3> HIDE DEF v, t
    <3>2. "enqueue" # "explain"
      OBVIOUS
    <3>3. QED
      BY <1>0, <3>1, <3>2, NextVisits
  <2> HIDE DEF v, t
  <2>8. ASSUME NEW e \in Client, v[e].tool = "enqueue", NEW u \in Range(v[e].left)
        PROVE  Created(u)' <=> Created(u)
    <3>1. v[e].left \in Seq(ToolTask)
      BY <2>7 DEF Visit
    <3>2. u \in ToolTask /\ u # t
      BY <3>1, <2>7, <2>8, RangeOfSeq
    <3>3. QED
      BY <2>6, <3>2
  <2>9. \A u \in ToolTask : Created(u) => Created(u)'
    BY <2>6
  <2>10. \A u \in Listed' : Created(u)'
    <3>1. order \in Seq(ToolTask) /\ \A u \in Listed : u \in ToolTask /\ Created(u)
      BY RangeOfSeq DEF ToolInv, ToolTyped, Listed
    <3>2. order \in Seq(Listed \cup {t})
      BY <3>1 DEF Listed, Range
    <3>3. order' \in Seq(Listed \cup {t})
      BY <1>2, <3>2
    <3>4. Listed' \subseteq Listed \cup {t}
      BY <3>3, RangeOfSeq DEF Listed
    <3>5. QED
      BY <2>1, <2>6, <3>1, <3>4
  <2>11. /\ \A e \in Client : v[e].tool \in Sweeping \cup {"told"} => v[e] = visit[e]
         /\ \A e \in Client : plan'[e] # NoPlan => plan'[e] = plan[e] /\ v[e] = visit[e]
    <3>1. visit \in [Client -> Visit] /\ After(c).tool \in {"none", "enqueue"}
      BY <1>0, LeftAfter, SameVisits
    <3>2. After(c).tool \notin Sweeping \cup {"told"} /\ v[c] = After(c) /\ \A e \in Client : e # c => v[e] = visit[e]
      BY <3>1 DEF v, Sweeping
    <3>3. QED
      BY <1>0, <3>2 DEF LockFree
  <2>12. plan' \in [Client -> Plan \cup {NoPlan}] /\ astray \subseteq astray' /\ astray' \subseteq ToolTask
    BY <1>0, SameVisits
  <2>13. QED
    BY <2>10, <1>0, <1>2, <2>5, <2>6, <2>7, <2>8, <2>9, <2>11, <2>12, OneTask
<1>3. QED
  BY <1>1, <1>2 DEF EnqueueNext

\* The names of the calls.
LEMMA SweepTools == \A n \in Sweeping \cup {"told", "none"} : n \in {"none", "complete", "accept", "archive", "told"}
BY DEF Sweeping

\* A sweep goes on after an entry, that is done or is not.
LEMMA EntryDealtWith ==
    ASSUME ToolInv, NEW c \in Client, visit[c].tool \in Sweeping, visit[c].left # <<>>, NEW t \in ToolTask
    PROVE  /\ Told(c, t) \in Visit /\ Told(c, t).tool \in Sweeping \cup {"told"}
           /\ Told(c, t).seen = visit[c].seen \cup {t}
           /\ Skipped(c) \in Visit /\ Skipped(c).tool \in Sweeping \cup {"told", "none"}
           /\ Skipped(c).seen \subseteq visit[c].seen
<1> DEFINE w == visit[c]
           ends == IF Len(w.left) = 1 THEN "told" ELSE w.tool
<1>1. w \in Visit /\ w.tool \in Sweeping /\ w.left # <<>>
  BY DEF ToolInv, ToolTyped
<1>2. w = [tool |-> w.tool, left |-> w.left, offset |-> w.offset, seen |-> w.seen, fresh |-> w.fresh]
  BY <1>1 DEF Visit
<1>3. Tail(w.left) \in Seq(ToolTask) /\ w.seen \cup {t} \in SUBSET ToolTask /\ w.seen \in SUBSET ToolTask
  BY <1>1 DEF Visit
<1>4. ends \in Sweeping \cup {"told"} /\ "complete" \in Sweeping
  BY <1>1 DEF Sweeping
<1>5. Told(c, t) = [tool |-> ends, left |-> Tail(w.left), offset |-> w.offset, seen |-> w.seen \cup {t}, fresh |-> w.fresh]
  <2> DEFINE rest == Tail(w.left)
             more == w.seen \cup {t}
             one == [w EXCEPT !.left = rest]
             two == [one EXCEPT !.seen = more]
             all == [tool |-> ends, left |-> rest, offset |-> w.offset, seen |-> more, fresh |-> w.fresh]
  <2>1. [w EXCEPT !.left = rest, !.seen = more, !.tool = ends] = all
    <3> HIDE DEF w, ends, rest, more
    <3>1. one = [tool |-> w.tool, left |-> rest, offset |-> w.offset, seen |-> w.seen, fresh |-> w.fresh]
      BY <1>2
    <3> HIDE DEF one
    <3>2. two = [tool |-> w.tool, left |-> rest, offset |-> w.offset, seen |-> more, fresh |-> w.fresh]
      BY <3>1
    <3> HIDE DEF two
    <3>3. [two EXCEPT !.tool = ends] = all
      BY <3>2
    <3> HIDE DEF all
    <3>4. QED
      BY <3>3 DEF one, two
  <2> HIDE DEF all
  <2>2. Told(c, t) = all
    BY <2>1 DEF Told
  <2>3. QED
    BY <2>2 DEF all
<1>6. CASE w.tool # "complete"
  <2>1. Skipped(c) = Quiet
    BY <1>6 DEF Skipped
  <2>2. Quiet.seen = {}
    BY DEF Quiet
  <2>3. Told(c, t) \in Visit /\ Told(c, t).tool \in Sweeping \cup {"told"} /\ Told(c, t).seen = w.seen \cup {t}
    <3> HIDE DEF ends
    <3>1. QED
      BY <1>1, <1>3, <1>4, <1>5, SweepTools DEF Visit
  <2>4. QED
    BY <2>1, <2>2, <2>3, QuietTyped
<1>7. CASE w.tool = "complete"
  <2>1. Skipped(c) = [tool |-> ends, left |-> Tail(w.left), offset |-> w.offset, seen |-> w.seen, fresh |-> w.fresh]
    <3>1. Skipped(c) = [w EXCEPT !.left = Tail(w.left), !.tool = ends]
      BY <1>7 DEF Skipped
    <3>2. QED
      BY <1>2, <3>1
  <2>2. /\ Told(c, t) \in Visit /\ Told(c, t).tool \in Sweeping \cup {"told"} /\ Told(c, t).seen = w.seen \cup {t}
        /\ Skipped(c) \in Visit /\ Skipped(c).tool \in Sweeping \cup {"told"} /\ Skipped(c).seen = w.seen
    <3> HIDE DEF ends
    <3>1. QED
      BY <1>1, <1>3, <1>4, <1>5, <2>1, SweepTools DEF Visit
  <2>3. QED
    BY <2>2
<1>8. QED
  BY <1>6, <1>7

\* The next entry of a batch or a sweep is read: it can be done, or is passed over.
LEMMA EntryKeeps ==
    ASSUME ToolInv, NEW c \in Client, NEW tool \in Sweeping, NEW s \in {"succeeded", "archived"}, EntryNext(c, tool, s)
    PROVE  ToolInv'
<1> DEFINE t == Head(visit[c].left)
           p == [task |-> t, status |-> s, entry |-> TRUE]
<1>1. visit[c] \in Visit /\ visit[c].tool \in Sweeping /\ visit[c].left # <<>> /\ LockFree(c) /\ VisitGood(c)
  BY DEF EntryNext, Doing, ToolInv, ToolTyped
<1>2. visit[c].left \in Seq(ToolTask) /\ t \in ToolTask
  BY <1>1 DEF Visit
<1>3. CASE May(t, s) /\ Validates(c, t, s, TRUE) /\ UNCHANGED visit
  <2>1. s \in ToolStatus \ {"absent"} /\ Created(t) /\ s \in Done
    BY <1>3, Transitions DEF Done
  <2>2. p \in Plan /\ p.task = t /\ p.status = s
    BY <1>2, <2>1 DEF Plan
  <2>3. plan' = [plan EXCEPT ![c] = p] /\ UNCHANGED <<tasks, order, visit, never, astray>>
    BY <1>3 DEF Validates, EntryNext
  <2> HIDE DEF p, t
  <2>4. QED
    BY <1>1, <2>1, <2>2, <2>3, OnePlan
<1>4. CASE visit' = [visit EXCEPT ![c] = Skipped(c)] /\ UNCHANGED plan
  <2>1. /\ Skipped(c) \in Visit /\ Skipped(c).tool \in Sweeping \cup {"told", "none"}
        /\ Skipped(c).seen \subseteq visit[c].seen
    BY <1>1, <1>2, EntryDealtWith
  <2>2. \A u \in Skipped(c).seen \ astray : tasks[u].status \in Done
    BY <1>1, <2>1 DEF VisitGood, SweptGood
  <2>3. Skipped(c).tool \notin {"enqueue", "explain", "capsule", "read"}
    BY <2>1 DEF Sweeping
  <2>4. UNCHANGED <<tasks, order, plan, never, astray>> /\ plan[c] = NoPlan
    BY <1>1, <1>4 DEF EntryNext, LockFree
  <2>5. QED
    BY <1>4, <2>1, <2>2, <2>3, <2>4, OneVisit
<1>5. QED
  BY <1>3, <1>4 DEF EntryNext

\* A write by id: it was valid, or the task is one that was hit.
LEMMA WritesKeeps ==
    ASSUME ToolInv, NEW c \in Client, Writes(c) PROVE ToolInv'
<1> DEFINE t == plan[c].task
           s == plan[c].status
           there == tasks[t].status # "deleted"
           x == IF there THEN Told(c, t) ELSE Skipped(c)
           v == IF plan[c].entry THEN [visit EXCEPT ![c] = x] ELSE visit
<1>1. plan[c] \in Plan /\ PlanGood(c) /\ VisitGood(c) /\ plan[c] # NoPlan
  BY DEF Writes, ToolInv, ToolTyped
<1>2. t \in ToolTask /\ s \in ToolStatus \ {"absent"} /\ Created(t)
  BY <1>1 DEF Plan, PlanGood
<1>3. /\ plan' = [plan EXCEPT ![c] = NoPlan] /\ visit' = StaleVisits(v) /\ UNCHANGED <<order, never>>
      /\ IF there THEN Put(t, s) ELSE UNCHANGED tasks
      /\ astray' = IF ~there \/ May(t, s) \/ tasks[t].status = s THEN astray ELSE astray \cup {t}
  BY DEF Writes
<1>4. astray \subseteq astray' /\ astray' \subseteq ToolTask
  BY <1>2, <1>3 DEF ToolInv, ToolTyped
<1>5. ASSUME plan[c].entry
      PROVE  /\ x \in Visit /\ x.tool \in Sweeping \cup {"told", "none"}
             /\ visit[c].tool \in Sweeping /\ s \in Done
             /\ x.seen \subseteq visit[c].seen \/ (there /\ x.seen = visit[c].seen \cup {t})
  <2>1. visit[c].tool \in Sweeping /\ visit[c].left # <<>> /\ s \in Done
    BY <1>1, <1>5 DEF PlanGood
  <2>2. /\ Told(c, t) \in Visit /\ Told(c, t).tool \in Sweeping \cup {"told"}
        /\ Told(c, t).seen = visit[c].seen \cup {t}
        /\ Skipped(c) \in Visit /\ Skipped(c).tool \in Sweeping \cup {"told", "none"}
        /\ Skipped(c).seen \subseteq visit[c].seen
    BY <1>2, <2>1, EntryDealtWith
  <2> HIDE DEF t, s, there
  <2>3. QED
    BY <2>1, <2>2
<1> HIDE DEF x
<1>6. /\ v \in [Client -> Visit] /\ plan' \in [Client -> Plan \cup {NoPlan}]
      /\ \A e \in Client : v[e].tool \in {"enqueue", "explain"} => v[e] = visit[e]
      /\ \A e \in Client : plan'[e] # NoPlan => plan'[e] = plan[e] /\ v[e] = visit[e]
      /\ \A e \in Client : v[e] = visit[e] \/ (e = c /\ plan[c].entry /\ v[e] = x)
  <2>1. visit \in [Client -> Visit] /\ plan \in [Client -> Plan \cup {NoPlan}]
    BY SameVisits
  <2>2. plan' \in [Client -> Plan \cup {NoPlan}] /\ plan'[c] = NoPlan /\ \A e \in Client : e # c => plan'[e] = plan[e]
    BY <1>3, <2>1
  <2>3. CASE plan[c].entry
    <3>1. v = [visit EXCEPT ![c] = x] /\ x \in Visit /\ x.tool \in Sweeping \cup {"told", "none"}
      BY <1>5, <2>3
    <3> HIDE DEF v
    <3>2. v \in [Client -> Visit] /\ v[c] = x /\ \A e \in Client : e # c => v[e] = visit[e]
      BY <2>1, <3>1
    <3>3. x.tool \notin {"enqueue", "explain"}
      BY <3>1 DEF Sweeping
    <3>4. QED
      BY <2>2, <2>3, <3>2, <3>3
  <2>4. CASE ~plan[c].entry
    <3>1. v = visit
      BY <2>4
    <3> HIDE DEF v
    <3>2. QED
      BY <2>1, <2>2, <3>1
  <2>5. QED
    BY <2>3, <2>4
<1> HIDE DEF v
<1>7. CASE there
  <2>1. Put(t, s) /\ order' \in Seq(ToolTask) /\ Listed' = Listed
    BY <1>3, <1>7 DEF ToolInv, ToolTyped, Listed
  <2>2. t \in astray' \/ ((tasks[t].status \in Closed => s \in Closed) /\ (tasks[t].status \in Done => s \in Done))
    <3>1. CASE May(t, s)
      BY <3>1, Transitions
    <3>2. CASE tasks[t].status = s
      BY <3>2
    <3>3. CASE ~May(t, s) /\ tasks[t].status # s
      BY <1>3, <1>7, <3>3
    <3>4. QED
      BY <3>1, <3>2, <3>3
  <2>3. ASSUME NEW e \in Client, v[e].tool \in Sweeping \cup {"told"}
        PROVE  \/ visit[e].tool \in Sweeping \cup {"told"} /\ v[e].seen \subseteq visit[e].seen
               \/ /\ visit[e].tool \in Sweeping \cup {"told"} /\ v[e].seen \subseteq visit[e].seen \cup {t}
                  /\ s \in Done
    <3> HIDE DEF t, s, there
    <3>1. CASE v[e] = visit[e]
      BY <2>3, <3>1
    <3>2. CASE e = c /\ plan[c].entry /\ v[e] = x
      BY <1>5, <3>2
    <3>3. QED
      BY <1>6, <3>1, <3>2
  <2> HIDE DEF t, s, there
  <2>4. QED
    BY <1>2, <1>3, <1>4, <1>6, <2>1, <2>2, <2>3, PutKeeps
<1>8. CASE ~there
  <2>1. UNCHANGED <<tasks, order, never, astray>>
    BY <1>3, <1>8
  <2>2. Listed' = Listed /\ \A u : Created(u)' = Created(u)
    BY <2>1 DEF Listed, Created
  <2>3. ASSUME NEW e \in Client, v[e].tool \in Sweeping \cup {"told"}
        PROVE  visit[e].tool \in Sweeping \cup {"told"} /\ v[e].seen \subseteq visit[e].seen
    <3>1. CASE v[e] = visit[e]
      BY <2>3, <3>1
    <3>2. CASE e = c /\ plan[c].entry /\ v[e] = x
      BY <1>5, <1>8, <3>2
    <3>3. QED
      BY <1>6, <3>1, <3>2
  <2>4. /\ tasks' \in [ToolTask -> TaskRow] /\ order' \in Seq(ToolTask)
        /\ \A u \in Listed' : Created(u)'
        /\ \A u \in ToolTask : Created(u)' => \A d \in Needs[u] : Created(d)'
    BY <2>1, <2>2 DEF ToolInv, ToolTyped
  <2>5. \A e \in Client : v[e].tool = "enqueue" =>
          /\ visit[e].tool = "enqueue" /\ IsInjective(v[e].left) /\ Range(v[e].left) \subseteq Range(visit[e].left)
          /\ \A u \in Range(v[e].left) : Created(u)' <=> Created(u)
    BY <1>6, <2>2, SameVisits
  <2> HIDE DEF t, s, there
  <2>6. QED
    BY <1>3, <1>4, <1>6, <2>1, <2>2, <2>3, <2>4, <2>5, OneTask
<1>9. QED
  BY <1>7, <1>8

\* A sweep begins with the list that are open.
LEMMA SweepBegins ==
    ASSUME ToolInv, NEW c \in Client, NEW tool \in {"accept", "archive"}, NEW list \in Seq(ToolTask),
           BeginSweep(c, tool, list)
    PROVE  ToolInv'
<1> DEFINE done == {t \in ToolTask : tasks[t].status \in {"succeeded", "archived"}}
           w == [Quiet EXCEPT !.tool = tool, !.left = Only(list, ToolTask \ done), !.seen = Range(list) \cap done]
<1>1. Only(list, ToolTask \ done) \in Seq(ToolTask)
  <2>1. Only(list, ToolTask \ done) \in Seq(ToolTask \cap (ToolTask \ done))
    BY OnlyRows
  <2>2. QED
    BY <2>1, SeqMonotonic
<1>2. w \in Visit /\ w.tool = tool /\ ~w.fresh /\ w.seen \subseteq done
  BY <1>1 DEF Quiet, Visit
<1>3. /\ visit' = [visit EXCEPT ![c] = w] /\ UNCHANGED <<tasks, order, plan, never, astray>>
      /\ plan[c] = NoPlan /\ \A u \in w.seen : tasks[u].status \in Done
  BY <1>2 DEF BeginSweep, Idle, LockFree, Done
<1> HIDE DEF w
<1>4. QED
  BY <1>2, <1>3, OneVisit

\* The list before a row.
LEMMA RowsBefore ==
    ASSUME ToolInv, NEW t \in Listed PROVE SubSeq(order, 1, Place(t) - 1) \in Seq(ToolTask)
<1>1. order \in Seq(ToolTask) /\ \E i \in DOMAIN order : order[i] = t
  BY DEF ToolInv, ToolTyped, Listed, Range
<1>2. Place(t) \in 1..Len(order)
  BY <1>1 DEF Place
<1>3. QED
  BY <1>1, <1>2



-----------------------------------------------------------------------------
\* explain reads the pending rows.
LEMMA ReadVisibleKeeps ==
    ASSUME ToolInv, NEW c \in Client, ReadVisible(c) PROVE ToolInv'
<1> DEFINE w == [Quiet EXCEPT !.tool = "explain", !.seen = {t \in ToolTask : tasks[t].status = "pending"}]
<1>1. <<>> \in Seq(ToolTask)
  OBVIOUS
<1>2. w \in Visit /\ w.tool = "explain" /\ (\A t \in w.seen : Created(t))
  BY <1>1 DEF Quiet, Visit, Created
<1>3. visit' = [visit EXCEPT ![c] = w] /\ UNCHANGED <<tasks, order, plan, never, astray>> /\ plan[c] = NoPlan
  BY DEF ReadVisible, Idle, LockFree
<1>4. "explain" \notin Sweeping \cup {"told"}
  BY DEF Sweeping
<1> HIDE DEF w
<1>5. QED
  BY <1>2, <1>3, <1>4, OneVisit

\* A call ends.
LEMMA QuietKeeps ==
    ASSUME ToolInv, NEW c \in Client, visit' = [visit EXCEPT ![c] = Quiet], UNCHANGED <<tasks, order, plan, never, astray>>,
           visit[c].tool \notin Sweeping
    PROVE  ToolInv'
<1>1. "none" \notin Sweeping \cup {"told"}
  BY DEF Sweeping
<1>2. QED
  BY <1>1, QuietTyped, OneVisit

\* What a capsule says is read is what it has shown.
LEMMA CapsuleKeeps ==
    ASSUME ToolInv, NEW c \in Client, ReadCapsule(c) PROVE ToolInv'
<1> DEFINE w == IF visit[c].tool = "none" THEN [Quiet EXCEPT !.tool = "capsule", !.fresh = TRUE] ELSE visit[c]
           all == Candidates
           rest == SubSeq(all, w.offset + 1, Len(all))
           page == Capsule(rest)
           more == w.offset + Len(page)
           x == [tool |-> IF page = <<>> THEN "exhausted" ELSE IF more < Len(all) THEN "capsule" ELSE "read",
                 left |-> w.left, offset |-> more, seen |-> w.seen \cup Range(page), fresh |-> w.fresh]
<1>1. all \in Seq(ToolTask) /\ visit[c] \in Visit
  BY CandidateRows DEF ToolInv, ToolTyped
<1>2. /\ w \in Visit /\ w.tool = "capsule"
      /\ w.fresh => \A i \in 1..Len(all) : i <= w.offset => all[i] \in w.seen
  <2>1. CASE visit[c].tool = "none"
    <3>1. <<>> \in Seq(ToolTask)
      OBVIOUS
    <3>2. w = [tool |-> "capsule", left |-> <<>>, offset |-> 0, seen |-> {}, fresh |-> TRUE]
      BY <2>1 DEF Quiet
    <3> HIDE DEF w
    <3>3. w \in Visit /\ w.tool = "capsule" /\ w.offset = 0
      BY <3>1, <3>2 DEF Visit
    <3>4. QED
      BY <3>3
  <2>2. CASE visit[c].tool = "capsule"
    <3>1. w = visit[c]
      BY <2>2
    <3>2. PagesGood(c)
      BY DEF ToolInv, VisitGood
    <3> HIDE DEF w
    <3>3. QED
      BY <1>1, <2>2, <3>1, <3>2 DEF PagesGood
  <2>3. QED
    BY <2>1, <2>2 DEF ReadCapsule
<1>3. visit' = [visit EXCEPT ![c] = x] /\ UNCHANGED <<tasks, order, plan, never, astray>>
  <2>1. [w EXCEPT !.seen = w.seen \cup Range(page), !.offset = more,
                  !.tool = IF page = <<>> THEN "exhausted" ELSE IF more < Len(all) THEN "capsule" ELSE "read"] = x
    <3>1. w = [tool |-> w.tool, left |-> w.left, offset |-> w.offset, seen |-> w.seen, fresh |-> w.fresh]
      BY <1>2 DEF Visit
    <3> HIDE DEF w, page, more, all
    <3> DEFINE one == [w EXCEPT !.seen = w.seen \cup Range(page)]
               two == [one EXCEPT !.offset = more]
    <3>2. one = [tool |-> w.tool, left |-> w.left, offset |-> w.offset, seen |-> w.seen \cup Range(page), fresh |-> w.fresh]
      BY <3>1
    <3> HIDE DEF one
    <3>3. two = [tool |-> w.tool, left |-> w.left, offset |-> more, seen |-> w.seen \cup Range(page), fresh |-> w.fresh]
      BY <3>2
    <3> HIDE DEF two
    <3> DEFINE ends == IF page = <<>> THEN "exhausted" ELSE IF more < Len(all) THEN "capsule" ELSE "read"
    <3>e. x = [tool |-> ends, left |-> w.left, offset |-> more, seen |-> w.seen \cup Range(page), fresh |-> w.fresh]
      OBVIOUS
    <3> HIDE DEF ends, x
    <3>4. [two EXCEPT !.tool = ends] = x
      BY <3>3, <3>e
    <3>5. QED
      BY <3>4 DEF one, two, ends
  <2>2. QED
    BY <2>1 DEF ReadCapsule, NextOffset
<1>4. w.offset \in Nat /\ Len(all) \in Nat /\ rest \in Seq(ToolTask)
      /\ \A i \in 1..Len(rest) : w.offset + i \in 1..Len(all) /\ rest[i] = all[w.offset + i]
  <2> HIDE DEF w, all
  <2>1. w.offset \in Nat /\ Len(all) \in Nat
    BY <1>1, <1>2 DEF Visit
  <2>2. rest \in Seq(ToolTask) /\ (Len(rest) = IF w.offset + 1 <= Len(all) THEN Len(all) - w.offset ELSE 0)
        /\ \A i \in 1..Len(rest) : rest[i] = all[w.offset + i]
    BY <1>1, <2>1
  <2> HIDE DEF rest
  <2>3. QED
    BY <2>1, <2>2
<1>5. /\ page \in Seq(ToolTask) /\ Len(page) <= Len(rest) /\ Len(page) \in Nat
      /\ \A i \in 1..Len(page) : page[i] = rest[i] /\ page[i] \in Range(page)
  <2> HIDE DEF rest
  <2>1. page \in Seq(ToolTask) /\ Len(page) <= Len(rest) /\ \A i \in 1..Len(page) : page[i] = rest[i]
    BY <1>4, CapsulePage
  <2> HIDE DEF page
  <2>2. QED
    BY <2>1 DEF Range
<1>6. Len(rest) \in Nat
  <2> HIDE DEF rest
  <2>1. QED
    BY <1>4
<1> HIDE DEF w, all, rest, page
<1>7. more \in Nat /\ Range(page) \subseteq ToolTask /\ w.left \in Seq(ToolTask)
  BY <1>2, <1>4, <1>5, RangeOfSeq DEF Visit
<1>8. x \in Visit /\ x.tool \in {"exhausted", "capsule", "read"} /\ (x.tool = "read" => Len(all) <= x.offset)
      /\ x.offset = more /\ x.seen = w.seen \cup Range(page) /\ x.fresh = w.fresh
  BY <1>2, <1>4, <1>7 DEF Visit
<1>9. x.fresh => \A i \in 1..Len(all) : i <= x.offset => all[i] \in x.seen
  <2>1. ASSUME x.fresh, NEW i \in 1..Len(all), i <= more PROVE all[i] \in x.seen
    <3>1. CASE i <= w.offset
      BY <1>2, <1>8, <2>1, <3>1
    <3>2. CASE i > w.offset
      <4>1. i - w.offset \in 1..Len(page) /\ i - w.offset \in 1..Len(rest) /\ w.offset + (i - w.offset) = i
        BY <1>4, <1>5, <1>6, <2>1, <3>2
      <4>2. page[i - w.offset] = all[i] /\ page[i - w.offset] \in Range(page)
        BY <1>4, <1>5, <4>1
      <4>3. QED
        BY <1>8, <4>2
    <3>3. QED
      BY <1>4, <3>1, <3>2
  <2>2. QED
    BY <1>8, <2>1
<1>10. all = Candidates
  BY DEF all
<1> HIDE DEF x
<1>11. x.tool \notin Sweeping \cup {"told"} /\ plan[c] = NoPlan
  BY <1>8 DEF Sweeping, ReadCapsule, LockFree
<1>12. QED
  BY <1>3, <1>8, <1>9, <1>10, <1>11, OneVisit

\* A row is deleted.
LEMMA DeleteKeeps ==
    ASSUME ToolInv, NEW c \in Client, NEW t \in ToolTask, DeleteTask(c, t) PROVE ToolInv'
<1>0. Created(t)
  BY DEF DeleteTask, ToolInv
<1>1. order' \in Seq(ToolTask) /\ Listed' \subseteq Listed
  <2>1. order \in Seq(Listed) /\ Listed \subseteq ToolTask
    BY RangeOfSeq DEF ToolInv, ToolTyped, Listed, Range
  <2>2. Only(order, ToolTask \ {t}) \in Seq(Listed \cap (ToolTask \ {t}))
    BY <2>1, OnlyRows
  <2>3. order' \in Seq(Listed)
    BY <2>2, SeqMonotonic DEF DeleteTask
  <2>4. QED
    BY <2>1, <2>3, SeqMonotonic, RangeOfSeq DEF Listed
<1>2. "deleted" \in ToolStatus \ {"absent"} /\ "deleted" \in Closed /\ "deleted" \in Done
  BY DEF ToolStatus, Status, Closed, Done
<1>3. Put(t, "deleted") /\ visit' = StaleVisits(visit) /\ UNCHANGED <<plan, never, astray>>
  BY DEF DeleteTask
<1>4. QED
  BY <1>0, <1>1, <1>2, <1>3, RowMoves

\* What explain calls hopeless is closed: it was created before what waits for it.
LEMMA ExplainKeeps ==
    ASSUME ToolInv, NEW c \in Client, Explain(c) PROVE ToolInv'
<1> DEFINE told == {d \in UNION {Needs[t] : t \in visit[c].seen} : Hopeless(d)}
<1>1. visit[c] \in Visit /\ visit[c].tool = "explain" /\ \A t \in visit[c].seen : Created(t)
  BY DEF Explain, ToolInv, ToolTyped, VisitGood
<1>2. ASSUME NEW d \in told PROVE d \in ToolTask /\ tasks[d].status \in Closed
  <2>1. PICK t \in visit[c].seen : d \in Needs[t]
    OBVIOUS
  <2>2. t \in ToolTask /\ Needs[t] \subseteq ToolTask /\ Created(t)
    BY <1>1, ToolConstants DEF Visit
  <2>3. Created(d) /\ Hopeless(d)
    BY <2>1, <2>2 DEF ToolInv
  <2>4. QED
    BY <2>1, <2>2, <2>3 DEF Created, Hopeless, Closed
<1>3. never' = never \cup told
  BY DEF Explain
<1> HIDE DEF told
<1>4. never' \subseteq ToolTask /\ \A d \in never' \ astray' : tasks'[d].status \in Closed
  BY <1>2, <1>3 DEF ToolInv, ToolTyped, Explain
<1>5. visit' = [visit EXCEPT ![c] = Quiet] /\ UNCHANGED <<tasks, order, plan, astray>>
  BY DEF Explain
<1>6. Candidates' = Candidates /\ Listed' = Listed /\ \A t : Created(t)' = Created(t)
  BY <1>5 DEF Candidates, Unfinished, Waits, Active, Created, Listed
<1>7. visit' \in [Client -> Visit] /\ visit'[c] = Quiet /\ \A e \in Client \ {c} : visit'[e] = visit[e]
  BY <1>5, QuietTyped DEF ToolInv, ToolTyped
<1>8. ASSUME NEW e \in Client PROVE VisitGood(e)' /\ PlanGood(e)'
  <2>1. CASE e = c
    <3>1. PlanGood(c) /\ plan'[c] = plan[c] /\ "explain" \notin Sweeping
      BY <1>5 DEF ToolInv, Sweeping
    <3>2. PlanGood(c)'
      BY <1>1, <1>6, <3>1 DEF PlanGood
    <3>3. VisitGood(c)'
      BY <1>7, QuietTyped DEF VisitGood, EnqueueGood, PagesGood, SweptGood, Sweeping
    <3>4. QED
      BY <2>1, <3>2, <3>3
  <2>2. CASE e # c
    <3>1. VisitGood(e) /\ PlanGood(e) /\ visit'[e] = visit[e] /\ plan'[e] = plan[e]
      BY <1>5, <1>7, <2>2 DEF ToolInv
    <3>2. PlanGood(e)' /\ SweptGood(e)'
      BY <1>5, <1>6, <3>1 DEF VisitGood, SweptGood, PlanGood
    <3>3. QED
      BY <1>6, <3>1, <3>2 DEF VisitGood, EnqueueGood, PagesGood
  <2>3. QED
    BY <2>1, <2>2
<1>9. Apart'
  <2>1. ASSUME NEW e \in Client, visit'[e].tool = "enqueue" PROVE visit'[e] = visit[e]
    BY <1>7, <2>1, QuietTyped
  <2>2. QED
    BY <2>1 DEF ToolInv, Apart
<1>10. QED
  BY <1>4, <1>5, <1>6, <1>7, <1>8, <1>9 DEF ToolInv, ToolTyped

\* One step of one client.
LEMMA ToolStepKeeps == ASSUME ToolInv, NEW c \in Client, ToolStep(c) PROVE ToolInv'
<1>1. ASSUME NEW tool \in {"enqueue", "complete"}, NEW batch \in TaskBatches, BeginBatch(c, tool, batch) PROVE ToolInv'
  BY <1>1, BeginBatchKeeps
<1>2. CASE EnqueueNext(c)
  BY <1>2, EnqueueKeeps
<1>3. ASSUME NEW tool \in Sweeping, NEW s \in {"succeeded", "archived"}, EntryNext(c, tool, s) PROVE ToolInv'
  BY <1>3, EntryKeeps
<1>4. ASSUME NEW t \in ToolTask, BeginAccept(c, t) PROVE ToolInv'
  BY <1>4, RowsBefore, SweepBegins DEF BeginAccept
<1>5. CASE BeginArchive(c)
  BY <1>5, SweepBegins DEF BeginArchive, ToolInv, ToolTyped
<1>6. CASE Writes(c)
  BY <1>6, WritesKeeps
<1>7. ASSUME NEW t \in ToolTask, NEW s \in Status, Claims(c, t) \/ Recovers(c, t, s) PROVE ToolInv'
  BY <1>7, ClaimsKeeps
<1>8. ASSUME NEW t \in ToolTask, NEW s, Settles(c, t, s) \/ CloseTask(c, t, s) PROVE ToolInv'
  BY <1>8, MarkKeeps
<1>9. ASSUME NEW t \in ToolTask, DeleteTask(c, t) PROVE ToolInv'
  BY <1>9, DeleteKeeps
<1>10. CASE ReadVisible(c)
  BY <1>10, ReadVisibleKeeps
<1>11. CASE Explain(c)
  BY <1>11, ExplainKeeps
<1>12. CASE ReadCapsule(c)
  BY <1>12, CapsuleKeeps
<1>13. CASE CloseCapsule(c)
  <2>1. visit[c].tool \notin Sweeping
    BY <1>13 DEF CloseCapsule, Sweeping
  <2>2. QED
    BY <1>13, <2>1, QuietKeeps DEF CloseCapsule
<1>14. {"complete", "accept", "archive"} = Sweeping /\ "pending" \in Status
  BY DEF Sweeping, Status
<1>15. QED
  BY <1>1, <1>2, <1>3, <1>4, <1>5, <1>6, <1>7, <1>8, <1>9, <1>10, <1>11, <1>12, <1>13, <1>14 DEF ToolStep

\* No row, and no call.
LEMMA ToolStarts == ASSUME ToolInit PROVE ToolInv
<1>1. tasks \in [ToolTask -> TaskRow] /\ \A t \in ToolTask : ~Created(t) /\ tasks[t].status \notin Closed
  BY DEF ToolInit, TaskRow, ToolStatus, Status, Created, Closed
<1>2. order \in Seq(ToolTask) /\ Listed = {} /\ never = {} /\ astray = {}
  BY DEF ToolInit, Listed, Range
<1>3. visit \in [Client -> Visit] /\ \A c \in Client : visit[c] = Quiet
  BY QuietTyped DEF ToolInit
<1>4. /\ \A c \in Client : VisitGood(c) /\ PlanGood(c)
      /\ plan \in [Client -> Plan \cup {NoPlan}]
  BY <1>3, QuietTyped DEF VisitGood, EnqueueGood, PagesGood, SweptGood, Sweeping, PlanGood, ToolInit
<1>5. Apart
  BY <1>3, QuietTyped DEF Apart
<1>6. QED
  BY <1>1, <1>2, <1>3, <1>4, <1>5 DEF ToolInv, ToolTyped

\* The categories follow the guards of the claim.
LEMMA ReadyWhenClaimable ==
    ASSUME ToolInv, NEW t \in ToolTask, InView(t) PROVE (Category(t) = "ready") = ClaimableNow(t)
<1>1. tasks[t].due \in BOOLEAN /\ tasks[t].status \in ToolStatus
  BY DEF ToolInv, ToolTyped, TaskRow
<1>2. tasks[t].status # "ready"
  BY <1>1 DEF ToolStatus, Status
<1> DEFINE waiting == \E d \in Needs[t] : tasks[d].status # "succeeded"
<1>3. CASE tasks[t].status # "pending"
  BY <1>2, <1>3 DEF Category, ClaimableNow
<1>4. CASE tasks[t].status = "pending" /\ waiting
  BY <1>4 DEF Category, ClaimableNow
<1>5. CASE tasks[t].status = "pending" /\ ~waiting
  BY <1>1, <1>5 DEF Category, ClaimableNow
<1>6. QED
  BY <1>3, <1>4, <1>5

\* The invariant has what is told.
LEMMA ToldFromInvariant == ASSUME ToolInv PROVE QueueAsTold
<1>1. ReadyIsClaimable
  BY ReadyWhenClaimable DEF ReadyIsClaimable
<1>2. NeverMeansNever
  BY DEF ToolInv, NeverMeansNever, Closed
<1>3. PagesCoverReady
  <2>1. ASSUME NEW c \in Client, visit[c].tool = "read", visit[c].fresh PROVE Range(Candidates) \subseteq visit[c].seen
    <3>1. Candidates \in Seq(ToolTask) /\ PagesGood(c) /\ visit[c].offset \in Nat
      BY CandidateRows DEF ToolInv, ToolTyped, VisitGood, Visit
    <3>2. \A i \in 1..Len(Candidates) : Candidates[i] \in visit[c].seen
      BY <2>1, <3>1 DEF PagesGood
    <3>3. QED
      BY <3>1, <3>2, RangeEquality
  <2>2. QED
    BY <2>1 DEF PagesCoverReady
<1>4. DoneAsTold
  BY DEF ToolInv, VisitGood, SweptGood, DoneAsTold, Done
<1>5. QED
  BY <1>1, <1>2, <1>3, <1>4 DEF QueueAsTold

\* What the tools say of the queue is so, for any set of tasks, clients and batches and
\* any writes by id that come late: what explain calls ready a claim would hand out, what
\* it said will never succeed does not and what a sweep has told of is done, unless
\* such a write has hit it, and a reader of all pages of a table that did not change has seen
\* every task that can be worked on.
THEOREM ToolsTellTheQueue == ToolSpec => []QueueAsTold
<1>1. ASSUME ToolInv, [ToolNext]_toolVars PROVE ToolInv'
  <2>1. CASE \E c \in Client : ToolStep(c)
    BY <1>1, <2>1, ToolStepKeeps
  <2>2. ASSUME NEW t \in ToolTask, ComesDue(t) PROVE ToolInv'
    BY <1>1, <2>2, ComesDueKeeps
  <2>3. CASE UNCHANGED toolVars
    BY <1>1, <2>3, ToolStutters
  <2>4. QED
    BY <1>1, <2>1, <2>2, <2>3 DEF ToolNext
<1>2. QED
  BY <1>1, ToolStarts, ToldFromInvariant, PTL DEF ToolSpec

\* The one client there is.
Alone == \A c, e \in Client : c = e

\* What a process has validated under its lock is still valid when it writes.
StillValid == \A c \in Client : plan[c] # NoPlan => May(plan[c].task, plan[c].status)
AloneInv == Alone => astray = {} /\ StillValid

\* Who moves a row or validates a write has the lock, and leaves no write behind, unless
\* it is the one it validated.
LEMMA AloneStep == ASSUME ToolInv, AloneInv, [ToolNext]_toolVars PROVE AloneInv'
<1> SUFFICES ASSUME Alone PROVE astray' = {} /\ StillValid'
  BY DEF AloneInv
<1>0. astray = {} /\ StillValid
      /\ plan \in [Client -> Plan \cup {NoPlan}] /\ tasks \in [ToolTask -> TaskRow]
  BY DEF AloneInv, ToolInv, ToolTyped
<1>1. ASSUME \A t : tasks'[t].status = tasks[t].status, UNCHANGED <<plan, astray>>
      PROVE  astray' = {} /\ StillValid'
  BY <1>0, <1>1 DEF May, StillValid
<1>2. ASSUME NEW c \in Client, LockFree(c), UNCHANGED <<plan, astray>>
      PROVE  astray' = {} /\ StillValid'
  BY <1>0, <1>2 DEF LockFree, Alone, StillValid
<1>3. ASSUME NEW c \in Client, NEW t, NEW s, NEW entry, Validates(c, t, s, entry), UNCHANGED <<tasks, astray>>
      PROVE  astray' = {} /\ StillValid'
  <2>1. \A e \in Client : e = c
    BY DEF Alone
  <2>2. plan'[c] = [task |-> t, status |-> s, entry |-> entry] /\ May(t, s)
    BY <1>0, <1>3 DEF Validates
  <2>3. plan'[c].task = t /\ plan'[c].status = s
    BY <2>2
  <2>4. QED
    BY <1>0, <1>3, <2>1, <2>2, <2>3 DEF May, StillValid
<1>4. ASSUME NEW c \in Client, Writes(c)
      PROVE  astray' = {} /\ StillValid'
  <2>1. plan[c] # NoPlan /\ May(plan[c].task, plan[c].status)
    BY <1>0, <1>4 DEF Writes, StillValid
  <2>2. astray' = {}
    BY <1>0, <1>4, <2>1 DEF Writes
  <2>3. \A e \in Client : plan'[e] = NoPlan
    BY <1>0, <1>4 DEF Alone, Writes
  <2>4. QED
    BY <2>2, <2>3 DEF StillValid
<1>5. ASSUME NEW t \in ToolTask, ComesDue(t)
      PROVE  astray' = {} /\ StillValid'
  <2>1. tasks' = [tasks EXCEPT ![t].due = TRUE] /\ UNCHANGED <<plan, astray>>
    BY <1>5 DEF ComesDue
  <2>2. \A u \in ToolTask : tasks'[u].status = tasks[u].status
    BY <1>0, <2>1 DEF TaskRow
  <2>3. \A c \in Client : plan[c] # NoPlan => plan[c].task \in ToolTask
    BY <1>0 DEF Plan
  <2>4. QED
    BY <1>0, <2>1, <2>2, <2>3 DEF May, StillValid
<1>6. ASSUME NEW c \in Client, ToolStep(c)
      PROVE  astray' = {} /\ StillValid'
  <2>1. ASSUME NEW tool, NEW batch, BeginBatch(c, tool, batch) PROVE LockFree(c) /\ UNCHANGED <<plan, astray>>
    BY <2>1 DEF BeginBatch, Idle
  <2>2. ASSUME EnqueueNext(c) PROVE LockFree(c) /\ UNCHANGED <<plan, astray>>
    BY <2>2 DEF EnqueueNext
  <2>3. ASSUME NEW tool, NEW s, EntryNext(c, tool, s)
        PROVE  astray' = {} /\ StillValid'
    <3>1. CASE \E t : Validates(c, t, s, TRUE)
      BY <1>3, <2>3, <3>1 DEF EntryNext
    <3>2. CASE UNCHANGED plan
      BY <1>2, <2>3, <3>2 DEF EntryNext
    <3>3. QED
      BY <2>3, <3>1, <3>2 DEF EntryNext
  <2>4. ASSUME (\E t \in ToolTask : BeginAccept(c, t)) \/ BeginArchive(c) PROVE LockFree(c) /\ UNCHANGED <<plan, astray>>
    BY <2>4 DEF BeginAccept, BeginArchive, BeginSweep, Idle
  <2>5. ASSUME NEW t \in ToolTask, NEW s \in Status, Claims(c, t) \/ Recovers(c, t, s)
        PROVE  LockFree(c) /\ UNCHANGED <<plan, astray>>
    BY <2>5 DEF Claims, Recovers
  <2>6. ASSUME NEW t \in ToolTask, NEW s, Settles(c, t, s) \/ CloseTask(c, t, s)
        PROVE  Validates(c, t, s, FALSE) /\ UNCHANGED <<tasks, astray>>
    BY <2>6 DEF Settles, CloseTask
  <2>7. ASSUME (\E t \in ToolTask : DeleteTask(c, t)) \/ ReadVisible(c) \/ ReadCapsule(c)
        PROVE  LockFree(c) /\ UNCHANGED <<plan, astray>>
    BY <2>7 DEF DeleteTask, ReadVisible, ReadCapsule, Idle
  <2>8. ASSUME Explain(c) \/ CloseCapsule(c) PROVE UNCHANGED <<tasks, plan, astray>>
    BY <2>8 DEF Explain, CloseCapsule
  <2>9. "pending" \in Status
    BY DEF Status
  <2>10. QED
    BY <1>1, <1>2, <1>3, <1>4, <1>6, <2>1, <2>2, <2>3, <2>4, <2>5, <2>6, <2>7, <2>8, <2>9 DEF ToolStep
<1>7. CASE UNCHANGED toolVars
  BY <1>1, <1>7 DEF toolVars
<1>8. QED
  BY <1>5, <1>6, <1>7 DEF ToolNext

\* A process that has the database for itself sends no write astray, however its threads,
\* sweeps and tools interleave: what explain says will never succeed and what a sweep has told
\* of are then so without exception.
THEOREM NothingAstrayAlone == ToolSpec => []AloneNothingAstray
<1>1. ASSUME ToolInv, [ToolNext]_toolVars PROVE ToolInv'
  BY <1>1, ToolStepKeeps, ComesDueKeeps, ToolStutters DEF ToolNext
<1>2. ASSUME ToolInit PROVE AloneInv
  BY <1>2 DEF ToolInit, AloneInv, StillValid
<1>3. ASSUME AloneInv PROVE AloneNothingAstray
  BY <1>3 DEF AloneInv, Alone, AloneNothingAstray
<1>4. QED
  BY <1>1, <1>2, <1>3, ToolStarts, AloneStep, PTL DEF ToolSpec

-----------------------------------------------------------------------------
(* HostSetup, for any files, installers and deaths. *)

\* A file has at most one managed entry.
AtMostOne(S) == S = {} \/ \E v : S = {v}

\* The steps of an installer that has a file in hand.
FileCalls == {"lock", "break", "read", "write", "rest", "unlock"}

\* What an installer is about to write has the entries of the file's user, unless the
\* file is loose or the call starts from nothing; an owned file is the adapter, or removed.
Planned(w) ==
    w.op \in {"write", "rest"} =>
        /\ AtMostOne(w.new.managed)
        /\ w.new = [state |-> w.new.state, user |-> w.new.user, managed |-> w.new.managed]
        /\ Kind[w.config] # "owned" =>
              w.new.state = "good" /\ (w.config \in loose \/ w.gave = TRUE \/ w.new.user = own[w.config])
        /\ Kind[w.config] = "owned" => w.new.state = "absent" \/ w.new.managed # {}

\* Only a server file is written in two steps, or from nothing.
Carries(w) ==
    /\ w.op \in FileCalls =>
        /\ w = [op |-> w.op, config |-> w.config, what |-> w.what, version |-> w.version,
                force |-> w.force, gave |-> w.gave, new |-> w.new]
        /\ w.config \in Config
        /\ w.force => Kind[w.config] = "mcp"
    /\ w.op = "rest" => ~Hooks(w.config)
    /\ w.op \in {"write", "rest"} /\ Kind[w.config] = "merged" => w.gave = FALSE

JobInv(i) == Carries(job[i]) /\ Planned(job[i])

\* A file has its one adapter and, unless it is loose, what its user put there.
FileInv(x) ==
    LET c == configs[x] IN
    /\ c = [state |-> c.state, user |-> c.user, managed |-> c.managed]
    /\ AtMostOne(c.managed)
    /\ x \notin loose /\ Kind[x] # "owned" /\ c.state # "bad" => c.user = own[x]
    /\ x \notin loose /\ Kind[x] = "owned" /\ c.state # "absent" /\ c.managed = {} => c.user = own[x]

\* The inductive invariant.
SetupInv ==
    /\ configs = [x \in Config |-> configs[x]]
    /\ own = [x \in Config |-> own[x]]
    /\ job = [i \in Installer |-> job[i]]
    /\ \A x \in Config : FileInv(x)
    /\ \A i \in Installer : JobInv(i)

\* A step of an installer that writes no file.
LEMMA JobGoesOn ==
    ASSUME SetupInv, NEW i \in Installer, NEW w, job' = [job EXCEPT ![i] = w],
           UNCHANGED <<configs, own, loose>>, Carries(w), Planned(w)
    PROVE  SetupInv'
<1>1. job'[i] = w /\ (\A k \in Installer \ {i} : job'[k] = job[k]) /\ job' = [k \in Installer |-> job'[k]]
  BY DEF SetupInv
<1>2. JobInv(i)'
  BY <1>1 DEF JobInv, Carries, Planned
<1>3. \A k \in Installer \ {i} : JobInv(k)'
  BY <1>1 DEF SetupInv, JobInv, Carries, Planned
<1>4. \A x \in Config : FileInv(x)'
  BY DEF SetupInv, FileInv
<1>5. QED
  BY <1>1, <1>2, <1>3, <1>4 DEF SetupInv

\* A call that moves on without reading, or ends.
LEMMA JobMoves ==
    ASSUME SetupInv, NEW i \in Installer, UNCHANGED <<configs, own, loose>>,
           \/ job' = [job EXCEPT ![i] = Jobless]
           \/ job[i].op \in FileCalls /\ \E op \in {"lock", "break", "read", "unlock"} : Goes(i, op)
    PROVE  SetupInv'
<1>1. CASE job' = [job EXCEPT ![i] = Jobless]
  <2>1. Jobless.op = "none"
    BY DEF Jobless
  <2>2. QED
    BY <1>1, <2>1, JobGoesOn DEF FileCalls, Carries, Planned
<1>2. ASSUME job[i].op \in FileCalls, NEW op \in {"lock", "break", "read", "unlock"}, Goes(i, op) PROVE SetupInv'
  <2> DEFINE w == [job[i] EXCEPT !.op = op]
  <2>1. /\ job[i] = [op |-> job[i].op, config |-> job[i].config, what |-> job[i].what, version |-> job[i].version,
                     force |-> job[i].force, gave |-> job[i].gave, new |-> job[i].new]
        /\ job[i].config \in Config
        /\ job[i].force => Kind[job[i].config] = "mcp"
    BY <1>2 DEF SetupInv, JobInv, Carries
  <2>2. /\ w.op = op /\ w.config = job[i].config /\ w.force = job[i].force
        /\ w = [op |-> w.op, config |-> w.config, what |-> w.what, version |-> w.version,
                force |-> w.force, gave |-> w.gave, new |-> w.new]
    BY <2>1
  <2>3. job' = [job EXCEPT ![i] = w]
    BY <1>2 DEF Goes
  <2> HIDE DEF w
  <2>4. Carries(w) /\ Planned(w)
    BY <2>1, <2>2 DEF Carries, Planned
  <2>5. QED
    BY <2>3, <2>4, JobGoesOn
<1>3. QED
  BY <1>1, <1>2

\* A file is written: what is there then is fine, and what other installers are
\* about to write stays as good as it was.
LEMMA FileWritten ==
    ASSUME SetupInv, NEW i \in Installer, NEW x, NEW c, NEW op \in {"rest", "unlock"},
           job[i].op \in {"write", "rest"}, x = job[i].config, Goes(i, op),
           configs' = [configs EXCEPT ![x] = c], own' = own,
           loose' \in {loose, loose \cup {x}},
           op = "rest" => ~Hooks(x),
           c = [state |-> c.state, user |-> c.user, managed |-> c.managed],
           AtMostOne(c.managed),
           x \notin loose' /\ Kind[x] # "owned" /\ c.state # "bad" => c.user = own[x],
           Kind[x] = "owned" => c.state = "absent" \/ c.managed # {}
    PROVE  SetupInv'
<1> DEFINE w == [job[i] EXCEPT !.op = op]
<1>1. /\ job[i] = [op |-> job[i].op, config |-> x, what |-> job[i].what, version |-> job[i].version,
                   force |-> job[i].force, gave |-> job[i].gave, new |-> job[i].new]
      /\ x \in Config
      /\ job[i].force => Kind[x] = "mcp"
      /\ Kind[x] = "merged" => job[i].gave = FALSE
  BY DEF SetupInv, JobInv, Carries, FileCalls
<1>2. /\ w.op = op /\ w.config = x /\ w.force = job[i].force /\ w.gave = job[i].gave /\ w.new = job[i].new
      /\ w = [op |-> w.op, config |-> w.config, what |-> w.what, version |-> w.version,
              force |-> w.force, gave |-> w.gave, new |-> w.new]
  BY <1>1
<1>3. /\ job'[i] = w /\ (\A k \in Installer \ {i} : job'[k] = job[k]) /\ job' = [k \in Installer |-> job'[k]]
      /\ configs' = [y \in Config |-> configs'[y]] /\ own' = [y \in Config |-> own'[y]]
  BY DEF SetupInv, Goes
<1>4. /\ configs'[x] = c
      /\ \A y \in Config \ {x} : configs'[y] = configs[y] /\ (y \in loose' <=> y \in loose)
  BY <1>1 DEF SetupInv
<1>5. loose \subseteq loose'
  OBVIOUS
<1>6. JobInv(i)'
  <2>1. Planned(job[i])
    BY DEF SetupInv, JobInv
  <2>2. /\ AtMostOne(w.new.managed)
        /\ w.new = [state |-> w.new.state, user |-> w.new.user, managed |-> w.new.managed]
        /\ Kind[w.config] # "owned" =>
              w.new.state = "good" /\ (w.config \in loose' \/ w.gave = TRUE \/ w.new.user = own'[w.config])
        /\ Kind[w.config] = "owned" => w.new.state = "absent" \/ w.new.managed # {}
    BY <1>2, <1>5, <2>1 DEF Planned
  <2> HIDE DEF w
  <2>3. Planned(job[i])'
    BY <1>3, <2>2 DEF Planned
  <2>4. Carries(w)
    BY <1>1, <1>2 DEF Carries
  <2>5. Carries(job[i])'
    BY <1>3, <2>4 DEF Carries
  <2>6. QED
    BY <2>3, <2>5 DEF JobInv
<1> HIDE DEF w
<1>7. ASSUME NEW k \in Installer \ {i} PROVE JobInv(k)'
  <2>1. JobInv(k) /\ job'[k] = job[k]
    BY <1>3 DEF SetupInv
  <2>2. QED
    BY <1>5, <2>1 DEF JobInv, Carries, Planned
<1>8. FileInv(x)'
  BY <1>4 DEF FileInv
<1>9. ASSUME NEW y \in Config \ {x} PROVE FileInv(y)'
  BY <1>4 DEF SetupInv, FileInv
<1>10. QED
  BY <1>3, <1>6, <1>7, <1>8, <1>9 DEF SetupInv

\* One step of one installer.
LEMMA InstallKeeps == ASSUME SetupInv, NEW i \in Installer, InstallStep(i) PROVE SetupInv'
<1> DEFINE w == job[i]
<1>0. JobInv(i) /\ Carries(w) /\ Planned(w)
  BY DEF SetupInv, JobInv
<1>1. ASSUME NEW x \in Config, NEW what, NEW v, NEW force, Begins(i, x, what, v, force), force => Kind[x] = "mcp"
      PROVE  SetupInv'
  <2> DEFINE n == [op |-> IF Hooks(x) THEN "lock" ELSE "read", config |-> x, what |-> what,
                   version |-> v, force |-> force, gave |-> FALSE, new |-> Missing]
  <2>1. job' = [job EXCEPT ![i] = n] /\ UNCHANGED <<configs, own, loose>>
    BY <1>1 DEF Begins
  <2>2. /\ n = [op |-> n.op, config |-> n.config, what |-> n.what, version |-> n.version,
                force |-> n.force, gave |-> n.gave, new |-> n.new]
        /\ n.config = x /\ n.force = force /\ n.op \in {"lock", "read"}
    OBVIOUS
  <2> HIDE DEF n
  <2>3. Carries(n) /\ Planned(n)
    BY <1>1, <2>2 DEF Carries, Planned
  <2>4. QED
    BY <2>1, <2>3, JobGoesOn
<1>2. CASE TakeLock(i) \/ FindOld(i) \/ BreakLock(i) \/ GiveUp(i) \/ Unlock(i) \/ Killed(i)
  BY <1>2, JobMoves DEF TakeLock, FindOld, BreakLock, GiveUp, Unlock, Killed, At, Returns, FileCalls
<1>3. CASE ReadConfig(i)
  <2> DEFINE x == w.config
             gave == configs[x].state \in Unfit
             c == IF gave THEN Missing ELSE configs[x]
             m == Merged(w, c)
             n == [[[w EXCEPT !.op = "write"] EXCEPT !.gave = gave] EXCEPT !.new = m]
  <2>1. w.op = "read" /\ UNCHANGED <<configs, own, loose>>
    BY <1>3 DEF ReadConfig, At
  <2>2. CASE Goes(i, "unlock")
    BY <2>1, <2>2, JobMoves DEF FileCalls
  <2>3. CASE ~Goes(i, "unlock")
    <3>1. job' = [job EXCEPT ![i].op = "write", ![i].gave = gave, ![i].new = m] /\ ~Refuses(w, configs[x])
      BY <1>3, <2>3 DEF ReadConfig
    <3>2. /\ w = [op |-> w.op, config |-> x, what |-> w.what, version |-> w.version,
                  force |-> w.force, gave |-> w.gave, new |-> w.new]
          /\ x \in Config /\ (w.force => Kind[x] = "mcp")
      BY <1>0, <2>1 DEF Carries, FileCalls
    <3>3. AtMostOne(m.managed)
      BY DEF AtMostOne, Merged, Missing, Stripped
    <3>4. m = [state |-> m.state, user |-> m.user, managed |-> m.managed]
      BY DEF Merged, Missing
    <3>5. Kind[x] # "owned" => m.state = "good" /\ (x \in loose \/ gave = TRUE \/ m.user = own[x])
      <4>1. Kind[x] # "owned" /\ ~gave /\ x \notin loose => c.user = configs[x].user /\ configs[x].user = own[x]
        BY <3>2 DEF SetupInv, FileInv, Unfit
      <4>2. Kind[x] # "owned" => m.state = "good" /\ m.user = c.user
        BY DEF Merged
      <4> HIDE DEF m, c
      <4>3. QED
        BY <4>1, <4>2
    <3>6. Kind[x] = "owned" => m.state = "absent" \/ m.managed # {}
      BY DEF Merged, Missing
    <3>7. Kind[x] = "merged" => gave = FALSE
      <4>1. SetupConstants!2
        BY SetupConstants
      <4>2. Kind[x] = "merged" => ~w.force
        BY <3>2
      <4>3. QED
        BY <3>1, <4>2 DEF Refuses, Unfit
    <3> HIDE DEF m, gave
    <3>8. job' = [job EXCEPT ![i] = n]
      BY <3>1 DEF SetupInv
    <3>9. n = [op |-> "write", config |-> x, what |-> w.what, version |-> w.version,
               force |-> w.force, gave |-> gave, new |-> m]
      <4> DEFINE r1 == [op |-> w.op, config |-> x, what |-> w.what, version |-> w.version,
                        force |-> w.force, gave |-> w.gave, new |-> w.new]
                 r2 == [op |-> "write", config |-> x, what |-> w.what, version |-> w.version,
                        force |-> w.force, gave |-> w.gave, new |-> w.new]
                 r3 == [op |-> "write", config |-> x, what |-> w.what, version |-> w.version,
                        force |-> w.force, gave |-> gave, new |-> w.new]
      <4>1. [r1 EXCEPT !.op = "write"] = r2
        OBVIOUS
      <4>2. [r2 EXCEPT !.gave = gave] = r3
        OBVIOUS
      <4>3. [r3 EXCEPT !.new = m]
               = [op |-> "write", config |-> x, what |-> w.what, version |-> w.version,
                  force |-> w.force, gave |-> gave, new |-> m]
        OBVIOUS
      <4>4. n = [[[r1 EXCEPT !.op = "write"] EXCEPT !.gave = gave] EXCEPT !.new = m]
        BY <3>2
      <4> HIDE DEF r1, r2, r3
      <4>5. QED
        BY <4>1, <4>2, <4>3, <4>4
    <3> HIDE DEF n
    <3>10. /\ n.op = "write" /\ n.config = x /\ n.force = w.force /\ n.gave = gave /\ n.new = m
           /\ n = [op |-> n.op, config |-> n.config, what |-> n.what, version |-> n.version,
                   force |-> n.force, gave |-> n.gave, new |-> n.new]
      BY <3>9
    <3>11. Carries(n)
      BY <3>2, <3>7, <3>10 DEF Carries
    <3>12. Planned(n)
      BY <3>3, <3>4, <3>5, <3>6, <3>10 DEF Planned
    <3>13. QED
      BY <2>1, <3>8, <3>11, <3>12, JobGoesOn
  <2>4. QED
    BY <2>2, <2>3
<1>4. CASE WriteConfig(i)
  <2>1. w.op = "write" /\ UNCHANGED <<own, loose>> /\ w.config \in Config
    BY <1>0, <1>4 DEF WriteConfig, At, Carries, FileCalls
  <2>2. CASE Hooks(w.config)
    <3>1. configs' = [configs EXCEPT ![w.config] = w.new] /\ Goes(i, "unlock")
      BY <1>4, <2>2 DEF WriteConfig
    <3>2. Kind[w.config] # "owned" => w.gave = FALSE
      BY <1>0, <2>1, <2>2 DEF Carries, Hooks
    <3>3. /\ AtMostOne(w.new.managed)
          /\ w.new = [state |-> w.new.state, user |-> w.new.user, managed |-> w.new.managed]
          /\ Kind[w.config] # "owned" => w.config \in loose \/ w.new.user = own[w.config]
          /\ Kind[w.config] = "owned" => w.new.state = "absent" \/ w.new.managed # {}
      BY <1>0, <2>1, <3>2 DEF Planned
    <3>4. QED
      BY <2>1, <2>2, <3>1, <3>3, FileWritten
  <2>3. CASE ~Hooks(w.config)
    <3> DEFINE c == [Missing EXCEPT !.state = "bad"]
    <3>1. configs' = [configs EXCEPT ![w.config] = c] /\ Goes(i, "rest")
      BY <1>4, <2>3 DEF WriteConfig
    <3>2. c = [state |-> c.state, user |-> c.user, managed |-> c.managed] /\ c.state = "bad" /\ c.managed = {}
      BY DEF Missing
    <3>3. Kind[w.config] # "owned"
      BY <2>3 DEF Hooks
    <3> HIDE DEF c
    <3>4. QED
      BY <2>1, <2>3, <3>1, <3>2, <3>3, FileWritten DEF AtMostOne
  <2>4. QED
    BY <2>2, <2>3
<1>5. CASE WriteRest(i)
  <2>1. /\ w.op = "rest" /\ w.config \in Config /\ Goes(i, "unlock") /\ ~Hooks(w.config) /\ own' = own
        /\ configs' = [configs EXCEPT ![w.config] = w.new]
        /\ loose' = loose \cup (IF w.gave THEN {w.config} ELSE {})
    BY <1>0, <1>5 DEF WriteRest, At, Carries, FileCalls
  <2>2. /\ AtMostOne(w.new.managed) /\ Kind[w.config] # "owned"
        /\ w.new = [state |-> w.new.state, user |-> w.new.user, managed |-> w.new.managed]
        /\ w.config \in loose \/ w.gave = TRUE \/ w.new.user = own[w.config]
    BY <1>0, <2>1 DEF Planned, Hooks
  <2>3. loose' \in {loose, loose \cup {w.config}} /\ (w.gave = TRUE => w.config \in loose')
    BY <2>1
  <2>4. QED
    BY <2>1, <2>2, <2>3, FileWritten
<1>6. ASSUME NEW v, NEW what, CheckMcp(i, v, what) PROVE SetupInv'
  <2> DEFINE n == [op |-> IF mcp = {} THEN "add" ELSE "drop", version |-> v, what |-> what]
  <2>1. job' = [job EXCEPT ![i] = n] /\ UNCHANGED <<configs, own, loose>>
    BY <1>6 DEF CheckMcp
  <2>2. n.op \notin FileCalls
    BY DEF FileCalls
  <2> HIDE DEF n
  <2>3. Carries(n) /\ Planned(n)
    BY <2>2 DEF FileCalls, Carries, Planned
  <2>4. QED
    BY <2>1, <2>3, JobGoesOn
<1>7. CASE DropMcp(i) \/ AddMcp(i)
  <2>1. CASE Returns(i)
    BY <1>7, <2>1, JobMoves DEF DropMcp, AddMcp, Returns
  <2>2. CASE ~Returns(i)
    <3> DEFINE n == [job[i] EXCEPT !.op = "add"]
    <3>1. job' = [job EXCEPT ![i] = n] /\ UNCHANGED <<configs, own, loose>>
      BY <1>7, <2>2 DEF DropMcp, AddMcp, Goes
    <3>2. n.op = "add" \/ n.op = w.op
      OBVIOUS
    <3>3. w.op = "drop"
      BY <1>7, <2>2 DEF DropMcp, AddMcp, At
    <3> HIDE DEF n
    <3>4. Carries(n) /\ Planned(n)
      BY <3>2, <3>3 DEF FileCalls, Carries, Planned
    <3>5. QED
      BY <3>1, <3>4, JobGoesOn
  <2>3. QED
    BY <2>1, <2>2
<1>8. QED
  BY <1>1, <1>2, <1>3, <1>4, <1>5, <1>6, <1>7 DEF InstallStep, ConfigureHost, InstallMcp, BootstrapFirstCall

\* A user edits a file: what a call has in hand then makes it loose.
LEMMA EditKeeps == ASSUME SetupInv, NEW x \in Config, NEW c, UserWrites(x, c),
                          c = [state |-> c.state, user |-> c.user, managed |-> c.managed], AtMostOne(c.managed)
                   PROVE  SetupInv'
<1>1. /\ configs' = [configs EXCEPT ![x] = c] /\ own' = [own EXCEPT ![x] = c.user] /\ job' = job
      /\ loose' = IF InHand(x) THEN loose \cup {x} ELSE loose \ {x}
  BY DEF UserWrites
<1>2. /\ configs'[x] = c /\ own'[x] = c.user
      /\ \A y \in Config \ {x} : configs'[y] = configs[y] /\ own'[y] = own[y] /\ (y \in loose' <=> y \in loose)
      /\ configs' = [y \in Config |-> configs'[y]] /\ own' = [y \in Config |-> own'[y]]
  BY <1>1 DEF SetupInv
<1>3. FileInv(x)' /\ \A y \in Config \ {x} : FileInv(y)'
  BY <1>2 DEF SetupInv, FileInv
<1>4. ASSUME NEW i \in Installer PROVE JobInv(i)'
  <2>1. JobInv(i) /\ job'[i] = job[i]
    BY <1>1 DEF SetupInv
  <2>2. Carries(job[i])'
    BY <2>1 DEF JobInv, Carries
  <2>3. job[i].op \in {"write", "rest"} => job[i].config \in Config
    BY <2>1 DEF JobInv, Carries, FileCalls
  <2>4. job[i].op \in {"write", "rest"} /\ job[i].config = x => x \in loose'
    BY <1>1 DEF InHand
  <2>5. Planned(job[i])'
    BY <1>2, <2>1, <2>3, <2>4 DEF JobInv, Planned
  <2>6. QED
    BY <2>2, <2>5 DEF JobInv
<1>5. job' = [i \in Installer |-> job'[i]]
  BY <1>1 DEF SetupInv
<1>6. QED
  BY <1>2, <1>3, <1>4, <1>5 DEF SetupInv

\* And with locks that age, and stuttering.
LEMMA SetupStep == ASSUME SetupInv, [SetupNext]_setupVars PROVE SetupInv'
<1>1. ASSUME UNCHANGED <<configs, own, loose, job>> PROVE SetupInv'
  BY <1>1 DEF SetupInv, JobInv, FileInv, Carries, Planned
<1>2. ASSUME NEW x \in Config, UserEdits(x) PROVE SetupInv'
  <2> DEFINE c == configs[x]
  <2>1. c = [state |-> c.state, user |-> c.user, managed |-> c.managed] /\ AtMostOne(c.managed)
    BY DEF SetupInv, FileInv
  <2>2. ASSUME NEW e, UserWrites(x, [c EXCEPT !.state = "good", !.user = @ \cup {e}]) PROVE SetupInv'
    <3> DEFINE n == [c EXCEPT !.state = "good", !.user = @ \cup {e}]
    <3>0. UserWrites(x, n)
      BY <2>2
    <3>1. n = [state |-> "good", user |-> c.user \cup {e}, managed |-> c.managed]
      <4>1. [c EXCEPT !.state = "good"] = [state |-> "good", user |-> c.user, managed |-> c.managed]
        BY <2>1
      <4>2. n = [[state |-> "good", user |-> c.user, managed |-> c.managed] EXCEPT !.user = c.user \cup {e}]
        BY <4>1
      <4>3. QED
        BY <4>2
    <3> HIDE DEF n
    <3>2. QED
      BY <2>1, <3>0, <3>1, EditKeeps
  <2>3. ASSUME NEW st, UserWrites(x, [c EXCEPT !.state = st]) PROVE SetupInv'
    <3> DEFINE n == [c EXCEPT !.state = st]
    <3>0. UserWrites(x, n)
      BY <2>3
    <3>1. n.managed = c.managed /\ n = [state |-> n.state, user |-> n.user, managed |-> n.managed]
      BY <2>1
    <3> HIDE DEF n
    <3>2. QED
      BY <2>1, <3>0, <3>1, EditKeeps
  <2>4. CASE UserWrites(x, Missing)
    BY <2>4, EditKeeps DEF Missing, AtMostOne
  <2>5. QED
    BY <1>2, <2>2, <2>3, <2>4 DEF UserEdits
<1>3. QED
  BY <1>1, <1>2, InstallKeeps DEF SetupNext, LockAges, setupVars

\* For any files, installers and deaths: whatever installers run at once, find locks
\* old and write what they have read before, a file that can be read has the entries
\* its user gave it, but for what an edit in between or a file that could not be taken
\* excuses, and it has one adapter.
THEOREM SetupMerges == SetupSpec => []ConfigsMerged
<1>1. SetupInit => SetupInv
  BY DEF SetupInit, SetupInv, JobInv, Carries, Planned, FileInv, Jobless, Missing, FileCalls, AtMostOne
<1>2. SetupInv /\ [SetupNext]_setupVars => SetupInv'
  BY SetupStep
<1>3. SetupInv => ConfigsMerged
  <2>1. \A S : AtMostOne(S) => Cardinality(S) <= 1
    BY FS_EmptySet, FS_Singleton DEF AtMostOne
  <2>2. SetupInv => OneAdapter
    BY <2>1 DEF SetupInv, FileInv, OneAdapter
  <2>3. SetupInv => UserEntriesKept
    BY SetupConstants DEF SetupInv, FileInv, UserEntriesKept
  <2>4. QED
    BY <2>2, <2>3 DEF ConfigsMerged
<1>4. QED
  BY <1>1, <1>2, <1>3, PTL DEF SetupSpec


-----------------------------------------------------------------------------
(* ExternalMemory, for any records, texts and limits, whatever the adapter does. *)

\* The lock is held exactly while a thread is in the adapter, timed out or not.
OneThread ==
    /\ \A t, u \in threads : t = u
    /\ held <=> threads # {}

\* What an index call took along is the family's, and was not reported deleted
\* since: its deletion would have had to wait for the thread.
Carried ==
    \A t \in threads : t.op = "index" =>
        \A i \in DOMAIN t.records : ShareKind[i] = "family" /\ i \notin removed

ExternalInv ==
    /\ removed \subseteq Item
    /\ \A t \in threads : t.op = "delete" => t.records \subseteq Item
    /\ OneThread /\ Carried /\ CopiesAsAllowed

LEMMA BeginKeeps ==
    ASSUME ExternalInv, NEW t, NEW c, Calls(t, c), UNCHANGED <<outside, shown>>,
           removed' \subseteq removed,
           t.op = "delete" => t.records \subseteq Item,
           t.op = "index" => \A i \in DOMAIN t.records : ShareKind[i] = "family" /\ i \notin removed'
    PROVE  ExternalInv'
<1>1. threads = {} /\ threads' = {t} /\ held'
  BY DEF Calls, ExternalInv, OneThread
<1>2. OneThread' /\ Carried'
  BY <1>1 DEF OneThread, Carried
<1>3. CopiesAsAllowed'
  BY DEF ExternalInv, CopiesAsAllowed, OnlyRevalidated, DeletedStaysOut, Exportable
<1>4. QED
  BY <1>1, <1>2, <1>3 DEF ExternalInv

\* A thread that ends leaves nobody in the adapter.
LEMMA EndKeeps ==
    ASSUME ExternalInv, NEW t \in threads, Ends(t), removed' \subseteq Item, CopiesAsAllowed'
    PROVE  ExternalInv'
<1>1. threads' = {} /\ ~held'
  BY DEF Ends, ExternalInv, OneThread
<1>2. QED
  BY <1>1 DEF ExternalInv, OneThread, Carried

LEMMA ExternalStep == ASSUME ExternalInv, [ExternalNext]_externalVars PROVE ExternalInv'
<1>1. CASE BeginIndex
  <2> DEFINE t == [op |-> "index", records |-> [i \in Exportable(rows) |-> rows[i]]]
  <2>1. t.op = "index" /\ DOMAIN t.records = Exportable(rows)
    OBVIOUS
  <2>2. \A i \in Exportable(rows) : ShareKind[i] = "family" /\ i \notin removed'
    BY <1>1 DEF BeginIndex, Exportable
  <2>3. \E c : Calls(t, c)
    BY <1>1 DEF BeginIndex
  <2>4. UNCHANGED <<outside, shown>> /\ removed' \subseteq removed
    BY <1>1 DEF BeginIndex
  <2> HIDE DEF t
  <2>5. QED
    BY <2>1, <2>2, <2>3, <2>4, BeginKeeps
<1>2. ASSUME NEW S \in SUBSET Item, BeginDelete(S) PROVE ExternalInv'
  BY <1>2, BeginKeeps DEF BeginDelete
<1>3. CASE BeginRetrieve
  BY <1>3, BeginKeeps DEF BeginRetrieve
<1>4. CASE TimesOut
  BY <1>4 DEF TimesOut, HeldOn, ExternalInv, OneThread, Carried, CopiesAsAllowed,
     OnlyRevalidated, DeletedStaysOut, Exportable
<1>5. ASSUME NEW t \in threads, IndexDone(t) PROVE ExternalInv'
  <2>1. PICK S \in SUBSET DOMAIN t.records :
           outside' = [i \in Item |-> IF i \in S THEN t.records[i] ELSE outside[i]]
    BY <1>5 DEF IndexDone
  <2>2. \A i \in DOMAIN t.records : ShareKind[i] = "family" /\ i \notin removed
    BY <1>5 DEF IndexDone, ExternalInv, Carried
  <2>3. UNCHANGED <<shown, removed>> /\ Ends(t)
    BY <1>5 DEF IndexDone
  <2>4. CopiesAsAllowed'
    BY <2>1, <2>2, <2>3 DEF ExternalInv, CopiesAsAllowed, OnlyRevalidated, DeletedStaysOut, Exportable
  <2>5. QED
    BY <2>3, <2>4, EndKeeps DEF ExternalInv
<1>6. ASSUME NEW t \in threads, DeleteDone(t) PROVE ExternalInv'
  <2>1. /\ t.records \subseteq Item /\ Ends(t) /\ shown' = shown
        /\ outside' = [i \in Item |-> IF i \in t.records THEN 0 ELSE outside[i]]
        /\ removed' \subseteq removed \cup t.records
    BY <1>6 DEF DeleteDone, ExternalInv
  <2>2. CopiesAsAllowed'
    BY <2>1 DEF ExternalInv, CopiesAsAllowed, OnlyRevalidated, DeletedStaysOut, Exportable
  <2>3. QED
    BY <2>1, <2>2, EndKeeps DEF ExternalInv
<1>7. ASSUME NEW t \in threads, RetrieveDone(t) PROVE ExternalInv'
  <2>1. Ends(t) /\ UNCHANGED <<outside, removed>>
    BY <1>7 DEF RetrieveDone
  <2>2. (shown.candidates \subseteq Exportable(shown.of))'
    <3>1. CASE shown' = shown
      BY <3>1 DEF ExternalInv, CopiesAsAllowed, OnlyRevalidated, Exportable
    <3>2. ASSUME NEW hits, NEW S, S \subseteq Revalidated(hits, caller.view),
                 shown' = [candidates |-> S, of |-> caller.view]
          PROVE  (shown.candidates \subseteq Exportable(shown.of))'
      <4>1. S \subseteq Exportable(caller.view)
        BY <3>2 DEF Revalidated
      <4>2. shown'.candidates = S /\ shown'.of = caller.view
        BY <3>2
      <4>3. QED
        BY <4>1, <4>2 DEF Exportable
    <3>3. QED
      BY <1>7, <3>1, <3>2 DEF RetrieveDone
  <2>3. CopiesAsAllowed'
    BY <2>1, <2>2 DEF ExternalInv, CopiesAsAllowed, OnlyRevalidated, DeletedStaysOut
  <2>4. QED
    BY <2>1, <2>3, EndKeeps DEF ExternalInv
<1>8. ASSUME NEW i \in Item, Changes(i) PROVE ExternalInv'
  BY <1>8 DEF Changes, ExternalInv, OneThread, Carried, CopiesAsAllowed, OnlyRevalidated,
     DeletedStaysOut, Exportable
<1>9. CASE UNCHANGED externalVars
  BY <1>9 DEF externalVars, ExternalInv, OneThread, Carried, CopiesAsAllowed, OnlyRevalidated,
     DeletedStaysOut, Exportable
<1>10. QED
  BY <1>1, <1>2, <1>3, <1>4, <1>5, <1>6, <1>7, <1>8, <1>9 DEF ExternalNext

\* Whatever the adapter answers, and whenever its calls end, nothing private
\* leaves, nothing is shown that the rows did not have, and no late index call
\* brings back a copy whose deletion was reported.
THEOREM ExternalCopiesAllowed == ExternalSpec => []CopiesAsAllowed
<1>1. ExternalInit => ExternalInv
  BY DEF ExternalInit, NoShown, ExternalInv, OneThread, Carried, CopiesAsAllowed,
     OnlyRevalidated, DeletedStaysOut
<1>2. ExternalInv /\ [ExternalNext]_externalVars => ExternalInv'
  BY ExternalStep
<1>3. ExternalInv => CopiesAsAllowed
  BY DEF ExternalInv
<1>4. QED
  BY <1>1, <1>2, <1>3, PTL DEF ExternalSpec

-----------------------------------------------------------------------------
(* SessionMemory, for any persons, files and messages. *)

\* What a person is about to insert is what that person was shown, what is reviewed
\* was unreviewed when it was shown, and rows have ids that were given out.
ImportInv ==
    /\ \A p \in Person : desk[p].op = "insert" => desk[p].document = desk[p].shown
    /\ \A p \in Person : desk[p].op = "review" => desk[p].row.status = "imported_unverified"
    /\ lastImport \in Nat
    /\ DOMAIN imports \subseteq 1..lastImport
    /\ \A i \in DOMAIN imports :
          imports[i] = [document |-> imports[i].document, status |-> imports[i].status]
    /\ desk = [p \in Person |-> desk[p]]
    /\ imports = [i \in DOMAIN imports |-> imports[i]]

LEMMA ImportStays ==
    ASSUME ImportInv, [ImportNext]_importVars PROVE ImportInv' /\ ImportsAsShown /\ ReviewsAsShown
<1> DEFINE Goal == ImportInv' /\ ImportsAsShown /\ ReviewsAsShown
<1>1. ASSUME imports' = imports, UNCHANGED <<lastImport, desk>> PROVE Goal
  BY <1>1 DEF ImportInv, ImportsAsShown, ReviewsAsShown
\* A person does something that leaves the rows alone, and inserts nothing else.
<1>2. ASSUME UNCHANGED <<imports, lastImport>>, NEW p \in Person, NEW d,
             desk' = [desk EXCEPT ![p] = d], d.op = "insert" => d.document = d.shown,
             d.op = "review" => d.row.status = "imported_unverified"
      PROVE  Goal
  BY <1>2 DEF ImportInv, ImportsAsShown, ReviewsAsShown
<1>3. ASSUME NEW p \in Person, ImportStep(p) PROVE Goal
  <2>1. ASSUME NEW x, NEW chosen, PreviewImport(p, x, chosen) PROVE Goal
    BY <1>2, <2>1 DEF PreviewImport
  <2>2. CASE ConfirmImport(p)
    <3> DEFINE w == desk[p].binding
    <3>1. CASE SameFile(w)
      <4>1. Selected(files[w.file], w.document.messages) = w.document
        BY <3>1 DEF SameFile, Binding
      <4>2. desk' = [desk EXCEPT ![p] =
               [op |-> "insert", shown |-> w.document,
                document |-> Selected(files[w.file], w.document.messages)]]
        BY <2>2, <3>1 DEF ConfirmImport
      <4>3. UNCHANGED <<imports, lastImport>>
        BY <2>2 DEF ConfirmImport
      <4>4. QED
        BY <1>2, <4>1, <4>2, <4>3
    <3>2. CASE ~SameFile(w)
      <4>1. desk' = [desk EXCEPT ![p] = Away] /\ UNCHANGED <<imports, lastImport>>
        BY <2>2, <3>2 DEF ConfirmImport
      <4>2. Away.op \notin {"insert", "review"}
        BY DEF Away
      <4>3. QED
        BY <1>2, <4>1, <4>2
    <3>3. QED
      BY <3>1, <3>2
  <2>3. CASE InsertImport(p)
    <3>1. /\ desk[p].op = "insert" /\ desk[p].document = desk[p].shown
          /\ desk' = [desk EXCEPT ![p] = Away]
      BY <2>3 DEF InsertImport, ImportInv
    <3>2. desk'[p] = Away /\ \A q \in Person \ {p} : desk'[q] = desk[q]
      BY <3>1 DEF ImportInv
    <3>3. Away.op \notin {"insert", "review"}
      BY DEF Away
    <3>4. CASE UNCHANGED <<imports, lastImport>>
      BY <1>2, <3>1, <3>3, <3>4
    <3>5. ASSUME Duplicate(desk[p].document) = {}, lastImport' = lastImport + 1,
                 imports' = [i \in DOMAIN imports \cup {lastImport'} |->
                    IF i = lastImport' THEN [document |-> desk[p].document, status |-> "imported_unverified"]
                    ELSE imports[i]]
          PROVE  Goal
      <4>1. lastImport \in Nat /\ DOMAIN imports \subseteq 1..lastImport
        BY DEF ImportInv
      <4>2. /\ lastImport' \notin DOMAIN imports
            /\ DOMAIN imports' = DOMAIN imports \cup {lastImport'}
            /\ imports'[lastImport'].document = desk[p].shown
            /\ \A i \in DOMAIN imports : imports'[i] = imports[i]
        BY <3>1, <3>5, <4>1
      <4>3. \A j \in DOMAIN imports : imports[j].document # desk[p].shown
        BY <3>1, <3>5 DEF Duplicate
      <4>4. ImportsAsShown
        BY <3>1, <3>2, <3>5, <4>1, <4>2, <4>3 DEF ImportsAsShown
      <4>5. ReviewsAsShown
        BY <4>2 DEF ReviewsAsShown
      <4>6. /\ DOMAIN imports' \subseteq 1..lastImport' /\ lastImport' \in Nat
            /\ \A i \in DOMAIN imports' :
                  imports'[i] = [document |-> imports'[i].document, status |-> imports'[i].status]
        BY <3>5, <4>1, <4>2 DEF ImportInv
      <4>7. ImportInv'
        BY <3>1, <3>2, <3>3, <3>5, <4>6 DEF ImportInv
      <4>8. QED
        BY <4>4, <4>5, <4>7
    <3>6. QED
      BY <2>3, <3>4, <3>5 DEF InsertImport
  <2>4. ASSUME NEW i, PreviewReviewed(p, i) PROVE Goal
    BY <1>2, <2>4 DEF PreviewReviewed
  <2>5. ASSUME NEW decision, ReviewImport(p, decision) PROVE Goal
    <3>1. desk[p].op = "review" /\ desk' = [desk EXCEPT ![p] = Away] /\ lastImport' = lastImport
      BY <2>5 DEF ReviewImport
    <3>2. CASE imports' = imports
      BY <1>2, <3>1, <3>2 DEF Away
    <3>3. CASE imports' # imports
      <4>1. /\ StillShown(desk[p])
            /\ imports' = [imports EXCEPT ![desk[p].id].status = decision]
        BY <2>5, <3>3 DEF ReviewImport
      <4>2. desk[p].id \in DOMAIN imports /\ imports[desk[p].id] = desk[p].row
        BY <4>1 DEF StillShown
      <4>3. DOMAIN imports' = DOMAIN imports /\ imports' = [i \in DOMAIN imports' |-> imports'[i]]
        BY <4>1
      <4> DEFINE id == desk[p].id
      <4>8. /\ imports'[id] = [document |-> imports[id].document, status |-> decision]
            /\ \A i \in DOMAIN imports \ {id} : imports'[i] = imports[i]
        BY <4>1, <4>2 DEF ImportInv
      <4>4. ImportsAsShown
        BY <4>3 DEF ImportsAsShown
      <4>5. ReviewsAsShown
        BY <3>1, <4>2, <4>8 DEF ReviewsAsShown, ImportInv
      <4>6. ImportInv'
        BY <3>1, <4>3, <4>8 DEF ImportInv, Away
      <4>7. QED
        BY <4>4, <4>5, <4>6
    <3>4. QED
      BY <3>2, <3>3
  <2>6. CASE Abandon(p)
    BY <1>2, <2>6 DEF Abandon, Away
  <2>7. QED
    BY <1>3, <2>1, <2>2, <2>3, <2>4, <2>5, <2>6 DEF ImportStep
<1>4. ASSUME NEW S, ForgetImports(S) PROVE Goal
  <2>1. /\ imports' = [i \in DOMAIN imports \ S |-> imports[i]]
        /\ UNCHANGED <<lastImport, desk>>
    BY <1>4 DEF ForgetImports
  <2>2. QED
    BY <2>1 DEF ImportInv, ImportsAsShown, ReviewsAsShown
<1>5. QED
  BY <1>1, <1>3, <1>4 DEF ImportNext, importVars, Export

\* Whatever the tools write between preview, second read and insert, a person
\* imports and reviews what that person was shown, once, and nothing that was
\* forgotten.
THEOREM DecidedAsShown == ImportSpec => AsShown
<1>1. ImportInit => ImportInv
  BY DEF ImportInit, ImportInv, Away
<1>2. ImportInv /\ [ImportNext]_importVars => ImportInv' /\ [ImportsAsShown /\ ReviewsAsShown]_importVars
  BY ImportStays
<1>3. QED
  BY <1>1, <1>2, PTL DEF ImportSpec, AsShown

-----------------------------------------------------------------------------
(* Retrieval, for any rows, vectors and askers. *)

\* The rows a call has read stay with it, and once it has vectors they are those
\* of the rows its asker could see then.
AskInv(c) ==
    LET w == asks[c] IN
    /\ w.op = "batch" => "op" \in DOMAIN w
    /\ w.op = "query" => w = [op |-> "query", lexical |-> w.lexical, sources |-> w.sources, ids |-> w.ids]
    /\ w.op \in {"query", "embed"} => w.ids = Eligible(c, w.sources)
    /\ w.op = "fused" =>
            /\ w.ids = Eligible(c, w.of.sources)
            /\ w.of.lexical \cap Exact \subseteq w.shown \/ w.shown \subseteq Exact

\* The inductive invariant.
RetrievalInv == asks = [c \in Asker |-> asks[c]] /\ \A c \in Asker : AskInv(c)

\* One call goes on, the others stay.
LEMMA OneAsk ==
    ASSUME RetrievalInv, NEW c \in Asker, NEW w, Asks(c, w),
           w.op = "batch" => "op" \in DOMAIN w,
           w.op = "query" => w = [op |-> "query", lexical |-> w.lexical, sources |-> w.sources, ids |-> w.ids],
           w.op \in {"query", "embed"} => w.ids = Eligible(c, w.sources),
           w.op = "fused" =>
               /\ w.ids = Eligible(c, w.of.sources)
               /\ w.of.lexical \cap Exact \subseteq w.shown \/ w.shown \subseteq Exact
    PROVE  RetrievalInv'
<1>1. asks'[c] = w /\ \A d \in Asker \ {c} : asks'[d] = asks[d]
  BY DEF Asks, RetrievalInv
<1>2. asks' = [d \in Asker |-> asks'[d]]
  BY DEF Asks, RetrievalInv
<1>3. AskInv(c)'
  BY <1>1 DEF AskInv
<1>4. \A d \in Asker \ {c} : AskInv(d)'
  BY <1>1 DEF AskInv, RetrievalInv
<1>5. QED
  BY <1>2, <1>3, <1>4 DEF RetrievalInv

\* A call that ends has no answer, or a lexical one.
LEMMA EndsAsk == ASSUME RetrievalInv, NEW c \in Asker, FallsBack(c) \/ Asks(c, NoAsk) PROVE RetrievalInv'
<1>1. CASE Asks(c, NoAsk)
  BY <1>1, OneAsk DEF NoAsk
<1>2. CASE FallsBack(c)
  <2>1. PICK T : Asks(c, [op |-> "lexical", shown |-> T, ids |-> {}, of |-> NoAsk])
    BY <1>2 DEF FallsBack, Recalls
  <2>2. QED
    BY <2>1, OneAsk
<1>3. QED
  BY <1>1, <1>2

\* One step of one asker: one case per read, call and answer.
LEMMA AskStays == ASSUME RetrievalInv, NEW c \in Asker, AskStep(c) PROVE RetrievalInv'
<1> DEFINE w == asks[c]
<1>0. AskInv(c)
  BY DEF RetrievalInv
<1>1. CASE ReadHits(c)
  BY <1>1, OneAsk DEF ReadHits
<1>2. CASE ScanRows(c)
  BY <1>2, OneAsk DEF ScanRows
<1>3. CASE ReadSources(c)
  BY <1>3, OneAsk DEF ReadSources
<1>4. CASE LoadHead(c)
  BY <1>4, OneAsk, EndsAsk DEF LoadHead
<1>5. CASE LoadVectors(c)
  <2> DEFINE ids == IF vectors # Unbuilt /\ vectors.by = Model[c] THEN vectors.ids ELSE {}
  <2>1. CASE ~(Projected(c, ids, w) /\ ids # {})
    BY <1>5, <2>1, EndsAsk DEF LoadVectors
  <2>2. CASE Projected(c, ids, w) /\ ids # {}
    <3>1. Asks(c, [op |-> "query", lexical |-> w.lexical, sources |-> w.sources, ids |-> ids])
      BY <1>5, <2>2 DEF LoadVectors
    <3>2. ids = Eligible(c, w.sources)
      BY <2>2 DEF Projected
    <3> HIDE DEF ids
    <3>3. QED
      BY <3>1, <3>2, OneAsk
  <2>3. QED
    BY <2>1, <2>2
<1>6. CASE Compute(c)
  <2>1. CASE c \in computing
    BY <1>6, <2>1, EndsAsk DEF Compute
  <2>2. CASE c \notin computing /\ w.op = "query"
    <3> DEFINE x == [w EXCEPT !.op = "embed"]
    <3>1. Asks(c, x)
      BY <1>6, <2>2 DEF Compute
    <3>2. /\ w = [op |-> "query", lexical |-> w.lexical, sources |-> w.sources, ids |-> w.ids]
          /\ w.ids = Eligible(c, w.sources)
      BY <1>0, <2>2 DEF AskInv
    <3>3. x.op = "embed" /\ x.ids = w.ids /\ x.sources = w.sources
      BY <3>2
    <3> HIDE DEF x
    <3>4. QED
      BY <3>1, <3>2, <3>3, OneAsk
  <2>3. CASE c \notin computing /\ w.op = "batch"
    <3> DEFINE x == [w EXCEPT !.op = "replace"]
    <3>1. Asks(c, x)
      BY <1>6, <2>3 DEF Compute
    <3>2. "op" \in DOMAIN w
      BY <1>0, <2>3 DEF AskInv
    <3>3. DOMAIN x = DOMAIN w /\ x.op = "replace"
      BY <3>2
    <3> HIDE DEF x
    <3>4. QED
      BY <3>1, <3>2, <3>3, OneAsk
  <2>4. QED
    BY <1>6, <2>1, <2>2, <2>3 DEF Compute
<1>7. CASE Lexical(c)
  BY <1>7, EndsAsk DEF Lexical
<1>8. CASE Fuse(c)
  <2> DEFINE hits == w.lexical \cup (Near \cap w.ids)
  <2>1. w.op = "embed"
    BY <1>8 DEF Fuse
  <2>2. PICK T \in AnchorsFirst(hits) :
           Asks(c, [op |-> "fused", shown |-> T, ids |-> w.ids, of |-> w])
    BY <1>8 DEF Fuse, Recalls
  <2>3. w.lexical \cap Exact \subseteq T \/ T \subseteq Exact
    BY DEF AnchorsFirst
  <2>4. w.ids = Eligible(c, w.sources)
    BY <1>0, <2>1 DEF AskInv
  <2>5. QED
    BY <2>2, <2>3, <2>4, OneAsk
<1>9. CASE Answered(c) \/ ReindexFails(c) \/ ReplaceVectors(c)
  BY <1>9, EndsAsk DEF Answered, ReindexFails, ReplaceVectors
<1>10. CASE BeginReindex(c)
  BY <1>10, OneAsk DEF BeginReindex
<1>11. CASE LateThread(c)
  BY <1>11 DEF LateThread, RetrievalInv, AskInv
<1>12. QED
  BY <1>1, <1>2, <1>3, <1>4, <1>5, <1>6, <1>7, <1>8, <1>9, <1>10, <1>11 DEF AskStep

\* However rows, index head and vectors change between the reads of a retrieval,
\* and whichever embedding calls run late, a fused answer has compared exactly what
\* its asker could see, and exact hits come first.
THEOREM FusedAsSeen == RetrievalSpec => []ComparedAsSeen
<1>1. RetrievalInit => RetrievalInv
  BY DEF RetrievalInit, RetrievalInv, AskInv, NoAsk
<1>2. RetrievalInv /\ [RetrievalNext]_retrievalVars => RetrievalInv'
  <2>1. ASSUME RetrievalInv, UNCHANGED asks PROVE RetrievalInv'
    BY <2>1 DEF RetrievalInv, AskInv
  <2>2. QED
    BY <2>1, AskStays DEF RetrievalNext, MemoryChanges, retrievalVars
<1>3. RetrievalInv => ComparedAsSeen
  BY DEF RetrievalInv, AskInv, ComparedAsSeen
<1>4. QED
  BY <1>1, <1>2, <1>3, PTL DEF RetrievalSpec

-----------------------------------------------------------------------------
(* MemoryCommands, for any costs and budget. *)

\* The types of an answer.
AnswerType ==
    [op : {"cut", "sent"}, memories : Nat, counted : Nat, candidates : Nat, trace : BOOLEAN, base : Nat,
     ambiguous : BOOLEAN, truncated : BOOLEAN, omitted : BOOLEAN,
     found : Nat, offered : Nat, disputed : BOOLEAN, store : Opened]

\* What was dropped so far is told, and what is told is what is there.
CutSoFar(a) ==
    /\ a.memories < a.found => a.truncated = TRUE /\ a.omitted = TRUE
    /\ a.candidates < a.offered => a.truncated = TRUE
    /\ a.counted = a.memories
    /\ a.ambiguous = a.disputed
    /\ a.op = "sent" /\ request.action \notin Plain => AnswerCost(a) <= AnswerBudget

\* A request whose handler writes rows is past the door only on the database itself.
CommandInv ==
    /\ request \in Requests /\ Sensible(request)
    /\ door \in Doors
    /\ door \in Opened \cup {"done"} => ~Refused1(request)
    /\ door \in Opened => (door = "live" <=> ~ReadOnly(request))
    /\ door = "done" => /\ answer \in AnswerType /\ CutSoFar(answer)
                        /\ answer.store = "live" <=> ~ReadOnly(request)
                        /\ changed \subseteq Effect(request)
    /\ door # "done" => answer = NoAnswer

\* The door and the handlers agree: what opens no database is what writes nothing in it.
LEMMA DoorFitsHandler ==
    ASSUME NEW r \in Requests, Sensible(r), ~Refused1(r)
    PROVE  /\ ReadOnly(r) <=> Effect(r) \ {"copies"} = {}
           /\ ReadOnly(r) => "files" \notin Effect(r)
           /\ Effect(r) \cap {"family", "pruned", "index", "imports", "copies"} # {} => r.confirm
           /\ Effect(r) \cap {"authority", "files"} # {} => r.gate
<1>1. /\ r.action \in Actions /\ r.op \in SessionOps \cup ExternalOps \cup {"none"}
      /\ r.confirm \in BOOLEAN /\ r.gate \in BOOLEAN /\ r.dry \in BOOLEAN /\ r.injected \in BOOLEAN
  BY DEF Requests
<1>2. CASE r.action = "status"
  BY <1>2 DEF ReadOnly, Effect
<1>3. CASE r.action = "forget"
  BY <1>3 DEF ReadOnly, Effect
<1>4. CASE r.action = "clear"
  BY <1>4 DEF ReadOnly, Effect, Refused1
<1>5. CASE r.action = "compact"
  BY <1>5 DEF ReadOnly, Effect, Refused1
<1>6. CASE r.action = "reindex"
  BY <1>6 DEF ReadOnly, Effect, Refused1
<1>7. CASE r.action \in {"propose", "episode"}
  BY <1>7 DEF ReadOnly, Effect
<1>8. CASE r.action \in {"review", "relate", "experience"}
  BY <1>8 DEF ReadOnly, Effect
<1>9. CASE r.action = "export"
  BY <1>9 DEF ReadOnly, Effect
<1>10. CASE r.action = "session"
  BY <1>10 DEF ReadOnly, Effect
<1>11. CASE r.action = "external"
  BY <1>11 DEF ReadOnly, Effect
<1>12. CASE r.action \in {"list", "search", "trace", "stats", "facts", "get", "candidates", "tree"}
  BY <1>12 DEF ReadOnly, Effect
<1>13. QED
  BY <1>1, <1>2, <1>3, <1>4, <1>5, <1>6, <1>7, <1>8, <1>9, <1>10, <1>11, <1>12 DEF Actions

\* Each cut of an answer is told in it.
LEMMA CutStep ==
    ASSUME CommandInv, Cut PROVE answer' \in AnswerType /\ CutSoFar(answer)'
                                 /\ answer'.store = answer.store
<1>1. answer \in AnswerType /\ CutSoFar(answer) /\ answer.op = "cut" /\ request' = request
  BY DEF CommandInv, Cut
<1>2. AnswerBudget \in Nat /\ MemoryCost \in Nat /\ CandidateCost \in Nat /\ TraceCost \in Nat
  BY AnswerBounds
<1>0. /\ answer.memories \in Nat /\ answer.candidates \in Nat /\ answer.found \in Nat /\ answer.offered \in Nat
      /\ answer.memories < answer.found => answer.truncated = TRUE /\ answer.omitted = TRUE
      /\ answer.candidates < answer.offered => answer.truncated = TRUE
      /\ answer.counted = answer.memories /\ answer.ambiguous = answer.disputed
  BY <1>1 DEF AnswerType, CutSoFar
<1>3. CASE answer' = [answer EXCEPT !.op = "sent"] /\ ~OverBudget(answer)
  <2>1. answer' \in AnswerType
    BY <1>1, <1>3 DEF AnswerType
  <2>2. /\ answer'.memories = answer.memories /\ answer'.found = answer.found
        /\ answer'.counted = answer.counted /\ answer'.offered = answer.offered
        /\ answer'.ambiguous = answer.ambiguous /\ answer'.disputed = answer.disputed
        /\ answer'.truncated = answer.truncated /\ answer'.omitted = answer.omitted
        /\ answer'.base = answer.base /\ answer'.trace = answer.trace
        /\ answer'.candidates = answer.candidates /\ answer'.store = answer.store /\ answer'.op = "sent"
    BY <1>1, <1>3 DEF AnswerType
  <2>3. AnswerCost(answer') = AnswerCost(answer)
    BY <2>2 DEF AnswerCost
  <2>4. AnswerCost(answer) \in Int
    BY <1>0, <1>1, <1>2 DEF AnswerCost, AnswerType
  <2>5. AnswerCost(answer') <= AnswerBudget
    BY <1>2, <1>3, <2>3, <2>4 DEF OverBudget
  <2>6. QED
    BY <1>0, <2>1, <2>2, <2>5 DEF CutSoFar
<1>4. CASE answer.candidates > 0 /\ answer' = [answer EXCEPT !.candidates = @ - 1, !.truncated = TRUE]
  <2>0. answer.candidates - 1 \in Nat /\ TRUE \in BOOLEAN
    BY <1>0, <1>4
  <2>1. answer' \in AnswerType
    BY <1>1, <1>4, <2>0 DEF AnswerType
  <2>2. /\ answer'.memories = answer.memories /\ answer'.found = answer.found /\ answer'.truncated = TRUE
        /\ answer'.counted = answer.counted
        /\ answer'.ambiguous = answer.ambiguous /\ answer'.disputed = answer.disputed
        /\ answer'.omitted = answer.omitted /\ answer'.op = "cut" /\ answer'.store = answer.store
    BY <1>0, <1>1, <1>4 DEF AnswerType
  <2>3. QED
    BY <1>0, <2>1, <2>2 DEF CutSoFar
<1>5. CASE answer.memories > 0 /\ answer' = Without(answer)
  <2>0. answer.memories - 1 \in Nat /\ TRUE \in BOOLEAN
    BY <1>0, <1>5
  <2>1. answer' \in AnswerType
    BY <1>1, <1>5, <2>0 DEF AnswerType, Without
  <2>2. /\ answer'.memories = answer.memories - 1 /\ answer'.counted = answer.memories - 1
        /\ answer'.candidates = answer.candidates /\ answer'.offered = answer.offered
        /\ answer'.ambiguous = answer.ambiguous /\ answer'.disputed = answer.disputed
        /\ answer'.truncated = TRUE /\ answer'.omitted = TRUE /\ answer'.op = "cut"
        /\ answer'.store = answer.store
    BY <1>0, <1>1, <1>5 DEF AnswerType, Without
  <2>3. QED
    BY <1>0, <2>1, <2>2 DEF CutSoFar
<1>6. CASE answer' = [answer EXCEPT !.trace = FALSE, !.truncated = TRUE]
  <2>1. answer' \in AnswerType
    BY <1>0, <1>1, <1>6 DEF AnswerType
  <2>2. /\ answer'.memories = answer.memories /\ answer'.found = answer.found /\ answer'.truncated = TRUE
        /\ answer'.counted = answer.counted
        /\ answer'.ambiguous = answer.ambiguous /\ answer'.disputed = answer.disputed
        /\ answer'.omitted = answer.omitted /\ answer'.op = "cut" /\ answer'.store = answer.store
    BY <1>0, <1>1, <1>6 DEF AnswerType
  <2>3. QED
    BY <1>0, <2>1, <2>2 DEF CutSoFar
<1>7. CASE /\ ~(answer.candidates > 0) /\ ~(answer.memories > 0) /\ ~answer.trace
           /\ answer' = Minimal(answer)
  <2>0. answer.candidates = 0 /\ answer.memories = 0
    BY <1>0, <1>7
  <2>1. answer' \in AnswerType
    BY <1>0, <1>1, <1>7 DEF AnswerType, Minimal
  <2>2. /\ answer'.memories = 0 /\ answer'.counted = answer.counted /\ answer'.candidates = 0
        /\ answer'.trace = answer.trace /\ answer'.base = 0
        /\ answer'.ambiguous = answer.ambiguous /\ answer'.disputed = answer.disputed
        /\ answer'.truncated = TRUE /\ answer'.omitted = TRUE /\ answer'.store = answer.store
    BY <1>1, <1>7, <2>0 DEF AnswerType, Minimal
  <2>3. AnswerCost(answer') = 0
    BY <1>2, <1>7, <2>2 DEF AnswerCost
  <2>4. QED
    BY <1>0, <1>2, <2>0, <2>1, <2>2, <2>3 DEF CutSoFar
<1>8. QED
  BY <1>3, <1>4, <1>5, <1>6, <1>7 DEF Cut

\* Each step of a command, from the door to the answer.
LEMMA CommandStep == ASSUME CommandInv, [CommandNext]_commandVars PROVE CommandInv'
<1>1. CASE Ask
  BY <1>1 DEF Ask, CommandInv, NoAnswer, Doors, Opened
<1>2. CASE Refuse
  BY <1>2 DEF Refuse, CommandInv, Doors, Opened
<1>3. CASE Open
  <2>1. /\ Entrance(request) \in Opened \cup {"absent"}
        /\ Entrance(request) \in Opened => (Entrance(request) = "live" <=> ~ReadOnly(request))
    <3>1. request.action = "session" /\ request.op = "discover" => ReadOnly(request)
      BY DEF ReadOnly
    <3> HIDE DEF ReadOnly
    <3>2. CASE request.action = "session" /\ request.op = "discover"
      BY <3>1, <3>2 DEF Entrance, Opened
    <3>3. CASE ~(request.action = "session" /\ request.op = "discover") /\ ~ReadOnly(request)
      BY <3>3 DEF Entrance, Opened
    <3>4. CASE ~(request.action = "session" /\ request.op = "discover") /\ ReadOnly(request) /\ database
      BY <3>4 DEF Entrance, Opened
    <3>5. CASE ~(request.action = "session" /\ request.op = "discover") /\ ReadOnly(request) /\ ~database
      BY <3>5 DEF Entrance, Opened
    <3>6. QED
      BY <3>2, <3>3, <3>4, <3>5
  <2>2. door' = Entrance(request) /\ request' = request /\ answer' = answer /\ ~Refused1(request) /\ door = "asked"
    BY <1>3 DEF Open
  <2>3. Refused1(request)' = Refused1(request) /\ ReadOnly(request)' = ReadOnly(request)
    BY <2>2
  <2>4. Sensible(request)' = Sensible(request)
    BY <2>2
  <2>5. QED
    BY <2>1, <2>2, <2>3, <2>4 DEF CommandInv, Doors, Opened
<1>4. CASE Handle
  <2>1. PICK memories, candidates \in 0..MaxAnswer, base \in {1, AnswerBudget + 1}, ambiguous \in BOOLEAN :
           /\ request.action \in Plain => memories = 0
           /\ answer' = Fresh(request, memories, candidates, base, ambiguous, door)
    BY <1>4 DEF Handle
  <2>2. /\ door \in Opened /\ door' = "done" /\ request' = request
        /\ changed' \subseteq Effect(request)
    BY <1>4 DEF Handle
  <2>3. memories \in Nat /\ candidates \in Nat /\ base \in Nat
    BY AnswerBounds
  <2>4. (request.action = "trace") \in BOOLEAN
    OBVIOUS
  <2>5. answer' \in AnswerType
    BY <2>1, <2>2, <2>3, <2>4 DEF Fresh, AnswerType
  <2>6. /\ answer'.store = door /\ answer'.memories = memories /\ answer'.counted = memories /\ answer'.found = memories
        /\ answer'.candidates = candidates /\ answer'.offered = candidates
        /\ answer'.ambiguous = ambiguous /\ answer'.disputed = ambiguous
        /\ answer'.op = "sent" => request.action \in Plain
    BY <2>1 DEF Fresh
  <2>7. CutSoFar(answer)'
    BY <2>2, <2>3, <2>6 DEF CutSoFar
  <2>8. QED
    BY <2>2, <2>5, <2>6, <2>7 DEF CommandInv, Doors, Opened
<1>5. CASE Unavailable
  BY <1>5 DEF Unavailable, CommandInv, Doors, Opened
<1>6. CASE Cut
  BY <1>6, CutStep DEF Cut, CommandInv, Opened
<1>7. CASE Close
  BY <1>7 DEF Close, CommandInv, Doors, Opened
<1>8. CASE UNCHANGED commandVars
  <2>1. CutSoFar(answer)' = CutSoFar(answer)
    BY <1>8 DEF commandVars, CutSoFar
  <2>2. QED
    BY <1>8, <2>1 DEF commandVars, CommandInv
<1>9. QED
  BY <1>1, <1>2, <1>3, <1>4, <1>5, <1>6, <1>7, <1>8 DEF CommandNext

\* For any costs and budget: nothing is written into a copy, the database is opened
\* only for what may write, what destroys a family's memory or is copied was
\* confirmed and what is accepted was reviewed, and a cut answer says truly what it has.
THEOREM CommandsKept == CommandSpec => []CommandsAsAsked
<1>1. CommandInit => CommandInv
  BY DEF CommandInit, CommandInv, Doors, Opened
<1>2. CommandInv /\ [CommandNext]_commandVars => CommandInv'
  BY CommandStep
<1>3. CommandInv => CommandsAsAsked
  <2>1. ASSUME CommandInv PROVE WritesGoLive
    <3>1. SUFFICES ASSUME door = "done" PROVE WritesGoLive!2
      BY DEF WritesGoLive
    <3>2. /\ request \in Requests /\ Sensible(request) /\ ~Refused1(request)
          /\ answer.store = "live" <=> ~ReadOnly(request)
          /\ changed \subseteq Effect(request)
      BY <2>1, <3>1 DEF CommandInv
    <3>3. QED
      BY <3>2, DoorFitsHandler DEF Outside
  <2>2. ASSUME CommandInv PROVE OmissionTold
    BY <2>2 DEF CommandInv, OmissionTold, CutSoFar, AnswerType, NoAnswer
  <2>3. QED
    BY <2>1, <2>2 DEF CommandsAsAsked
<1>4. QED
  BY <1>1, <1>2, <1>3, PTL DEF CommandSpec

-----------------------------------------------------------------------------
(* EvidenceContract, for any evidence, failures, budgets and limits. *)

\* Along s, what stands first precedes.
InSequence(s, R) == \A i, j \in DOMAIN s : i < j => <<s[i], s[j]>> \in R

\* The first n of s with x in at place p.
Insert(s, x, n, p) == [i \in 1..n |-> IF i < p THEN s[i] ELSE IF i = p THEN x ELSE s[i - 1]]

\* An element goes into a sorted sequence where the first stands that it has to precede.
LEMMA Inserted ==
    ASSUME NEW T, NEW R, NEW x \in T, NEW n \in Nat, NEW s \in [1..n -> T \ {x}],
           \A i, j \in 1..n : i # j => s[i] # s[j],
           InSequence(s, R),
           \A a, b \in T : a # b => <<a, b>> \in R \/ <<b, a>> \in R,
           \A a, b, c \in T : <<a, b>> \in R /\ <<b, c>> \in R => <<a, c>> \in R
    PROVE  \E t \in [1..(n + 1) -> T] :
              /\ \A i, j \in 1..(n + 1) : i # j => t[i] # t[j]
              /\ InSequence(t, R)
<1> DEFINE Following == {i \in 1..n : <<s[i], x>> \notin R} \cup {n + 1}
<1>1. PICK p \in Following : \A q \in Following : p <= q
  <2>1. {i \in 1..n : <<s[i], x>> \notin R} \in SUBSET Nat
    OBVIOUS
  <2>2. Following \in SUBSET Nat /\ Following # {}
    <3>1. n + 1 \in Nat
      OBVIOUS
    <3>2. QED
      BY <2>1, <3>1, Zenon
  <2> HIDE DEF Following
  <2>3. QED
    BY <2>2, LeastNumber
<1>2. p \in 1..(n + 1)
  OBVIOUS
<1>3. \A i \in 1..n : i < p => <<s[i], x>> \in R
  BY <1>1
<1>4. ASSUME NEW i \in 1..n, p <= i PROVE <<x, s[i]>> \in R
  <2>1. p \in 1..n /\ <<s[p], x>> \notin R
    BY <1>2, <1>4
  <2>2. <<x, s[p]>> \in R
    BY <2>1
  <2>3. p = i \/ <<s[p], s[i]>> \in R
    BY <1>4, <2>1 DEF InSequence
  <2>4. s[p] \in T /\ s[i] \in T
    BY <2>1
  <2>5. QED
    BY <2>2, <2>3, <2>4
<1> DEFINE t == Insert(s, x, n + 1, p)
<1>5. \A i \in 1..(n + 1) : /\ i < p => i \in 1..n /\ t[i] = s[i]
                            /\ i = p => t[i] = x
                            /\ p < i => i - 1 \in 1..n /\ p <= i - 1 /\ t[i] = s[i - 1]
  BY <1>2 DEF Insert
<1>6. t \in [1..(n + 1) -> T]
  BY <1>2 DEF Insert
<1> HIDE DEF t
<1>7. \A i \in 1..n : s[i] # x
  OBVIOUS
<1>8. ASSUME NEW i \in 1..(n + 1), NEW j \in 1..(n + 1), i < j
      PROVE  t[i] # t[j] /\ <<t[i], t[j]>> \in R
  <2>1. CASE j < p
    BY <1>2, <1>5, <1>8, <2>1 DEF InSequence
  <2>2. CASE j = p
    BY <1>2, <1>3, <1>5, <1>7, <1>8, <2>2
  <2>3. CASE p < j /\ i < p
    <3>1. i \in 1..n /\ j - 1 \in 1..n /\ i < j - 1 /\ t[i] = s[i] /\ t[j] = s[j - 1]
      BY <1>2, <1>5, <2>3
    <3>2. QED
      BY <3>1 DEF InSequence
  <2>4. CASE p < j /\ i = p
    BY <1>2, <1>4, <1>5, <1>7, <2>4
  <2>5. CASE p < i
    <3>1. i - 1 \in 1..n /\ j - 1 \in 1..n /\ i - 1 < j - 1 /\ t[i] = s[i - 1] /\ t[j] = s[j - 1]
      BY <1>2, <1>5, <1>8, <2>5
    <3>2. QED
      BY <3>1 DEF InSequence
  <2>6. QED
    BY <1>2, <1>8, <2>1, <2>2, <2>3, <2>4, <2>5
<1>9. \A i, j \in 1..(n + 1) : i # j => i < j \/ j < i
  OBVIOUS
<1>10. InSequence(t, R)
  BY <1>6, <1>8 DEF InSequence
<1>11. QED
  BY <1>6, <1>8, <1>9, <1>10

\* The elements of a finite set can be sorted.
LEMMA Sortable ==
    ASSUME NEW S, IsFiniteSet(S), NEW R,
           \A a, b \in S : a # b => <<a, b>> \in R \/ <<b, a>> \in R,
           \A a, b, c \in S : <<a, b>> \in R /\ <<b, c>> \in R => <<a, c>> \in R
    PROVE  \E s \in SetToSeqs(S) : InSequence(s, R)
<1> DEFINE Sorted(T) == \E s \in SetToSeqs(T) : InSequence(s, R)
           B == {n \in Nat : \E T \in SUBSET S : Cardinality(T) = n /\ ~Sorted(T)}
<1>1. \A T \in SUBSET S : IsFiniteSet(T) /\ Cardinality(T) \in Nat
  BY FS_Subset, FS_CardinalityType
<1>2. CASE B = {}
  <2>1. S \in SUBSET S /\ Cardinality(S) \in Nat
    BY <1>1
  <2> HIDE DEF Sorted
  <2>2. Sorted(S)
    BY <1>2, <2>1
  <2>3. QED
    BY <2>2 DEF Sorted
<1>3. CASE B # {}
  <2>1. PICK n \in B : \A m \in B : n <= m
    <3>1. B \in SUBSET Nat
      OBVIOUS
    <3> HIDE DEF B
    <3>2. QED
      BY <1>3, <3>1, LeastNumber
  <2>2. PICK T \in SUBSET S : Cardinality(T) = n /\ ~Sorted(T)
    OBVIOUS
  <2>3. T # {}
    <3>1. CASE T = {}
      <4>1. Cardinality(T) = 0
        BY <3>1, FS_EmptySet
      <4>2. 1..Cardinality(T) = {}
        BY <4>1
      <4>3. <<>> \in SetToSeqs(T) /\ InSequence(<<>>, R)
        BY <3>1, <4>2 DEF SetToSeqs, InSequence
      <4>4. QED
        BY <2>2, <4>3
    <3>2. QED
      BY <3>1
  <2>4. PICK x \in T : TRUE
    BY <2>3
  <2>5. /\ T \ {x} \in SUBSET S
        /\ Cardinality(T \ {x}) \in Nat
        /\ Cardinality(T) = Cardinality(T \ {x}) + 1
    <3>1. T \ {x} \in SUBSET S /\ IsFiniteSet(T)
      BY <1>1
    <3>2. Cardinality(T \ {x}) = Cardinality(T) - 1
      BY <3>1, <2>4, FS_RemoveElement
    <3>3. QED
      BY <1>1, <3>1, <3>2
  <2> DEFINE m == Cardinality(T \ {x})
  <2>6. m \notin B
    <3>1. m < n
      BY <2>2, <2>5
    <3>2. ~(n <= m)
      <4>1. n \in Nat /\ m \in Nat
        BY <2>5
      <4> HIDE DEF m, B
      <4>2. QED
        BY <3>1, <4>1
    <3> HIDE DEF m, B
    <3>3. QED
      BY <2>1, <3>2
  <2>7. Sorted(T \ {x})
    BY <2>5, <2>6
  <2>8. PICK s \in SetToSeqs(T \ {x}) : InSequence(s, R)
    BY <2>7
  <2>9. /\ s \in [1..m -> T \ {x}]
        /\ \A i, j \in 1..m : i # j => s[i] # s[j]
    BY DEF SetToSeqs
  <2> HIDE DEF B
  <2>10. \E t \in [1..(m + 1) -> T] : (\A i, j \in 1..(m + 1) : i # j => t[i] # t[j]) /\ InSequence(t, R)
    <3>1. /\ \A a, b \in T : a # b => <<a, b>> \in R \/ <<b, a>> \in R
          /\ \A a, b, c \in T : <<a, b>> \in R /\ <<b, c>> \in R => <<a, c>> \in R
      OBVIOUS
    <3> HIDE DEF m
    <3>2. m \in Nat
      BY <2>5 DEF m
    <3>3. QED
      BY <2>8, <2>9, <3>1, <3>2, Inserted
  <2>11. 1..Cardinality(T) = 1..(m + 1)
    BY <2>5
  <2>12. Sorted(T)
    BY <2>10, <2>11 DEF SetToSeqs
  <2>13. QED
    BY <2>2, <2>12
<1>4. QED
  BY <1>2, <1>3

\* R puts any two members of S in an order.
Total(S, R) == \A a, b \in S : a # b => <<a, b>> \in R \/ <<b, a>> \in R
Transitive(S, R) == \A a, b, c \in S : <<a, b>> \in R /\ <<b, c>> \in R => <<a, c>> \in R

BetterAt(at) == {p \in Evidence \X Evidence : Better(at, p[1], p[2])}
SoonerAt(at) == {p \in Evidence \X Evidence : Sooner(at, p[1], p[2])}

\* The ranking is an order of the observations, and so is what is kept first.
LEMMA BetterOrders == ASSUME NEW at PROVE Total(Evidence, BetterAt(at)) /\ Transitive(Evidence, BetterAt(at))
<1>1. \A e \in Evidence : Score(e, at) \in Int /\ e \in Int
  BY ContractConstants DEF Score
<1>2. \A e, f \in Evidence : <<e, f>> \in BetterAt(at) <=> Better(at, e, f)
  BY DEF BetterAt
<1>3. \A e, f \in Evidence : e # f => Better(at, e, f) \/ Better(at, f, e)
  BY <1>1 DEF Better
<1>4. \A e, f, g \in Evidence : Better(at, e, f) /\ Better(at, f, g) => Better(at, e, g)
  BY <1>1 DEF Better
<1>5. QED
  BY <1>2, <1>3, <1>4 DEF Total, Transitive

LEMMA SoonerOrders == ASSUME NEW at PROVE Total(Evidence, SoonerAt(at)) /\ Transitive(Evidence, SoonerAt(at))
<1> DEFINE First(e) == e \in Failed /\ EvidenceHead[e] = at
<1>1. \A e, f \in Evidence : Sooner(at, e, f) <=> IF First(e) <=> First(f) THEN Better(at, e, f) ELSE First(e)
  BY DEF Sooner, Critical
<1>2. \A e, f \in Evidence : /\ <<e, f>> \in BetterAt(at) <=> Better(at, e, f)
                             /\ <<e, f>> \in SoonerAt(at) <=> Sooner(at, e, f)
  BY DEF BetterAt, SoonerAt
<1> HIDE DEF First
<1>3. QED
  BY <1>1, <1>2, BetterOrders DEF Total, Transitive

\* What Ordered returns of a finite set of observations.
SortedBy(s, S, R) ==
    /\ s \in Seq(S) /\ Len(s) = Cardinality(S)
    /\ \A e \in S : \E i \in DOMAIN s : s[i] = e
    /\ InSequence(s, R)

LEMMA SortedPicked ==
    ASSUME NEW S \in SUBSET Evidence, IsFiniteSet(S), NEW R, Total(Evidence, R), Transitive(Evidence, R)
    PROVE  /\ \E s \in SetToSeqs(S) : InSequence(s, R)
           /\ \A s \in SetToSeqs(S) : InSequence(s, R) => SortedBy(s, S, R)
<1>1. \E s \in SetToSeqs(S) : InSequence(s, R)
  BY Sortable DEF Total, Transitive
<1>2. ASSUME NEW s \in SetToSeqs(S), InSequence(s, R) PROVE SortedBy(s, S, R)
  <2> DEFINE n == Cardinality(S)
  <2>1. n \in Nat /\ s \in [1..n -> S] /\ \A i, j \in 1..n : i # j => s[i] # s[j]
    BY FS_CardinalityType DEF SetToSeqs
  <2>2. s \in Seq(S) /\ Len(s) = n /\ DOMAIN s = 1..n
    BY <2>1
  <2>3. IsFiniteSet(1..n) /\ Cardinality(1..n) = n
    <3>1. 1 \in Int /\ n \in Int
      BY <2>1
    <3> HIDE DEF n
    <3>2. Cardinality(1..n) = IF 1 > n THEN 0 ELSE n - 1 + 1
      BY <3>1, FS_Interval
    <3>3. QED
      BY <2>1, <3>1, <3>2, FS_Interval
  <2>4. s \in Injection(1..n, S)
    BY <2>1 DEF Injection, IsInjective
  <2>5. s \in Surjection(1..n, S)
    BY <2>3, <2>4, FS_Injection
  <2>6. \A e \in S : \E i \in 1..n : s[i] = e
    BY <2>5 DEF Surjection
  <2>7. QED
    BY <1>2, <2>2, <2>6 DEF SortedBy
<1>3. QED
  BY <1>1, <1>2

LEMMA OrderedSorts ==
    ASSUME NEW S \in SUBSET Evidence, IsFiniteSet(S), NEW at
    PROVE  SortedBy(Ordered(S, at), S, SoonerAt(at)) /\ SortedBy(Ranked(S, at), S, BetterAt(at))
<1>1. ASSUME NEW s \in SetToSeqs(S)
      PROVE  /\ InSequence(s, SoonerAt(at)) <=> \A i, j \in DOMAIN s : i < j => Sooner(at, s[i], s[j])
             /\ InSequence(s, BetterAt(at)) <=> \A i, j \in DOMAIN s : i < j => Better(at, s[i], s[j])
  <2>1. \A i \in DOMAIN s : s[i] \in Evidence
    BY DEF SetToSeqs
  <2>2. QED
    BY <2>1 DEF InSequence, SoonerAt, BetterAt
<1>2. /\ \E s \in SetToSeqs(S) : \A i, j \in DOMAIN s : i < j => Sooner(at, s[i], s[j])
      /\ \E s \in SetToSeqs(S) : \A i, j \in DOMAIN s : i < j => Better(at, s[i], s[j])
  BY <1>1, SoonerOrders, BetterOrders, SortedPicked
<1>3. /\ Ordered(S, at) \in SetToSeqs(S) /\ InSequence(Ordered(S, at), SoonerAt(at))
      /\ Ranked(S, at) \in SetToSeqs(S) /\ InSequence(Ranked(S, at), BetterAt(at))
  BY <1>1, <1>2 DEF Ordered, Ranked
<1>4. QED
  BY <1>3, SoonerOrders, BetterOrders, SortedPicked

\* What the response being built is: what is selected begins the list of a set
\* of candidates in their order, these are the newest rows, and the receipt, once there is one, is of what is selected.
Fitting(r) ==
    /\ r.candidates \in SUBSET Evidence /\ IsFiniteSet(r.candidates)
    /\ r.candidates = Newest(r.all, r.rows) /\ \A e \in r.all : Cardinality(Newer(r.all, e)) \in Nat
    /\ r.rows \in Nat
    /\ r.selected \in Seq(Evidence)
    /\ \E L \in SUBSET r.candidates :
          /\ r.limited = Cardinality(L)
          /\ Len(r.selected) <= Cardinality(L)
          /\ \A i \in 1..Len(r.selected) : r.selected[i] = Ordered(L, r.head)[i]
    /\ r.receipt = NoReply \/ r.receipt = ReceiptOf(r)

\* What Seal makes of it.
SealOf(r) ==
    [op |-> "sealed", body |-> Body(r), seal |-> r.receipt, hash |-> Body(r),
     budget |-> BudgetOf(r), of |-> r.candidates, limit |-> r.budget,
     all |-> r.all, rows |-> r.rows]

\* Seal's guard.
Sealable(r) == WithinBudget(r) /\ r.receipt = ReceiptOf(r) /\ r.receipt # NoReply

\* The stages of a reply.
Collecting(r) == \E at \in Heads, budget \in EvidenceBudgets, limit \in EvidenceLimits :
                     r = [op |-> "collect", head |-> at, budget |-> budget, limit |-> limit]

FitReply(r) == \E at, budget, candidates, limited, selected, receipt, all, taken :
                   r = [op |-> "fit", head |-> at, budget |-> budget, candidates |-> candidates,
                        limited |-> limited, selected |-> selected, receipt |-> receipt,
                        all |-> all, rows |-> taken]

\* The inductive invariant: what the reply is at each stage.
ContractInv ==
    /\ head \in Heads
    /\ found \in SUBSET Evidence /\ IsFiniteSet(found)
    /\ \/ reply = NoReply
       \/ Collecting(reply)
       \/ FitReply(reply) /\ Fitting(reply)
       \/ \E r : FitReply(r) /\ Fitting(r) /\ Sealable(r) /\ reply = SealOf(r)
       \/ reply.op = "forwarded" /\ reply.hash # reply.body
    /\ verdict.valid = verdict.whole

\* What is selected at first is all that is in order.
LEMMA CollectedFits ==
    ASSUME NEW all \in SUBSET Evidence, IsFiniteSet(all), NEW taken \in Nat,
           NEW S, S = Newest(all, taken), NEW at, NEW limit \in Nat, NEW budget
    PROVE  LET best == Ranked(S, at)
               limited == Ordered({best[k] : k \in DOMAIN best \cap 1..limit}, at)
           IN  Fitting([op |-> "fit", head |-> at, budget |-> budget, candidates |-> S,
                        limited |-> Len(limited), selected |-> limited, receipt |-> NoReply,
                        all |-> all, rows |-> taken])
<1> DEFINE best == Ranked(S, at)
           L == {best[k] : k \in DOMAIN best \cap 1..limit}
           o == Ordered(L, at)
<1>0. S \in SUBSET Evidence /\ IsFiniteSet(S)
  <2>1. S \subseteq all
    BY DEF Newest
  <2>2. QED
    BY <2>1, FS_Subset
<1>1. best \in Seq(S)
  BY <1>0, OrderedSorts DEF SortedBy
<1>2. L \in SUBSET S
  <2>1. \A k \in DOMAIN best : best[k] \in S
    BY <1>1
  <2>2. QED
    BY <2>1
<1>3. IsFiniteSet(L) /\ L \in SUBSET Evidence
  BY <1>0, <1>2, FS_Subset
<1>9. \A e \in all : Cardinality(Newer(all, e)) \in Nat
  <2>1. \A e \in all : IsFiniteSet(Newer(all, e))
    BY FS_Subset DEF Newer
  <2>2. QED
    BY <2>1, FS_CardinalityType
<1> HIDE DEF L, best
<1>4. o \in Seq(L) /\ Len(o) = Cardinality(L)
  BY <1>3, OrderedSorts DEF SortedBy
<1> DEFINE r == [op |-> "fit", head |-> at, budget |-> budget, candidates |-> S,
                 limited |-> Len(o), selected |-> o, receipt |-> NoReply, all |-> all, rows |-> taken]
<1>5. o \in Seq(Evidence) /\ Len(o) \in Nat
  BY <1>3, <1>4
<1>6. /\ r.head = at /\ r.selected = o /\ r.limited = Len(o) /\ r.candidates = S /\ r.receipt = NoReply
      /\ r.all = all /\ r.rows = taken
  OBVIOUS
<1>7. Fitting(r)
  <2>1. Len(r.selected) <= Cardinality(L)
    BY <1>4, <1>5, <1>6
  <2> HIDE DEF r
  <2>2. \A i \in 1..Len(r.selected) : r.selected[i] = Ordered(L, r.head)[i]
    BY <1>6
  <2>3. QED
    BY <1>0, <1>2, <1>4, <1>5, <1>6, <1>9, <2>1, <2>2 DEF Fitting
<1>8. QED
  BY <1>7 DEF L, best

\* All but the last item.
LEMMA FrontKeeps ==
    ASSUME NEW S, NEW s \in Seq(S), s # <<>>
    PROVE  /\ Front(s) \in Seq(S) /\ Len(Front(s)) = Len(s) - 1 /\ Front(s) # s
           /\ \A i \in 1..Len(Front(s)) : Front(s)[i] = s[i]
<1>1. Len(s) \in Nat \ {0} /\ \A i \in 1..(Len(s) - 1) : s[i] \in S
  OBVIOUS
<1> DEFINE n == Len(s) - 1
<1>2. 1 \in Int /\ n \in Nat
  BY <1>1
<1>3. /\ SubSeq(s, 1, n) \in Seq(S)
      /\ Len(SubSeq(s, 1, n)) = IF 1 <= n THEN n - 1 + 1 ELSE 0
      /\ \A i \in 1..(n - 1 + 1) : SubSeq(s, 1, n)[i] = s[1 + i - 1]
  BY <1>1, <1>2, SubSeqProperties
<1>4. Len(SubSeq(s, 1, n)) = n /\ \A i \in 1..n : SubSeq(s, 1, n)[i] = s[i]
  <2> HIDE DEF n
  <2>1. n - 1 + 1 = n /\ \A i \in 1..n : 1 + i - 1 = i
    BY <1>2
  <2>2. QED
    BY <1>2, <1>3, <2>1
<1>5. n # Len(s)
  BY <1>1
<1>6. QED
  BY <1>3, <1>4, <1>5 DEF Front

\* What remains when the last item goes.
LEMMA DroppedFits ==
    ASSUME NEW r, FitReply(r), Fitting(r), r.selected # <<>>
    PROVE  LET q == [r EXCEPT !.selected = Front(@)]
               p == [q EXCEPT !.receipt = ReceiptOf(q)]
           IN  /\ r.receipt = NoReply => FitReply(q) /\ Fitting(q)
               /\ FitReply(p) /\ Fitting(p)
<1> DEFINE q == [r EXCEPT !.selected = Front(@)]
           p == [q EXCEPT !.receipt = ReceiptOf(q)]
<1>1. PICK at, budget, candidates, limited, selected, old, all, taken :
         r = [op |-> "fit", head |-> at, budget |-> budget, candidates |-> candidates,
              limited |-> limited, selected |-> selected, receipt |-> old, all |-> all, rows |-> taken]
  BY DEF FitReply
<1> DEFINE Shorter(receipt) ==
              [op |-> "fit", head |-> at, budget |-> budget, candidates |-> candidates,
               limited |-> limited, selected |-> Front(selected), receipt |-> receipt,
               all |-> all, rows |-> taken]
<1>2. q = Shorter(old) /\ r.receipt = old
  BY <1>1
<1>3. p = Shorter(ReceiptOf(q))
  <2> HIDE DEF q
  <2>1. QED
    BY <1>2
<1>4. ReceiptOf(q) = ReceiptOf(p)
  <2> HIDE DEF p, q
  <2>1. QED
    BY <1>2, <1>3 DEF ReceiptOf
<1>5. /\ Front(selected) \in Seq(Evidence) /\ Len(Front(selected)) = Len(selected) - 1
      /\ \A i \in 1..Len(Front(selected)) : Front(selected)[i] = selected[i]
      /\ Len(selected) \in Nat \ {0}
  <2>1. selected \in Seq(Evidence) /\ selected # <<>>
    BY <1>1 DEF Fitting
  <2>2. QED
    BY <2>1, FrontKeeps
<1>6. PICK L \in SUBSET candidates :
           /\ limited = Cardinality(L)
           /\ Len(selected) <= Cardinality(L)
           /\ \A i \in 1..Len(selected) : selected[i] = Ordered(L, at)[i]
  BY <1>1 DEF Fitting
<1>7. /\ IsFiniteSet(candidates) /\ candidates \in SUBSET Evidence /\ taken \in Nat
      /\ candidates = Newest(all, taken) /\ \A e \in all : Cardinality(Newer(all, e)) \in Nat
  BY <1>1 DEF Fitting
<1>8. Cardinality(L) \in Nat
  BY <1>7, FS_Subset, FS_CardinalityType
<1>9. /\ Len(Front(selected)) <= Cardinality(L)
      /\ \A i \in 1..Len(Front(selected)) : Front(selected)[i] = Ordered(L, at)[i]
  BY <1>5, <1>6, <1>8
<1>10. ASSUME NEW receipt, NEW s, s = Shorter(receipt), receipt = NoReply \/ receipt = ReceiptOf(s)
       PROVE  FitReply(s) /\ Fitting(s)
  <2>1. FitReply(s)
    BY <1>10 DEF FitReply
  <2>2. Fitting(s)
    BY <1>5, <1>6, <1>7, <1>9, <1>10 DEF Fitting
  <2>3. QED
    BY <2>1, <2>2
<1>11. QED
  <2> HIDE DEF p, q, Shorter
  <2>1. r.receipt = NoReply => FitReply(q) /\ Fitting(q)
    BY <1>2, <1>10
  <2>2. FitReply(p) /\ Fitting(p)
    BY <1>3, <1>4, <1>10
  <2>3. QED
    BY <2>1, <2>2 DEF p, q

\* A response as it was sealed verifies: its counts are those of its receipt.
LEMMA SealVerifies ==
    ASSUME NEW r, Fitting(r), r.receipt = ReceiptOf(r)
    PROVE  Verified(SealOf(r))
<1>1. PICK L \in SUBSET r.candidates : r.limited = Cardinality(L)
  BY DEF Fitting
<1>2. /\ Cardinality(r.candidates) \in Nat /\ r.limited \in Nat
      /\ Len(r.selected) \in Nat
  BY <1>1, FS_Subset, FS_CardinalityType DEF Fitting
<1> DEFINE s == SealOf(r)
<1>3. /\ s.hash = Body(r) /\ s.body = Body(r) /\ s.budget = BudgetOf(r) /\ s.seal = ReceiptOf(r)
      /\ s.body.budget = BudgetOf(r) /\ s.body.head = r.head /\ s.body.selected = r.selected
  BY DEF SealOf, Body
<1> HIDE DEF s
<1>4. Verified(s)
  BY <1>2, <1>3 DEF Verified, BudgetOf, ReceiptOf
<1>5. QED
  BY <1>4 DEF s

\* One that lost an item does not, whatever was done to its counts.
LEMMA TrimmedDiffers ==
    ASSUME NEW r, Fitting(r), NEW s, s = SealOf(r), s.body.selected # <<>>, NEW t \in Trimmed(s)
    PROVE  t.hash # t.body
<1>1. s.body.selected = r.selected /\ s.hash = Body(r) /\ s.body = Body(r) /\ Body(r).selected = r.selected
  BY DEF SealOf, Body
<1>2. Front(r.selected) # r.selected
  BY <1>1, FrontKeeps DEF Fitting
<1>3. t.hash = Body(r)
  BY DEF Trimmed, SealOf
<1>4. t.body.selected = Front(r.selected)
  <2> DEFINE b == [s.body EXCEPT !.selected = Front(@)]
             c == [b EXCEPT !.budget.selected = @ - 1]
  <2>1. t.body = b \/ t.body = c
    BY DEF Trimmed, SealOf
  <2>2. b.selected = Front(r.selected)
    BY <1>1 DEF Body
  <2>3. c.selected = b.selected
    BY DEF SealOf, Body
  <2>4. QED
    BY <2>1, <2>2, <2>3
<1>5. QED
  BY <1>1, <1>2, <1>3, <1>4

\* What is dropped of a list in order: if something not critical is kept, all
\* that is critical in the list is.
LEMMA CriticalKept ==
    ASSUME NEW r, Fitting(r), NEW L \in SUBSET r.candidates,
           \A i \in 1..Len(r.selected) : r.selected[i] = Ordered(L, r.head)[i],
           Len(r.selected) <= Cardinality(L),
           NEW e \in Range(r.selected), e \notin Critical(r.candidates, r.head)
    PROVE  Critical(r.candidates, r.head) \ Range(r.selected) \subseteq r.candidates \ L
<1> DEFINE o == Ordered(L, r.head)
           s == r.selected
<1>1. IsFiniteSet(L) /\ L \in SUBSET Evidence /\ s \in Seq(Evidence) /\ r.candidates \in SUBSET Evidence
  BY FS_Subset DEF Fitting
<1>2. SortedBy(o, L, SoonerAt(r.head))
  BY <1>1, OrderedSorts
<1>3. o \in Seq(L) /\ Len(o) = Cardinality(L) /\ DOMAIN o = 1..Len(o) /\ DOMAIN s = 1..Len(s)
      /\ Len(s) \in Nat /\ Len(o) \in Nat
  BY <1>1, <1>2 DEF SortedBy
<1>4. PICK k \in 1..Len(s) : s[k] = e
  BY <1>3 DEF Range
<1> HIDE DEF o, s
<1>5. k \in 1..Len(o) /\ o[k] = e
  BY <1>3, <1>4 DEF o, s
<1>6. ASSUME NEW x \in Critical(r.candidates, r.head), x \in L PROVE x \in Range(s)
  <2>1. PICK m \in 1..Len(o) : o[m] = x
    BY <1>2, <1>3, <1>6 DEF SortedBy
  <2>2. CASE m <= Len(s)
    <3>1. m \in 1..Len(s) /\ s[m] = x
      BY <1>3, <2>1, <2>2 DEF o, s
    <3>2. QED
      BY <1>3, <3>1 DEF Range
  <2>3. CASE ~(m <= Len(s))
    <3>1. k < m
      BY <1>3, <1>4, <2>1, <2>3
    <3>2. <<e, x>> \in SoonerAt(r.head)
      BY <1>2, <1>3, <1>5, <2>1, <3>1 DEF SortedBy, InSequence
    <3>3. Sooner(r.head, e, x)
      BY <3>2 DEF SoonerAt
    <3>4. e \in r.candidates
      BY <1>3, <1>5
    <3>5. QED
      BY <1>6, <3>3, <3>4 DEF Sooner, Critical
  <2>4. QED
    BY <2>2, <2>3
<1>7. QED
  BY <1>6 DEF Critical, s

\* What a sealed response tells of what was left out.
LEMMA SealTells ==
    ASSUME NEW r, Fitting(r), Sealable(r), reply = SealOf(r)
    PROVE  CriticalTold
<1> DEFINE C == Critical(r.candidates, r.head)
           kept == Range(r.selected)
<1>1. /\ reply.body.selected = r.selected /\ reply.of = r.candidates /\ reply.body.head = r.head
      /\ reply.body.budget = BudgetOf(r) /\ reply.seal = ReceiptOf(r) /\ reply.limit = r.budget
      /\ reply.all = r.all /\ reply.rows = r.rows
  BY DEF SealOf, Body, Sealable
<1>2. (C \ kept # {}) = reply.body.budget.omitted
  BY <1>1 DEF BudgetOf
<1>3. PICK L \in SUBSET r.candidates :
           /\ r.limited = Cardinality(L)
           /\ Len(r.selected) <= Cardinality(L)
           /\ \A i \in 1..Len(r.selected) : r.selected[i] = Ordered(L, r.head)[i]
  BY DEF Fitting
<1>4. ASSUME ~(kept \subseteq C) PROVE Cardinality(C \ kept) <= reply.seal.reasons[1]
  <2>1. C \ kept \subseteq r.candidates \ L
    BY <1>3, <1>4, CriticalKept
  <2>2. IsFiniteSet(r.candidates) /\ IsFiniteSet(L) /\ Cardinality(L) \in Nat /\ Cardinality(r.candidates) \in Nat
    BY FS_Subset, FS_CardinalityType DEF Fitting
  <2>3. Cardinality(r.candidates \ L) = Cardinality(r.candidates) - Cardinality(L)
    <3>1. r.candidates \cap L = L
      OBVIOUS
    <3>2. QED
      BY <2>2, <3>1, FS_Difference
  <2>4. Cardinality(C \ kept) <= Cardinality(r.candidates \ L)
    <3>1. IsFiniteSet(r.candidates \ L)
      BY <2>2, FS_Difference
    <3>2. QED
      BY <2>1, <3>1, FS_Subset
  <2>5. reply.seal.reasons[1] = Cardinality(r.candidates) - r.limited
    BY <1>1 DEF ReceiptOf
  <2>6. QED
    BY <1>3, <2>3, <2>4, <2>5
<1>5. kept # {} => Tokens(r.selected) + ReceiptCost <= r.budget
  <2>1. ASSUME kept # {} PROVE r.selected # <<>>
    BY <2>1 DEF Range
  <2>2. QED
    BY <2>1 DEF Sealable, WithinBudget
<1>7. ASSUME NEW e \in Critical(reply.all, r.head) \ kept
      PROVE  reply.body.budget.omitted \/ Cardinality(Newer(reply.all, e)) >= reply.rows
  <2>1. e \in r.all /\ r.candidates = Newest(r.all, r.rows) /\ Cardinality(Newer(r.all, e)) \in Nat /\ r.rows \in Nat
    BY <1>1, <1>7 DEF Critical, Fitting
  <2>2. CASE e \in r.candidates
    BY <1>2, <1>7, <2>2 DEF Critical
  <2>3. CASE e \notin r.candidates
    <3>1. ~(Cardinality(Newer(r.all, e)) < r.rows)
      BY <2>1, <2>3 DEF Newest
    <3>2. QED
      BY <1>1, <2>1, <3>1
  <2>4. QED
    BY <2>2, <2>3
<1> HIDE DEF C, kept
<1>6. QED
  BY <1>1, <1>2, <1>4, <1>5, <1>7 DEF CriticalTold, C, kept

\* Every action keeps the inductive invariant.
LEMMA ContractStep == ASSUME ContractInv, [ContractNext]_contractVars PROVE ContractInv'
<1>1. CASE BeginReply
  <2>1. Collecting(reply')
    BY <1>1 DEF BeginReply, Collecting, ContractInv
  <2>2. QED
    BY <1>1, <2>1 DEF BeginReply, ContractInv
<1>2. CASE Collect
  <2>1. reply.op = "collect" /\ Collecting(reply)
    BY <1>2 DEF Collect, ContractInv, NoReply, FitReply, SealOf
  <2>2. PICK at \in Heads, budget \in EvidenceBudgets, limit \in EvidenceLimits :
           reply = [op |-> "collect", head |-> at, budget |-> budget, limit |-> limit]
    BY <2>1 DEF Collecting
  <2>3. limit \in Nat /\ found \in SUBSET Evidence /\ IsFiniteSet(found) /\ RowLimit(limit) \in Nat
    <3>1. limit \in Nat /\ LeastRows \in Nat /\ MostRows \in Nat /\ RowsPerItem \in Nat
      BY ContractConstants
    <3>2. limit * RowsPerItem \in Nat
      BY <3>1
    <3>3. QED
      BY <3>1, <3>2 DEF RowLimit, ContractInv
  <2> DEFINE taken == Newest(found, RowLimit(limit))
             best == Ranked(taken, at)
             limited == Ordered({best[k] : k \in DOMAIN best \cap 1..limit}, at)
  <2>4. reply' = [op |-> "fit", head |-> at, budget |-> budget, candidates |-> taken,
                  limited |-> Len(limited), selected |-> limited, receipt |-> NoReply,
                  all |-> found, rows |-> RowLimit(limit)]
    <3>1. reply.head = at /\ reply.budget = budget /\ reply.limit = limit
      BY <2>2
    <3>2. QED
      BY <1>2, <3>1 DEF Collect
  <2>5. Fitting(reply')
    <3>1. taken = Newest(found, RowLimit(limit))
      OBVIOUS
    <3>2. QED
      BY <2>3, <2>4, <3>1, CollectedFits
  <2>6. FitReply(reply')
    <3> HIDE DEF limited
    <3>1. QED
      BY <2>4 DEF FitReply
  <2>7. QED
    BY <1>2, <2>5, <2>6 DEF Collect, ContractInv
<1>3. ASSUME reply.op = "fit" PROVE FitReply(reply) /\ Fitting(reply)
  BY <1>3 DEF ContractInv, NoReply, Collecting, SealOf
<1>4. CASE Drop
  <2>1. FitReply(reply) /\ Fitting(reply) /\ reply.selected # <<>>
    BY <1>3, <1>4 DEF Drop, WithinBudget
  <2> DEFINE q == [reply EXCEPT !.selected = Front(@)]
             p == [q EXCEPT !.receipt = ReceiptOf(q)]
  <2>2. (reply.receipt = NoReply => FitReply(q) /\ Fitting(q)) /\ FitReply(p) /\ Fitting(p)
    BY <2>1, DroppedFits
  <2>3. reply' = IF reply.receipt = NoReply THEN q ELSE p
    BY <1>4 DEF Drop
  <2> HIDE DEF p, q
  <2>4. FitReply(reply') /\ Fitting(reply')
    BY <2>2, <2>3
  <2>5. QED
    BY <1>4, <2>4 DEF Drop, ContractInv
<1>5. CASE AttachReceipt
  <2>1. FitReply(reply) /\ Fitting(reply)
    BY <1>3, <1>5 DEF AttachReceipt
  <2>2. PICK at, budget, candidates, limited, selected, old, all, taken :
         reply = [op |-> "fit", head |-> at, budget |-> budget, candidates |-> candidates,
                  limited |-> limited, selected |-> selected, receipt |-> old, all |-> all, rows |-> taken]
    BY <2>1 DEF FitReply
  <2>3. reply' = [op |-> "fit", head |-> at, budget |-> budget, candidates |-> candidates,
                  limited |-> limited, selected |-> selected, receipt |-> ReceiptOf(reply),
                  all |-> all, rows |-> taken]
    BY <1>5, <2>2 DEF AttachReceipt, Receipted
  <2>4. ReceiptOf(reply) = ReceiptOf(reply')
    BY <2>2, <2>3 DEF ReceiptOf
  <2>5. FitReply(reply') /\ Fitting(reply')
    BY <2>1, <2>2, <2>3, <2>4 DEF FitReply, Fitting
  <2>6. QED
    BY <1>5, <2>5 DEF AttachReceipt, ContractInv
<1>6. CASE Seal
  <2>1. FitReply(reply) /\ Fitting(reply) /\ Sealable(reply)
    BY <1>3, <1>6 DEF Seal, Sealable, Fitting
  <2>2. reply' = SealOf(reply)
    BY <1>6 DEF Seal, SealOf
  <2>3. QED
    BY <1>6, <2>1, <2>2 DEF Seal, ContractInv
<1>7. CASE Forwarded
  <2>1. PICK r : FitReply(r) /\ Fitting(r) /\ reply = SealOf(r)
    BY <1>7 DEF Forwarded, ContractInv, NoReply, Collecting, FitReply
  <2>2. PICK t \in Trimmed(reply) : reply' = [t EXCEPT !.op = "forwarded"]
    BY <1>7 DEF Forwarded
  <2>3. t.hash # t.body
    BY <1>7, <2>1, TrimmedDiffers DEF Forwarded
  <2>4. reply'.op = "forwarded" /\ reply'.hash = t.hash /\ reply'.body = t.body
    BY <2>1, <2>2 DEF Trimmed, SealOf
  <2>5. QED
    BY <1>7, <2>3, <2>4 DEF Forwarded, ContractInv
<1>8. CASE Verify
  <2>1. Verified(reply) = (reply.op = "sealed")
    <3>1. CASE reply.op = "forwarded"
      <4>1. reply.hash # reply.body
        BY <3>1 DEF ContractInv, NoReply, Collecting, FitReply, SealOf
      <4>2. QED
        BY <3>1, <4>1 DEF Verified
    <3>2. CASE reply.op = "sealed"
      <4>1. PICK r : Fitting(r) /\ Sealable(r) /\ reply = SealOf(r)
        BY <3>2 DEF ContractInv, NoReply, Collecting, FitReply
      <4>2. Verified(reply)
        BY <4>1, SealVerifies DEF Sealable
      <4>3. QED
        BY <3>2, <4>2
    <3>3. QED
      BY <1>8, <3>1, <3>2 DEF Verify
  <2>2. QED
    BY <1>8, <2>1 DEF Verify, ContractInv
<1>9. CASE Observed \/ Pruned \/ Moves
  <2>1. found' \in SUBSET Evidence /\ IsFiniteSet(found')
    BY <1>9, FS_AddElement, FS_RemoveElement DEF Observed, Pruned, Moves, ContractInv
  <2>2. QED
    BY <1>9, <2>1 DEF Observed, Pruned, Moves, ContractInv
<1>10. CASE UNCHANGED contractVars
  BY <1>10 DEF contractVars, ContractInv
<1>11. QED
  BY <1>1, <1>2, <1>4, <1>5, <1>6, <1>7, <1>8, <1>9, <1>10 DEF ContractNext

\* The evidence a host is given (build_observation_response, verify_receipt_payload): whatever
\* is found, added, pruned and committed meanwhile, a critical failure that is not told is told
\* to be missing unless a LIMIT's worth of rows is newer, nothing less important is kept in its place, and a response verifies exactly
\* if it arrives as it was sealed.
THEOREM OmissionsTold == ContractSpec => []OmissionsVisible
<1>1. ContractInit => ContractInv
  BY FS_EmptySet DEF ContractInit, ContractInv
<1>2. ContractInv => OmissionsVisible
  <2>1. ASSUME ContractInv PROVE CriticalTold
    <3>1. CASE reply.op = "sealed"
      <4>1. PICK r : Fitting(r) /\ Sealable(r) /\ reply = SealOf(r)
        BY <2>1, <3>1 DEF ContractInv, NoReply, Collecting, FitReply
      <4>2. QED
        BY <4>1, SealTells
    <3>2. QED
      BY <3>1 DEF CriticalTold
  <2>2. QED
    BY <2>1 DEF OmissionsVisible, ReceiptVerifies, ContractInv
<1>3. QED
  BY <1>1, <1>2, ContractStep, PTL DEF ContractSpec
=============================================================================
