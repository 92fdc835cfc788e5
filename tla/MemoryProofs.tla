---------------------------- MODULE MemoryProofs ----------------------------
(***************************************************************************)
(* Proofs about the memory: its tables (MemoryTables), the passive memory  *)
(* over them (PassiveMemory), the artifacts made from it (TypedMemory) and *)
(* the handlers of a session that call it (Lifecycle).                     *)
(*                                                                         *)
(* A deletion takes more along than it names: what derives from a row, and *)
(* the disputes of what is gone.  What is kept is the same for all of them *)
(* (Trims), so the proof says once what a deletion leaves, then what each  *)
(* transaction does to the tables and to the calls that wait (MemInv), and *)
(* last what the handlers make of it (HookInv).                            *)
(***************************************************************************)
EXTENDS TypedMemory, Lifecycle, FiniteSetTheorems, WellFoundedInduction, TLAPS

\* A set of numbers that is not empty has a least one.
LEMMA LeastNumber == ASSUME NEW B \in SUBSET Nat, B # {} PROVE \E n \in B : \A m \in B : n <= m
<1> DEFINE Below == {1..n : n \in B}
<1>1. Below # {} /\ Below \subseteq FiniteSubsetsOf(Nat)
  <2>1. ASSUME NEW n \in B PROVE 1..n \in FiniteSubsetsOf(Nat)
    <3>1. n \in Int /\ 1 \in Int
      OBVIOUS
    <3>2. IsFiniteSet(1..n)
      BY <3>1, FS_Interval
    <3>3. 1..n \in SUBSET Nat
      OBVIOUS
    <3>4. QED
      BY <3>2, <3>3 DEF FiniteSubsetsOf
  <2>2. QED
    BY <2>1
<1>2. IsWellFoundedOn(StrictSubsetOrdering(Nat), FiniteSubsetsOf(Nat))
  BY FS_StrictSubsetOrderingWellFounded
<1>3. PICK x \in Below : \A y \in Below : <<y, x>> \notin StrictSubsetOrdering(Nat)
  BY <1>1, <1>2, WFMin
<1>4. PICK n \in B : x = 1..n
  OBVIOUS
<1>5. ASSUME NEW m \in B, m < n PROVE FALSE
  <2>1. 1..m \in Below /\ 1..m \subseteq 1..n /\ n \in 1..n /\ n \notin 1..m
    BY <1>5
  <2>2. <<1..m, 1..n>> \in StrictSubsetOrdering(Nat)
    BY <2>1 DEF StrictSubsetOrdering
  <2>3. QED
    BY <1>3, <1>4, <2>1, <2>2
<1>6. QED
  BY <1>5

\* What holds of 0, and of n + 1 where it holds of n, holds of every number.
LEMMA SetInduction == ASSUME NEW S, 0 \in S, \A n \in Nat : n \in S => n + 1 \in S PROVE Nat \subseteq S
<1> SUFFICES ASSUME Nat \ S # {} PROVE FALSE
  OBVIOUS
<1>1. PICK n \in Nat \ S : \A m \in Nat \ S : n <= m
  BY LeastNumber
<1>2. n # 0 /\ n - 1 \in Nat /\ n - 1 \in S
  BY <1>1
<1>3. QED
  BY <1>1, <1>2

(* Closures: the sets reached from S by N applications of F. *)

\* F takes subsets of U to subsets of U.
MapOn(U, F) == F \in [SUBSET U -> SUBSET U]

\* F keeps what it is given, and adds to it only of A.
Adds(U, F, A) == \A X \in SUBSET U : X \subseteq F[X] /\ F[X] \ X \subseteq A

\* g is F applied n times to S, for n up to N.
Iteration(U, F, S, N, g) ==
    /\ g[0] = S
    /\ \A i \in 1..N : g[i - 1] \in SUBSET U => g[i] = F[g[i - 1]]

\* C is the least set that holds S and what F adds to it within A.
ClosureOf(U, F, S, A, C) ==
    /\ C \in SUBSET U
    /\ S \subseteq C
    /\ C \ S \subseteq A
    /\ F[C] = C
    /\ \A T : S \subseteq T /\ (\A X \in SUBSET U : X \subseteq T => F[X] \subseteq T) => C \subseteq T

\* There is a function of the iterates of F, up to any number.
LEMMA Iterates ==
    ASSUME NEW U, NEW F, MapOn(U, F), NEW S \in SUBSET U, NEW N \in Nat
    PROVE  \E g : g \in [0..N -> SUBSET U] /\ Iteration(U, F, S, N, g)
<1>0. F \in [SUBSET U -> SUBSET U]
  BY DEF MapOn
<1> DEFINE Reached == {n \in Nat : \E g \in [0..n -> SUBSET U] : g[0] = S /\ \A i \in 1..n : g[i] = F[g[i - 1]]}
<1>1. 0 \in Reached
  <2> DEFINE h == [i \in 0..0 |-> S]
  <2>1. h \in [0..0 -> SUBSET U] /\ h[0] = S /\ \A i \in 1..0 : h[i] = F[h[i - 1]]
    OBVIOUS
  <2> HIDE DEF h
  <2>2. QED
    BY <2>1
<1>2. ASSUME NEW n \in Nat, n \in Reached PROVE n + 1 \in Reached
  <2>1. PICK g \in [0..n -> SUBSET U] : g[0] = S /\ \A i \in 1..n : g[i] = F[g[i - 1]]
    BY <1>2
  <2> DEFINE h == [i \in 0..(n + 1) |-> IF i = n + 1 THEN F[g[n]] ELSE g[i]]
  <2>2. h \in [0..(n + 1) -> SUBSET U]
    BY <1>0
  <2>3. h[0] = S
    BY <2>1
  <2>4. ASSUME NEW i \in 1..(n + 1) PROVE h[i] = F[h[i - 1]]
    <3>1. CASE i = n + 1
      BY <3>1
    <3>2. CASE i \in 1..n
      BY <2>1, <3>2
    <3>3. QED
      BY <3>1, <3>2
  <2> HIDE DEF h
  <2>5. \E f \in [0..(n + 1) -> SUBSET U] : f[0] = S /\ \A i \in 1..(n + 1) : f[i] = F[f[i - 1]]
    BY <2>2, <2>3, <2>4
  <2>6. QED
    BY <2>5
<1>3. Nat \subseteq Reached
  <2> HIDE DEF Reached
  <2>1. QED
    BY <1>1, <1>2, SetInduction
<1>4. PICK g \in [0..N -> SUBSET U] : g[0] = S /\ \A i \in 1..N : g[i] = F[g[i - 1]]
  BY <1>3
<1>5. QED
  BY <1>4 DEF Iteration

\* A closure that adds members of a finite set A only is reached in Cardinality(A) steps.
LEMMA Closure ==
    ASSUME NEW U, NEW F, MapOn(U, F), NEW S \in SUBSET U, NEW A, IsFiniteSet(A), Adds(U, F, A),
           NEW g, Iteration(U, F, S, Cardinality(A), g)
    PROVE  ClosureOf(U, F, S, A, g[Cardinality(A)])
<1> DEFINE N == Cardinality(A)
           Grows(i) == /\ g[i] \in SUBSET U
                       /\ S \subseteq g[i]
                       /\ g[i] \ S \subseteq A
                       /\ F[g[i]] = g[i] \/ Cardinality(g[i] \ S) >= i
                       /\ \A T : S \subseteq T /\ (\A X \in SUBSET U : X \subseteq T => F[X] \subseteq T)
                            => g[i] \subseteq T
           I == {i \in Nat : i <= N => Grows(i)}
<1>0. /\ N \in Nat
      /\ F \in [SUBSET U -> SUBSET U]
      /\ \A X \in SUBSET U : X \subseteq F[X] /\ F[X] \ X \subseteq A
      /\ g[0] = S
      /\ \A i \in 1..N : g[i - 1] \in SUBSET U => g[i] = F[g[i - 1]]
  BY FS_CardinalityType DEF MapOn, Adds, Iteration
<1>1. Grows(0)
  <2>1. g[0] \ S = {}
    BY <1>0
  <2>2. Cardinality(g[0] \ S) = 0
    BY <2>1, FS_EmptySet
  <2>3. QED
    BY <1>0, <2>1, <2>2
<1>2. ASSUME NEW i \in Nat, i + 1 <= N, Grows(i) PROVE Grows(i + 1)
  <2>1. g[i + 1] = F[g[i]]
    <3>1. i + 1 \in 1..N /\ (i + 1) - 1 = i
      BY <1>0, <1>2
    <3>2. QED
      BY <1>0, <1>2, <3>1
  <2>2. g[i + 1] \in SUBSET U /\ S \subseteq g[i + 1] /\ g[i + 1] \ S \subseteq A
    BY <1>0, <1>2, <2>1
  <2>3. ASSUME NEW T, S \subseteq T, \A X \in SUBSET U : X \subseteq T => F[X] \subseteq T
        PROVE  g[i + 1] \subseteq T
    BY <1>2, <2>1, <2>3
  <2>4. F[g[i + 1]] = g[i + 1] \/ Cardinality(g[i + 1] \ S) >= i + 1
    <3>1. CASE F[g[i]] = g[i]
      BY <2>1, <3>1
    <3>2. CASE F[g[i]] # g[i]
      <4>1. PICK x : x \in g[i + 1] \ g[i]
        BY <1>0, <1>2, <2>1, <3>2
      <4>2. (g[i] \ S) \cup {x} \in SUBSET (g[i + 1] \ S) /\ x \notin g[i] \ S
        BY <1>0, <1>2, <2>1, <4>1
      <4>3. IsFiniteSet(g[i] \ S) /\ IsFiniteSet(g[i + 1] \ S)
        BY <1>2, <2>2, FS_Subset
      <4>4. Cardinality((g[i] \ S) \cup {x}) = Cardinality(g[i] \ S) + 1
        BY <4>2, <4>3, FS_AddElement
      <4>5. Cardinality((g[i] \ S) \cup {x}) <= Cardinality(g[i + 1] \ S)
        BY <4>2, <4>3, FS_Subset
      <4>6. Cardinality(g[i] \ S) >= i
        BY <1>2, <3>2
      <4>7. Cardinality(g[i] \ S) \in Nat /\ Cardinality(g[i + 1] \ S) \in Nat
        BY <4>3, FS_CardinalityType
      <4>8. QED
        BY <4>4, <4>5, <4>6, <4>7
    <3>3. QED
      BY <3>1, <3>2
  <2>5. QED
    BY <2>2, <2>3, <2>4
<1>3. N \in I
  <2>1. 0 \in I
    BY <1>1
  <2>2. ASSUME NEW i \in Nat, i \in I PROVE i + 1 \in I
    <3> HIDE DEF Grows
    <3>1. i + 1 <= N => Grows(i + 1)
      BY <1>0, <1>2, <2>2
    <3>2. QED
      BY <3>1
  <2>3. Nat \subseteq I
    <3> HIDE DEF I
    <3>1. QED
      BY <2>1, <2>2, SetInduction
  <2>4. QED
    BY <1>0, <2>3
<1>4. Grows(N)
  BY <1>0, <1>3
<1>5. F[g[N]] = g[N]
  <2>1. SUFFICES ASSUME F[g[N]] # g[N] PROVE FALSE
    OBVIOUS
  <2>2. Cardinality(g[N] \ S) >= N /\ g[N] \ S \in SUBSET A
    BY <1>4, <2>1
  <2>3. Cardinality(g[N] \ S) = N
    <3>1. Cardinality(g[N] \ S) <= N /\ IsFiniteSet(g[N] \ S)
      BY <2>2, FS_Subset
    <3>2. Cardinality(g[N] \ S) \in Nat
      BY <3>1, FS_CardinalityType
    <3>3. QED
      BY <1>0, <2>2, <3>1, <3>2
  <2>4. g[N] \ S = A
    BY <2>2, <2>3, FS_Subset
  <2>5. F[g[N]] \subseteq g[N] /\ g[N] \subseteq F[g[N]]
    BY <1>0, <1>4, <2>4
  <2>6. QED
    BY <2>1, <2>5
<1>6. QED
  BY <1>4, <1>5 DEF ClosureOf

-----------------------------------------------------------------------------
\* Derived is the least set of artifacts that holds those of S and whatever is
\* built on a member of it or of S.
LEMMA DerivedClosed ==
    ASSUME NEW t, NEW S \in SUBSET (Observation \cup Artifact)
    PROVE  /\ Derived(t, S) \subseteq Artifacts(t)
           /\ S \cap Artifacts(t) \subseteq Derived(t, S)
           /\ \A a \in Artifacts(t) : Sources(t, a) \cap (S \cup Derived(t, S)) # {} => a \in Derived(t, S)
           /\ \A T : S \subseteq T /\ (\A a \in Artifacts(t) : Sources(t, a) \cap T # {} => a \in T)
                => Derived(t, S) \subseteq T
<1> DEFINE U == Observation \cup Artifact
           N == Cardinality(Artifact)
           F == [X \in SUBSET U |-> Grown(t, X)]
           St == CHOOSE g : g = [i \in 0..N |-> IF i = 0 THEN S ELSE Grown(t, g[i - 1])]
<1>0. N \in Nat /\ IsFiniteSet(Artifact) /\ Artifacts(t) \subseteq Artifact
  BY MemoryConstants, FS_CardinalityType DEF Artifacts
<1>1. Derived(t, S) = St[N] \cap Artifacts(t)
  BY DEF Derived
<1>2. \A X \in SUBSET U : F[X] = Grown(t, X) /\ Grown(t, X) \in SUBSET U /\ X \subseteq F[X] /\ F[X] \ X \subseteq Artifact
  BY <1>0 DEF Grown
<1>3. MapOn(U, F) /\ Adds(U, F, Artifact) /\ S \in SUBSET U
  BY <1>2 DEF MapOn, Adds
<1> HIDE DEF U
<1>4. \E g : g = [i \in 0..N |-> IF i = 0 THEN S ELSE Grown(t, g[i - 1])]
  <2> HIDE DEF F, N
  <2>1. PICK g : g \in [0..N -> SUBSET U] /\ Iteration(U, F, S, N, g)
    BY <1>0, <1>3, Iterates
  <2>2. \A i \in 0..N : g[i] = IF i = 0 THEN S ELSE Grown(t, g[i - 1])
    <3>1. ASSUME NEW i \in 0..N, i # 0 PROVE i \in 1..N /\ i - 1 \in 0..N
      BY <1>0, <3>1
    <3>2. QED
      BY <1>2, <2>1, <3>1 DEF Iteration
  <2>3. g = [i \in 0..N |-> g[i]]
    BY <2>1
  <2>4. g = [i \in 0..N |-> IF i = 0 THEN S ELSE Grown(t, g[i - 1])]
    BY <2>2, <2>3
  <2>5. QED
    BY <2>4
<1>5. St = [i \in 0..N |-> IF i = 0 THEN S ELSE Grown(t, St[i - 1])]
  BY <1>4
<1> HIDE DEF St
<1>6. Iteration(U, F, S, N, St)
  <2>1. 0 \in 0..N /\ \A i \in 1..N : i \in 0..N /\ i # 0
    BY <1>0
  <2> HIDE DEF N
  <2>2. St[0] = S /\ \A i \in 1..N : St[i] = Grown(t, St[i - 1])
    BY <1>5, <2>1
  <2> HIDE DEF F
  <2>3. QED
    BY <1>2, <2>2 DEF Iteration
<1>7. ClosureOf(U, F, S, Artifact, St[N])
  <2> HIDE DEF F
  <2>1. QED
    BY <1>0, <1>3, <1>6, Closure
<1>8. Grown(t, St[N]) = St[N]
  BY <1>2, <1>7 DEF ClosureOf
<1> USE DEF U
<1> HIDE DEF F, N
<1>9. \A a \in Artifacts(t) : Sources(t, a) \cap St[N] # {} => a \in St[N]
  BY <1>8 DEF Grown
<1>10. St[N] \subseteq S \cup Artifacts(t)
  <2>1. \A X \in SUBSET U : X \subseteq S \cup Artifacts(t) => Grown(t, X) \subseteq S \cup Artifacts(t)
    BY DEF Grown
  <2>2. \A X \in SUBSET U : X \subseteq S \cup Artifacts(t) => F[X] \subseteq S \cup Artifacts(t)
    BY <1>2, <2>1
  <2>3. QED
    BY <1>7, <2>2 DEF ClosureOf
<1>11. ASSUME NEW T, S \subseteq T, \A a \in Artifacts(t) : Sources(t, a) \cap T # {} => a \in T
       PROVE  Derived(t, S) \subseteq T
  <2>1. \A X \in SUBSET U : X \subseteq T => Grown(t, X) \subseteq T
    BY <1>11 DEF Grown
  <2>2. \A X \in SUBSET U : X \subseteq T => F[X] \subseteq T
    BY <1>2, <2>1
  <2>3. QED
    BY <1>1, <1>7, <1>11, <2>2 DEF ClosureOf
<1>12. QED
  BY <1>1, <1>7, <1>9, <1>10, <1>11 DEF ClosureOf

\* Ancestors is the least set of artifacts that holds a and the artifacts its
\* members are made from.
LEMMA AncestorsClosed ==
    ASSUME NEW a \in Artifact
    PROVE  /\ Ancestors(a) \subseteq Artifact
           /\ a \in Ancestors(a)
           /\ \A b \in Ancestors(a) : SourcesOf[b] \cap Artifact \subseteq Ancestors(a)
           /\ \A T : a \in T /\ (\A b \in T \cap Artifact : SourcesOf[b] \cap Artifact \subseteq T)
                => Ancestors(a) \subseteq T
<1> DEFINE N == Cardinality(Artifact)
           F == [X \in SUBSET Artifact |-> WithSources(X)]
           St == CHOOSE g : g = [i \in 0..N |-> IF i = 0 THEN {a} ELSE WithSources(g[i - 1])]
<1>0. N \in Nat /\ IsFiniteSet(Artifact) /\ \A b \in Artifact : SourcesOf[b] \in SUBSET (Observation \cup Artifact)
  BY MemoryConstants, FS_CardinalityType
<1>1. Ancestors(a) = St[N]
  BY DEF Ancestors
<1>b. \A X, s : s \in WithSources(X) <=> s \in X \/ (s \in Artifact /\ \E b \in X : s \in SourcesOf[b])
  BY DEF WithSources
<1>2. \A X \in SUBSET Artifact :
        F[X] = WithSources(X) /\ WithSources(X) \in SUBSET Artifact /\ X \subseteq F[X] /\ F[X] \ X \subseteq Artifact
  <2>1. \A X \in SUBSET Artifact : WithSources(X) \in SUBSET Artifact /\ X \subseteq WithSources(X)
    BY <1>b
  <2>2. QED
    BY <2>1
<1>2a. \A X, T : X \subseteq T /\ (\A b \in T \cap Artifact : SourcesOf[b] \cap Artifact \subseteq T) /\ X \subseteq Artifact
         => WithSources(X) \subseteq T
  BY <1>b
<1>2b. \A X : WithSources(X) = X => \A b \in X : SourcesOf[b] \cap Artifact \subseteq X
  BY <1>b
<1>3. MapOn(Artifact, F) /\ Adds(Artifact, F, Artifact) /\ {a} \in SUBSET Artifact
  BY <1>2 DEF MapOn, Adds
<1>4. \E g : g = [i \in 0..N |-> IF i = 0 THEN {a} ELSE WithSources(g[i - 1])]
  <2> HIDE DEF F, N
  <2>1. PICK g : g \in [0..N -> SUBSET Artifact] /\ Iteration(Artifact, F, {a}, N, g)
    BY <1>0, <1>3, Iterates
  <2>2. \A i \in 0..N : g[i] = IF i = 0 THEN {a} ELSE WithSources(g[i - 1])
    <3>1. ASSUME NEW i \in 0..N, i # 0 PROVE i \in 1..N /\ i - 1 \in 0..N
      BY <1>0, <3>1
    <3>2. QED
      BY <1>2, <2>1, <3>1 DEF Iteration
  <2>3. g = [i \in 0..N |-> g[i]]
    BY <2>1
  <2>4. g = [i \in 0..N |-> IF i = 0 THEN {a} ELSE WithSources(g[i - 1])]
    BY <2>2, <2>3
  <2>5. QED
    BY <2>4
<1>5. St = [i \in 0..N |-> IF i = 0 THEN {a} ELSE WithSources(St[i - 1])]
  BY <1>4
<1> HIDE DEF St
<1>6. Iteration(Artifact, F, {a}, N, St)
  <2>1. 0 \in 0..N /\ \A i \in 1..N : i \in 0..N /\ i # 0
    BY <1>0
  <2> HIDE DEF N
  <2>2. St[0] = {a} /\ \A i \in 1..N : St[i] = WithSources(St[i - 1])
    BY <1>5, <2>1
  <2> HIDE DEF F
  <2>3. QED
    BY <1>2, <2>2 DEF Iteration
<1>7. ClosureOf(Artifact, F, {a}, Artifact, St[N])
  <2> HIDE DEF F
  <2>1. QED
    BY <1>0, <1>3, <1>6, Closure
<1>8. St[N] \in SUBSET Artifact /\ WithSources(St[N]) = St[N] /\ a \in St[N]
  BY <1>2, <1>7 DEF ClosureOf
<1> HIDE DEF F, N
<1>9. ASSUME NEW T, a \in T, \A b \in T \cap Artifact : SourcesOf[b] \cap Artifact \subseteq T
      PROVE  St[N] \subseteq T
  <2>1. \A X \in SUBSET Artifact : X \subseteq T => F[X] \subseteq T
    BY <1>2, <1>2a, <1>9
  <2>2. QED
    BY <1>7, <1>9, <2>1 DEF ClosureOf
<1>10. QED
  BY <1>1, <1>2b, <1>8, <1>9

\* The capsules that may repeat a row: those of its session written after it
\* are among them, the row itself is not.
LEMMA CopiesFound ==
    ASSUME NEW o \in Observation, db.rows \in SUBSET Observation
    PROVE  /\ CapsuleCopies(o) \subseteq Observation \ {o}
           /\ \A k \in db.rows : /\ EventOf[k] = "session_capsule"
                                 /\ SessionOf[k] = SessionOf[o]
                                 /\ db.born[k] >= db.born[o]
                                 /\ k # o
                                 => k \in CapsuleCopies(o)
<1> DEFINE N == Cardinality(Observation)
           all == {k \in db.rows : EventOf[k] = "session_capsule"}
           later == {k \in all : SessionOf[k] = SessionOf[o] /\ db.born[k] >= db.born[o]}
           More(X) == X \cup {k \in all : db.links[k] \cap X # {}}
           F == [X \in SUBSET Observation |-> More(X)]
           S == later \cup {o}
           St == CHOOSE g : g = [i \in 0..N |-> IF i = 0 THEN S ELSE More(g[i - 1])]
<1>0. N \in Nat /\ IsFiniteSet(Observation)
  BY MemoryConstants, FS_CardinalityType
<1>1. CapsuleCopies(o) = St[N] \ {o}
  BY DEF CapsuleCopies
<1>2. \A X \in SUBSET Observation :
        F[X] = More(X) /\ More(X) \in SUBSET Observation /\ X \subseteq F[X] /\ F[X] \ X \subseteq Observation
  OBVIOUS
<1>2a. S \in SUBSET Observation
  OBVIOUS
<1>2b. \A k \in db.rows : /\ EventOf[k] = "session_capsule"
                          /\ SessionOf[k] = SessionOf[o]
                          /\ db.born[k] >= db.born[o]
                          => k \in S
  OBVIOUS
<1> HIDE DEF More, S
<1>3. MapOn(Observation, F) /\ Adds(Observation, F, Observation)
  BY <1>2 DEF MapOn, Adds
<1>4. \E g : g = [i \in 0..N |-> IF i = 0 THEN S ELSE More(g[i - 1])]
  <2> HIDE DEF F, N
  <2>1. PICK g : g \in [0..N -> SUBSET Observation] /\ Iteration(Observation, F, S, N, g)
    BY <1>0, <1>2a, <1>3, Iterates
  <2>2. \A i \in 0..N : g[i] = IF i = 0 THEN S ELSE More(g[i - 1])
    <3>1. ASSUME NEW i \in 0..N, i # 0 PROVE i \in 1..N /\ i - 1 \in 0..N
      BY <1>0, <3>1
    <3>2. QED
      BY <1>2, <2>1, <3>1 DEF Iteration
  <2>3. g = [i \in 0..N |-> g[i]]
    BY <2>1
  <2>4. g = [i \in 0..N |-> IF i = 0 THEN S ELSE More(g[i - 1])]
    BY <2>2, <2>3
  <2>5. QED
    BY <2>4
<1>5. St = [i \in 0..N |-> IF i = 0 THEN S ELSE More(St[i - 1])]
  BY <1>4
<1> HIDE DEF St
<1>6. Iteration(Observation, F, S, N, St)
  <2>1. 0 \in 0..N /\ \A i \in 1..N : i \in 0..N /\ i # 0
    BY <1>0
  <2> HIDE DEF N
  <2>2. St[0] = S /\ \A i \in 1..N : St[i] = More(St[i - 1])
    BY <1>5, <2>1
  <2> HIDE DEF F
  <2>3. QED
    BY <1>2, <2>2 DEF Iteration
<1>7. ClosureOf(Observation, F, S, Observation, St[N])
  <2> HIDE DEF F
  <2>1. QED
    BY <1>0, <1>2a, <1>3, <1>6, Closure
<1>8. QED
  BY <1>1, <1>2b, <1>7 DEF ClosureOf

\* The row of an artifact that is there.
ArtRow ==
    [ status : {"candidate", "active", "rejected", "superseded"},
      authority : Trusted \cup {"agent_proposed", "human_reviewed"},
      to : Nat \cup {None},
      cut : SUBSET (Observation \cup Artifact) ]

\* The row of a relation.
RelRow ==
    [ from : Artifact, to : Artifact, kind : {"contradicts", "supersedes"},
      at : Nat, resolved : Nat \cup {None} ]

\* The types of the tables.
TablesTyped(t) ==
    t \in [ born : [Observation -> Nat], rows : SUBSET Observation,
            meta : [Observation -> Statuses], links : [Observation -> SUBSET Observation],
            art : [Artifact -> ArtRow \cup {NoRow}], rel : SUBSET RelRow ]

\* The ids that were given are numbered, and the rows that are there were given one.
Numbered(t) ==
    /\ t.rows \subseteq Given(t)
    /\ \A o \in Given(t) : t.born[o] <= Cardinality(Given(t))
    /\ \A o, p \in Given(t) : t.born[o] = t.born[p] => o = p

\* An artifact's sources are there, but for observations whose link was cut.
Grounded(t) ==
    \A a \in Artifacts(t) :
        /\ SourcesOf[a] \cap Artifact \subseteq Artifacts(t)
        /\ t.art[a].cut \subseteq Observation
        /\ \A s \in SourcesOf[a] \cap Observation : /\ ~Marker(s)
                                                    /\ s \in Given(t)
                                                    /\ s \in t.art[a].cut <=> s \notin t.rows

\* Of what an active artifact stands on, nothing was cut.
Accepted(t) ==
    \A a \in Artifacts(t) : Active(t, a) =>
        /\ t.art[a].authority \in Trusted
        /\ \A b \in Ancestors(a) : t.art[b].cut = {}

\* A version's period ends when another takes over.
Versioned(t) ==
    /\ \A a \in Artifacts(t) : t.art[a].to # None => t.art[a].status = "superseded"
    /\ \A r \in t.rel : r.kind = "supersedes" =>
          t.art[r.to].to # None /\ t.art[r.to].to <= FromOf[r.from]

\* A relation is between artifacts that are there.
Joined(t) ==
    /\ \A r \in t.rel : {r.from, r.to} \subseteq Artifacts(t)
    /\ \A r, q \in t.rel : <<r.from, r.to, r.kind>> = <<q.from, q.to, q.kind>> => r = q

\* What every transaction leaves of the tables.
TablesOK(t) ==
    TablesTyped(t) /\ Numbered(t) /\ Grounded(t) /\ Accepted(t) /\ Versioned(t) /\ Joined(t)

-----------------------------------------------------------------------------
(* What a deletion that turns t into u leaves as it was. *)

\* An open dispute that lost a side leaves nothing active that stands on the other.
Unsettled(t, u, n) ==
    \A r \in t.rel :
        /\ Open(r, n)
        /\ {r.from, r.to} \cap Artifacts(u) # {}
        /\ ~({r.from, r.to} \subseteq Artifacts(u))
        => \A a \in {r.from, r.to} \cap Artifacts(u) :
              \A d \in Artifacts(u) : a \in Ancestors(d) => ~Active(u, d)

\* A row that is taken from under an artifact is older than every row that stays.
OldestGone(t, u) ==
    \A a \in Artifacts(u) : \A s \in SourcesOf[a] \cap (t.rows \ u.rows) :
        \A o \in u.rows : Marker(o) \/ u.born[o] > u.born[s]

\* What a deletion that turns t into u at time n leaves as it was.
Trims(t, u, n) ==
    /\ u.rows \subseteq t.rows
    /\ u.born = t.born /\ u.meta = t.meta /\ u.links = t.links
    /\ Artifacts(u) \subseteq Artifacts(t)
    /\ \A a \in Artifacts(u) : t.art[a].to = u.art[a].to /\ (Active(u, a) => Active(t, a))
    /\ u.rel \subseteq t.rel
    /\ \A r \in t.rel : {r.from, r.to} \subseteq Artifacts(u) => r \in u.rel
    /\ Unsettled(t, u, n)
    /\ OldestGone(t, u)

\* One deletion after another is a deletion.
LEMMA TrimsTwice ==
    ASSUME NEW t, NEW u, NEW v, NEW n, Joined(t), Trims(t, u, n), Trims(u, v, n)
    PROVE  Trims(t, v, n)
<1>1. Unsettled(t, v, n)
  <2> SUFFICES ASSUME NEW r \in t.rel, Open(r, n), ~({r.from, r.to} \subseteq Artifacts(v)),
                      NEW a \in {r.from, r.to} \cap Artifacts(v),
                      NEW d \in Artifacts(v), a \in Ancestors(d)
               PROVE  ~Active(v, d)
    BY DEF Unsettled
  <2>0. a \in Artifacts(u) /\ d \in Artifacts(u) /\ (Active(v, d) => Active(u, d))
    BY DEF Trims
  <2>1. CASE {r.from, r.to} \subseteq Artifacts(u)
    <3>1. r \in u.rel
      BY <2>1 DEF Trims
    <3>2. QED
      BY <3>1 DEF Trims, Unsettled
  <2>2. CASE ~({r.from, r.to} \subseteq Artifacts(u))
    BY <2>0, <2>2 DEF Trims, Unsettled
  <2>3. QED
    BY <2>1, <2>2
<1>2. OldestGone(t, v)
  BY DEF Trims, OldestGone
<1>3. QED
  BY <1>1, <1>2 DEF Trims

-----------------------------------------------------------------------------
(* Rows of artifacts. *)

\* No row of an artifact is the missing one.
LEMMA RealRow == ASSUME NEW x \in ArtRow PROVE x # NoRow
<1>1. x.status # None
  BY MemoryConstants DEF ArtRow
<1>2. NoRow.status = None
  BY DEF NoRow
<1>3. QED
  BY <1>1, <1>2

\* The artifacts that are there are those with a row.
LEMMA ArtifactRows ==
    ASSUME NEW t, TablesTyped(t)
    PROVE  /\ Artifacts(t) \subseteq Artifact
           /\ \A a \in Artifact : a \in Artifacts(t) <=> t.art[a] \in ArtRow
           /\ \A a \in Artifact : a \notin Artifacts(t) <=> t.art[a] = NoRow
<1>1. \A a \in Artifact : t.art[a] \in ArtRow \/ t.art[a] = NoRow
  BY DEF TablesTyped
<1>2. QED
  BY <1>1, RealRow DEF Artifacts

\* ON DELETE SET NULL changes a row only in the links that are cut.
LEMMA LinkCut ==
    ASSUME NEW a \in Artifact, NEW x \in ArtRow, NEW S
    PROVE  /\ Without(x, a, S) \in ArtRow
           /\ Without(x, a, S).status = x.status
           /\ Without(x, a, S).authority = x.authority
           /\ Without(x, a, S).to = x.to
           /\ Without(x, a, S).cut = x.cut \cup (S \cap SourcesOf[a])
<1>1. SourcesOf[a] \in SUBSET (Observation \cup Artifact)
  BY MemoryConstants
<1>2. QED
  BY <1>1 DEF Without, ArtRow

\* What an artifact is made from, at any remove, is there.
LEMMA AncestorsThere ==
    ASSUME NEW t, TablesTyped(t), Grounded(t), NEW d \in Artifacts(t)
    PROVE  Ancestors(d) \subseteq Artifacts(t)
<1>1. d \in Artifact /\ \A b \in Artifacts(t) : SourcesOf[b] \cap Artifact \subseteq Artifacts(t)
  BY ArtifactRows DEF Grounded
<1>2. QED
  BY <1>1, AncestorsClosed

\* An artifact of which nothing was cut and that does not derive from S has
\* nothing of S, and nothing that derives from it, among what it stands on.
LEMMA StandsApart ==
    ASSUME NEW t, TablesTyped(t), Grounded(t), NEW S \in SUBSET (Observation \cup Artifact),
           NEW d \in Artifacts(t), \A b \in Ancestors(d) : t.art[b].cut = {},
           d \notin Derived(t, S)
    PROVE  \A b \in Ancestors(d) : b \notin Derived(t, S) /\ SourcesOf[b] \cap (S \cup Derived(t, S)) = {}
<1> DEFINE T == Ancestors(d) \ Derived(t, S)
<1>0. /\ d \in Artifact /\ Ancestors(d) \subseteq Artifacts(t) /\ Ancestors(d) \subseteq Artifact
      /\ Derived(t, S) \subseteq Artifact
  BY AncestorsThere, ArtifactRows, DerivedClosed, AncestorsClosed
<1>1. ASSUME NEW b \in Ancestors(d) PROVE Sources(t, b) = SourcesOf[b]
  BY DEF Sources
<1>2. ASSUME NEW b \in Ancestors(d), SourcesOf[b] \cap (S \cup Derived(t, S)) # {} PROVE b \in Derived(t, S)
  BY <1>0, <1>1, <1>2, DerivedClosed
<1>3. d \in T /\ \A b \in T \cap Artifact : SourcesOf[b] \cap Artifact \subseteq T
  <2>1. \A b \in T : SourcesOf[b] \cap Artifact \subseteq Ancestors(d)
    BY <1>0, AncestorsClosed
  <2>2. \A b \in T : SourcesOf[b] \cap Derived(t, S) = {}
    BY <1>2
  <2>3. d \in T
    BY <1>0, AncestorsClosed
  <2>4. QED
    BY <2>1, <2>2, <2>3
<1>4. Ancestors(d) \subseteq T
  <2> HIDE DEF T
  <2>1. QED
    BY <1>0, <1>3, AncestorsClosed
<1>5. QED
  BY <1>2, <1>4

-----------------------------------------------------------------------------
(* Deleting artifacts. *)

\* What DeleteArtifacts leaves: the others, their links to A cut, and what is
\* disputed no longer active.
LEMMA ArtifactsGo ==
    ASSUME NEW t, TablesTyped(t), NEW A, NEW n
    PROVE  LET u == DeleteArtifacts(t, A, n)
           IN  /\ TablesTyped(u)
               /\ u.rows = t.rows /\ u.born = t.born /\ u.meta = t.meta /\ u.links = t.links
               /\ Artifacts(u) = Artifacts(t) \ A
               /\ \A a \in Artifacts(u) :
                    /\ u.art[a].authority = t.art[a].authority
                    /\ u.art[a].to = t.art[a].to
                    /\ u.art[a].cut = t.art[a].cut \cup (A \cap SourcesOf[a])
                    /\ u.art[a].status = IF a \in Disputed(t, A, n) /\ Active(t, a) THEN "candidate"
                                         ELSE t.art[a].status
               /\ u.rel = {r \in t.rel : {r.from, r.to} \cap A = {}}
<1> DEFINE u == DeleteArtifacts(t, A, n)
           back == {a \in Disputed(t, A, n) : Active(t, a)}
           row(a) == IF a \in back THEN [t.art[a] EXCEPT !.status = "candidate"] ELSE t.art[a]
           new(a) == IF a \in A \/ a \notin Artifacts(t) THEN NoRow ELSE Without(row(a), a, A)
           art == [a \in Artifact |-> new(a)]
           rel == {r \in t.rel : {r.from, r.to} \cap A = {}}
<1>1. u = [t EXCEPT !.art = art, !.rel = rel]
  BY DEF DeleteArtifacts
<1>2. ASSUME NEW a \in Artifacts(t)
      PROVE  /\ row(a) \in ArtRow
             /\ row(a).authority = t.art[a].authority /\ row(a).to = t.art[a].to /\ row(a).cut = t.art[a].cut
             /\ row(a).status = IF a \in Disputed(t, A, n) /\ Active(t, a) THEN "candidate"
                                ELSE t.art[a].status
  <2>1. t.art[a] \in ArtRow
    BY ArtifactRows
  <2>2. QED
    BY <2>1 DEF ArtRow
<1> HIDE DEF row
<1>3. \A a \in Artifact : new(a) \in ArtRow \cup {NoRow}
  BY <1>2, LinkCut
<1>4. \A a \in Artifacts(t) \ A : a \in Artifact /\ new(a) = Without(row(a), a, A)
  BY ArtifactRows
<1> HIDE DEF new
<1>5. art \in [Artifact -> ArtRow \cup {NoRow}] /\ \A a \in Artifact : art[a] = new(a)
  BY <1>3
<1>6. rel \in SUBSET RelRow
  BY DEF TablesTyped
<1> HIDE DEF art, rel
<1>7. /\ TablesTyped(u) /\ u.art = art /\ u.rel = rel
      /\ u.rows = t.rows /\ u.born = t.born /\ u.meta = t.meta /\ u.links = t.links
  BY <1>1, <1>5, <1>6 DEF TablesTyped
<1>8. Artifacts(u) = Artifacts(t) \ A
  <2>1. ASSUME NEW a \in Artifact PROVE a \in Artifacts(u) <=> a \in Artifacts(t) \ A
    <3>1. CASE a \in Artifacts(t) \ A
      BY <1>2, <1>4, <1>5, <1>7, <3>1, LinkCut, ArtifactRows
    <3>2. CASE a \notin Artifacts(t) \ A
      BY <1>5, <1>7, <3>2 DEF new, Artifacts
    <3>3. QED
      BY <3>1, <3>2
  <2>2. QED
    BY <2>1 DEF Artifacts
<1>9. ASSUME NEW a \in Artifacts(u)
      PROVE  /\ u.art[a].authority = t.art[a].authority
             /\ u.art[a].to = t.art[a].to
             /\ u.art[a].cut = t.art[a].cut \cup (A \cap SourcesOf[a])
             /\ u.art[a].status = IF a \in Disputed(t, A, n) /\ Active(t, a) THEN "candidate"
                                  ELSE t.art[a].status
  <2>1. u.art[a] = Without(row(a), a, A) /\ a \in Artifacts(t) /\ a \in Artifact
    BY <1>4, <1>5, <1>7, <1>8
  <2>2. QED
    BY <1>2, <2>1, LinkCut
<1> HIDE DEF u
<1>10. QED
  BY <1>7, <1>8, <1>9 DEF rel, u

\* A set of artifacts that is closed under "is built from" may be deleted.
LEMMA DerivedGo ==
    ASSUME NEW t, TablesOK(t), NEW S \in SUBSET (Observation \cup Artifact), NEW n \in Nat
    PROVE  LET u == DeleteArtifacts(t, Derived(t, S), n)
           IN  /\ TablesOK(u) /\ Trims(t, u, n) /\ u.rows = t.rows
               /\ Artifacts(u) = Artifacts(t) \ Derived(t, S)
               /\ \A a \in Artifacts(u) : Sources(t, a) \cap S = {} /\ u.art[a].cut = t.art[a].cut
<1> DEFINE A == Derived(t, S)
           u == DeleteArtifacts(t, A, n)
           back == Disputed(t, A, n)
<1>0. TablesTyped(t) /\ Numbered(t) /\ Grounded(t) /\ Accepted(t) /\ Versioned(t) /\ Joined(t)
  BY DEF TablesOK
<1>1. /\ TablesTyped(u)
      /\ u.rows = t.rows /\ u.born = t.born /\ u.meta = t.meta /\ u.links = t.links
      /\ Artifacts(u) = Artifacts(t) \ A
      /\ \A a \in Artifacts(u) :
            /\ u.art[a].authority = t.art[a].authority
            /\ u.art[a].to = t.art[a].to
            /\ u.art[a].cut = t.art[a].cut \cup (A \cap SourcesOf[a])
            /\ u.art[a].status = IF a \in back /\ Active(t, a) THEN "candidate" ELSE t.art[a].status
      /\ u.rel = {r \in t.rel : {r.from, r.to} \cap A = {}}
  BY <1>0, ArtifactsGo
<1>2. A \subseteq Artifacts(t) /\ Artifacts(t) \subseteq Artifact /\ A \subseteq Artifact
  BY <1>0, DerivedClosed, ArtifactRows
<1>3. \A a \in Artifacts(t) : Sources(t, a) \cap (S \cup A) # {} => a \in A
  BY DerivedClosed
<1> HIDE DEF u, A
<1>4. ASSUME NEW a \in Artifacts(u)
      PROVE  /\ a \in Artifacts(t) /\ a \in Artifact
             /\ u.art[a].cut = t.art[a].cut
             /\ SourcesOf[a] \cap A = {}
             /\ Sources(t, a) \cap S = {}
             /\ Active(u, a) => Active(t, a) /\ a \notin back
  <2>1. a \in Artifacts(t) /\ a \in Artifact /\ a \notin A
    BY <1>1, <1>2
  <2>2. Sources(t, a) \cap (S \cup A) = {}
    BY <1>3, <2>1
  <2>3. t.art[a].cut \subseteq Observation /\ Observation \cap Artifact = {}
    BY <1>0, <2>1, MemoryConstants DEF Grounded
  <2>4. SourcesOf[a] \cap A = {}
    BY <1>2, <2>2, <2>3 DEF Sources
  <2>5. Active(u, a) => Active(t, a) /\ a \notin back
    BY <1>1 DEF Active
  <2>6. QED
    BY <1>1, <2>1, <2>2, <2>4, <2>5
<1>5. Numbered(u)
  BY <1>0, <1>1 DEF Numbered, Given
<1>6. Grounded(u)
  <2> SUFFICES ASSUME NEW a \in Artifacts(u)
               PROVE  /\ SourcesOf[a] \cap Artifact \subseteq Artifacts(u)
                      /\ u.art[a].cut \subseteq Observation
                      /\ \A s \in SourcesOf[a] \cap Observation : /\ ~Marker(s)
                                                                  /\ s \in Given(u)
                                                                  /\ s \in u.art[a].cut <=> s \notin u.rows
    BY DEF Grounded
  <2>1. SourcesOf[a] \cap Artifact \subseteq Artifacts(u)
    BY <1>0, <1>1, <1>4 DEF Grounded
  <2>2. Given(u) = Given(t)
    BY <1>1 DEF Given
  <2>3. QED
    BY <1>0, <1>1, <1>4, <2>1, <2>2 DEF Grounded
<1>7. ASSUME NEW d \in Artifacts(u) PROVE Ancestors(d) \subseteq Artifacts(u)
  BY <1>1, <1>6, <1>7, AncestorsThere
<1>8. Accepted(u)
  <2> SUFFICES ASSUME NEW a \in Artifacts(u), Active(u, a)
               PROVE  u.art[a].authority \in Trusted /\ \A b \in Ancestors(a) : u.art[b].cut = {}
    BY DEF Accepted
  <2>1. QED
    BY <1>0, <1>1, <1>4, <1>7 DEF Accepted
<1>9. Versioned(u)
  <2>1. ASSUME NEW a \in Artifacts(u), u.art[a].to # None PROVE u.art[a].status = "superseded"
    <3>1. t.art[a].status = "superseded"
      BY <1>0, <1>1, <1>4, <2>1 DEF Versioned
    <3>2. QED
      BY <1>1, <3>1 DEF Active
  <2>2. ASSUME NEW r \in u.rel, r.kind = "supersedes"
        PROVE  u.art[r.to].to # None /\ u.art[r.to].to <= FromOf[r.from]
    <3>1. r \in t.rel /\ r.to \in Artifacts(t) /\ r.to \notin A
      BY <1>0, <1>1 DEF Joined
    <3>2. r.to \in Artifacts(u)
      BY <1>1, <3>1
    <3>3. u.art[r.to].to = t.art[r.to].to
      BY <1>1, <3>2
    <3>4. QED
      BY <1>0, <2>2, <3>1, <3>3 DEF Versioned
  <2>3. QED
    BY <2>1, <2>2 DEF Versioned
<1>10. Joined(u)
  BY <1>0, <1>1 DEF Joined
<1>11. Unsettled(t, u, n)
  <2> SUFFICES ASSUME NEW r \in t.rel, Open(r, n), ~({r.from, r.to} \subseteq Artifacts(u)),
                      NEW a \in {r.from, r.to} \cap Artifacts(u),
                      NEW d \in Artifacts(u), a \in Ancestors(d), Active(u, d)
               PROVE  FALSE
    BY DEF Unsettled
  <2> DEFINE left == {x \in Artifacts(t) \ A : \E q \in t.rel :
                        /\ Open(q, n)
                        /\ x \in {q.from, q.to}
                        /\ {q.from, q.to} \cap A # {}}
  <2>1. back = (left \cup Derived(t, left)) \ A
    BY DEF Disputed
  <2>2. {r.from, r.to} \cap A # {} /\ a \in Artifacts(t) \ A
    BY <1>0, <1>1 DEF Joined
  <2>3. a \in left
    BY <2>2
  <2>4. left \in SUBSET (Observation \cup Artifact)
    BY <1>2
  <2> HIDE DEF left
  <2>5. d \notin Derived(t, left) /\ Active(t, d) /\ d \in Artifacts(t)
    BY <1>1, <1>4, <2>1
  <2>6. \A b \in Ancestors(d) : t.art[b].cut = {}
    BY <1>0, <2>5 DEF Accepted
  <2>7. \A b \in Ancestors(d) : b \notin Derived(t, left)
    BY <1>0, <2>4, <2>5, <2>6, StandsApart
  <2>8. a \in Derived(t, left)
    BY <2>2, <2>3, <2>4, DerivedClosed
  <2>9. QED
    BY <2>7, <2>8
<1>12. OldestGone(t, u)
  BY <1>1 DEF OldestGone
<1>13. Trims(t, u, n)
  <2>1. \A a \in Artifacts(u) : t.art[a].to = u.art[a].to /\ (Active(u, a) => Active(t, a))
    BY <1>1, <1>4
  <2>2. u.rel \subseteq t.rel /\ \A r \in t.rel : {r.from, r.to} \subseteq Artifacts(u) => r \in u.rel
    BY <1>1
  <2>3. QED
    BY <1>1, <1>11, <1>12, <2>1, <2>2 DEF Trims
<1>14. QED
  BY <1>1, <1>4, <1>5, <1>6, <1>8, <1>9, <1>10, <1>13 DEF TablesOK, u, A

-----------------------------------------------------------------------------
(* Deleting rows. *)

\* What DeleteRows leaves: every artifact, with its links to S cut.
LEMMA RowsRemoved ==
    ASSUME NEW t, TablesTyped(t), NEW S \in SUBSET Observation
    PROVE  LET u == DeleteRows(t, S)
           IN  /\ TablesTyped(u)
               /\ u.rows = t.rows \ S /\ u.born = t.born /\ u.meta = t.meta /\ u.links = t.links /\ u.rel = t.rel
               /\ Artifacts(u) = Artifacts(t)
               /\ \A a \in Artifacts(u) :
                    /\ u.art[a].authority = t.art[a].authority
                    /\ u.art[a].to = t.art[a].to
                    /\ u.art[a].status = t.art[a].status
                    /\ u.art[a].cut = t.art[a].cut \cup (S \cap SourcesOf[a])
<1> DEFINE u == DeleteRows(t, S)
           art == [a \in Artifact |-> IF a \in Artifacts(t) THEN Without(t.art[a], a, S) ELSE NoRow]
           rows == t.rows \ S
<1>1. u = [t EXCEPT !.rows = rows, !.art = art]
  BY DEF DeleteRows
<1>2. \A a \in Artifacts(t) : a \in Artifact /\ t.art[a] \in ArtRow /\ art[a] = Without(t.art[a], a, S)
  BY ArtifactRows
<1>3. \A a \in Artifact : a \notin Artifacts(t) => art[a] = NoRow
  OBVIOUS
<1>4. \A a \in Artifacts(t) : art[a] \in ArtRow
  BY <1>2, LinkCut
<1>5. art = [a \in Artifact |-> art[a]] /\ rows \in SUBSET Observation
  BY DEF TablesTyped
<1> HIDE DEF art
<1>6. art \in [Artifact -> ArtRow \cup {NoRow}]
  BY <1>3, <1>4, <1>5
<1> HIDE DEF rows
<1>7. /\ TablesTyped(u) /\ u.art = art /\ u.rows = rows /\ u.rel = t.rel
      /\ u.born = t.born /\ u.meta = t.meta /\ u.links = t.links
  BY <1>1, <1>5, <1>6 DEF TablesTyped
<1> HIDE DEF u
<1>8. Artifacts(u) = Artifacts(t)
  BY <1>3, <1>4, <1>7, ArtifactRows
<1>9. ASSUME NEW a \in Artifacts(u)
      PROVE  /\ u.art[a].authority = t.art[a].authority
             /\ u.art[a].to = t.art[a].to
             /\ u.art[a].status = t.art[a].status
             /\ u.art[a].cut = t.art[a].cut \cup (S \cap SourcesOf[a])
  BY <1>2, <1>7, <1>8, LinkCut
<1>10. QED
  BY <1>7, <1>8, <1>9 DEF rows, u

\* Rows may go if nothing active stands on them and, where they are taken from
\* under an artifact, if they are older than those that stay.
LEMMA RowsGo ==
    ASSUME NEW t, TablesOK(t), NEW S \in SUBSET Observation, NEW n \in Nat,
           \A a \in Artifacts(t) : Active(t, a) => \A b \in Ancestors(a) : SourcesOf[b] \cap S \cap t.rows = {},
           \A a \in Artifacts(t) : \A s \in SourcesOf[a] \cap S \cap t.rows :
              \A o \in t.rows \ S : Marker(o) \/ t.born[o] > t.born[s]
    PROVE  TablesOK(DeleteRows(t, S)) /\ Trims(t, DeleteRows(t, S), n)
<1> DEFINE u == DeleteRows(t, S)
<1>0. TablesTyped(t) /\ Numbered(t) /\ Grounded(t) /\ Accepted(t) /\ Versioned(t) /\ Joined(t)
  BY DEF TablesOK
<1>1. /\ TablesTyped(u)
      /\ u.rows = t.rows \ S /\ u.born = t.born /\ u.meta = t.meta /\ u.links = t.links /\ u.rel = t.rel
      /\ Artifacts(u) = Artifacts(t)
      /\ \A a \in Artifacts(u) :
            /\ u.art[a].authority = t.art[a].authority
            /\ u.art[a].to = t.art[a].to
            /\ u.art[a].status = t.art[a].status
            /\ u.art[a].cut = t.art[a].cut \cup (S \cap SourcesOf[a])
  BY <1>0, RowsRemoved
<1> HIDE DEF u
<1>2. Given(u) = Given(t) /\ t.rows \subseteq Observation /\ \A a \in Artifacts(t) : Active(u, a) = Active(t, a)
  BY <1>0, <1>1 DEF Given, Active, TablesTyped
<1>3. Numbered(u)
  BY <1>0, <1>1, <1>2 DEF Numbered
<1>4. Grounded(u)
  BY <1>0, <1>1, <1>2 DEF Grounded
<1>5. Accepted(u)
  <2> SUFFICES ASSUME NEW a \in Artifacts(t), Active(t, a)
               PROVE  u.art[a].authority \in Trusted /\ \A b \in Ancestors(a) : u.art[b].cut = {}
    BY <1>1, <1>2 DEF Accepted
  <2>1. u.art[a].authority \in Trusted
    BY <1>0, <1>1 DEF Accepted
  <2>2. ASSUME NEW b \in Ancestors(a) PROVE u.art[b].cut = {}
    <3>1. b \in Artifacts(t) /\ t.art[b].cut = {} /\ SourcesOf[b] \cap S \cap t.rows = {}
      BY <1>0, AncestorsThere DEF Accepted
    <3>2. SourcesOf[b] \cap S = {}
      BY <1>0, <3>1 DEF Grounded
    <3>3. QED
      BY <1>1, <3>1, <3>2
  <2>3. QED
    BY <2>1, <2>2
<1>6. Versioned(u)
  BY <1>0, <1>1 DEF Versioned, Joined
<1>7. Joined(u)
  BY <1>0, <1>1 DEF Joined
<1>8. Trims(t, u, n)
  <2>1. Unsettled(t, u, n)
    BY <1>0, <1>1 DEF Unsettled, Joined
  <2>2. OldestGone(t, u)
    BY <1>1 DEF OldestGone
  <2>3. QED
    BY <1>0, <1>1, <1>2, <2>1, <2>2 DEF Trims
<1>9. QED
  BY <1>1, <1>3, <1>4, <1>5, <1>6, <1>7, <1>8 DEF TablesOK, u

\* Rows go with all that derives from them.
LEMMA RowsErased ==
    ASSUME NEW t, TablesOK(t), NEW S \in SUBSET Observation, NEW n \in Nat
    PROVE  LET u == EraseRows(t, S, n)
           IN  /\ TablesOK(u) /\ Trims(t, u, n) /\ u.rows = t.rows \ S
               /\ Artifacts(u) = Artifacts(t) \ Derived(t, S)
               /\ \A a \in Artifacts(u) : Sources(t, a) \cap S = {}
<1> DEFINE v == DeleteArtifacts(t, Derived(t, S), n)
           u == DeleteRows(v, S)
<1>0. EraseRows(t, S, n) = u
  BY DEF EraseRows
<1>1. /\ TablesOK(v) /\ Trims(t, v, n) /\ v.rows = t.rows
      /\ Artifacts(v) = Artifacts(t) \ Derived(t, S)
      /\ \A a \in Artifacts(v) : Sources(t, a) \cap S = {} /\ v.art[a].cut = t.art[a].cut
  BY DerivedGo
<1> HIDE DEF v
<1>2. ASSUME NEW a \in Artifacts(v) PROVE SourcesOf[a] \cap S \cap v.rows = {}
  <2>1. Sources(v, a) \cap S = {}
    BY <1>1 DEF Sources
  <2>2. \A s \in SourcesOf[a] \cap Observation : s \in v.rows => s \notin v.art[a].cut
    BY <1>1 DEF TablesOK, Grounded
  <2>3. QED
    BY <2>1, <2>2 DEF Sources
<1>3. \A a \in Artifacts(v) : \A b \in Ancestors(a) : SourcesOf[b] \cap S \cap v.rows = {}
  BY <1>1, <1>2, AncestorsThere DEF TablesOK
<1>4. TablesOK(u) /\ Trims(v, u, n)
  BY <1>1, <1>2, <1>3, RowsGo
<1>5. Trims(t, u, n)
  <2>1. Joined(t)
    BY DEF TablesOK
  <2> HIDE DEF u
  <2>2. QED
    BY <1>1, <1>4, <2>1, TrimsTwice
<1>6. u.rows = v.rows \ S /\ Artifacts(u) = Artifacts(v)
  BY <1>1, RowsRemoved DEF TablesOK
<1> HIDE DEF u
<1>7. QED
  BY <1>0, <1>1, <1>4, <1>5, <1>6

\* A row that is not among the newest of S is older than those that are.
LEMMA NewestLast ==
    ASSUME NEW t, t.born \in [Observation -> Nat], NEW S \in SUBSET Observation, NEW n \in Nat,
           NEW o \in Newest(t, S, n), NEW p \in S \ Newest(t, S, n)
    PROVE  t.born[o] > t.born[p]
<1> DEFINE After(x) == {q \in S : t.born[q] > t.born[x]}
<1>1. /\ o \in S /\ Cardinality(After(o)) < n /\ ~(Cardinality(After(p)) < n)
      /\ t.born[o] \in Nat /\ t.born[p] \in Nat /\ \A q \in S : t.born[q] \in Nat
  BY DEF Newest
<1>2. SUFFICES ASSUME t.born[o] <= t.born[p] PROVE FALSE
  BY <1>1
<1>3. \A q \in S : t.born[q] > t.born[p] => t.born[q] > t.born[o]
  BY <1>1, <1>2
<1>4. After(p) \in SUBSET After(o) /\ After(o) \in SUBSET Observation
  BY <1>3
<1> HIDE DEF After
<1>5. IsFiniteSet(After(o)) /\ IsFiniteSet(After(p)) /\ Cardinality(After(p)) <= Cardinality(After(o))
  BY <1>4, MemoryConstants, FS_Subset
<1>6. Cardinality(After(o)) \in Nat /\ Cardinality(After(p)) \in Nat
  BY <1>5, FS_CardinalityType
<1>7. QED
  BY <1>1, <1>5, <1>6

\* An insertion's pruning: the rows it removes.
LEMMA PruneKeeps ==
    ASSUME NEW t, TablesOK(t), NEW n \in Nat
    PROVE  TablesOK(Prune(t, n)) /\ Trims(t, Prune(t, n), n)
<1> DEFINE gone == {o \in t.rows : ~Marker(o)} \ KeptRows(t)
           left == IF Protected(t) = {} THEN DeleteRows(t, gone) ELSE EraseRows(t, gone, n)
           markers == {o \in left.rows : Marker(o)}
           old == markers \ Newest(left, markers, MaxMarkers)
<1>1. Prune(t, n) = DeleteRows(left, old)
  BY DEF Prune
<1>2. TablesTyped(t) /\ Grounded(t) /\ Accepted(t) /\ Joined(t)
  BY DEF TablesOK
<1>3. t.rows \in SUBSET Observation /\ t.born \in [Observation -> Nat] /\ gone \in SUBSET Observation
  BY <1>2 DEF TablesTyped
<1>4. ASSUME Protected(t) = {} PROVE TablesOK(left) /\ Trims(t, left, n)
  <2> DEFINE others == {o \in t.rows : ~Marker(o)}
  <2>1. others \in SUBSET Observation
    BY <1>3
  <2>2. gone = others \ Newest(t, others, MaxObservations)
    <3> DEFINE pinned == Protected(t) \cap t.rows
    <3>1. pinned = {}
      BY <1>4
    <3>2. {o \in t.rows \ pinned : ~Marker(o)} = others
      BY <3>1
    <3>3. KeptRows(t) = pinned \cup Newest(t, {o \in t.rows \ pinned : ~Marker(o)}, MaxObservations - Cardinality(pinned))
      BY DEF KeptRows
    <3> HIDE DEF pinned, others
    <3>4. Cardinality(pinned) = 0
      BY <3>1, FS_EmptySet
    <3>5. MaxObservations - Cardinality(pinned) = MaxObservations
      BY <3>4, MemoryConstants
    <3>6. KeptRows(t) = Newest(t, others, MaxObservations)
      BY <3>1, <3>2, <3>3, <3>5
    <3>7. QED
      BY <3>6 DEF others
  <2>3. ASSUME NEW s \in gone, NEW o \in t.rows \ gone PROVE Marker(o) \/ t.born[o] > t.born[s]
    <3>1. SUFFICES ASSUME ~Marker(o) PROVE t.born[o] > t.born[s]
      OBVIOUS
    <3>2. o \in Newest(t, others, MaxObservations) /\ s \in others \ Newest(t, others, MaxObservations)
      BY <2>2, <3>1
    <3> HIDE DEF gone, others
    <3>3. QED
      BY <1>3, <2>1, <3>2, MemoryConstants, NewestLast
  <2>4. ASSUME NEW a \in Artifacts(t), Active(t, a), NEW b \in Ancestors(a) PROVE SourcesOf[b] \cap Observation = {}
    <3>1. SUFFICES ASSUME NEW o \in Observation, o \in SourcesOf[b] PROVE FALSE
      OBVIOUS
    <3>2. a \notin Derived(t, {o})
      BY <1>2, <1>4, <2>4 DEF Protected, Accepted
    <3>3. \A x \in Ancestors(a) : t.art[x].cut = {}
      BY <1>2, <2>4 DEF Accepted
    <3>4. {o} \in SUBSET (Observation \cup Artifact)
      OBVIOUS
    <3>5. SourcesOf[b] \cap ({o} \cup Derived(t, {o})) = {}
      BY <1>2, <3>2, <3>3, <3>4, StandsApart
    <3>6. QED
      BY <3>1, <3>5
  <2> HIDE DEF gone
  <2>5. left = DeleteRows(t, gone)
    BY <1>4
  <2> HIDE DEF left
  <2>6. \A a \in Artifacts(t) : Active(t, a) => \A b \in Ancestors(a) : SourcesOf[b] \cap gone \cap t.rows = {}
    BY <1>3, <2>4
  <2>7. \A a \in Artifacts(t) : \A s \in SourcesOf[a] \cap gone \cap t.rows :
            \A o \in t.rows \ gone : Marker(o) \/ t.born[o] > t.born[s]
    BY <2>3
  <2>8. TablesOK(left) /\ Trims(t, left, n)
    BY <1>3, <2>5, <2>6, <2>7, RowsGo
  <2>9. QED
    BY <2>8
<1>5. ASSUME Protected(t) # {} PROVE TablesOK(left) /\ Trims(t, left, n)
  <2> HIDE DEF gone
  <2>1. left = EraseRows(t, gone, n)
    BY <1>5
  <2> HIDE DEF left
  <2>2. TablesOK(left) /\ Trims(t, left, n)
    BY <1>3, <2>1, RowsErased
  <2>3. QED
    BY <2>2
<1>6. TablesOK(left) /\ Trims(t, left, n)
  BY <1>4, <1>5
<1> HIDE DEF left
<1>7. old \in SUBSET Observation /\ \A o \in old : Marker(o)
  BY <1>6 DEF TablesOK, TablesTyped
<1> HIDE DEF old
<1>8. \A a \in Artifacts(left) : SourcesOf[a] \cap old = {}
  BY <1>6, <1>7 DEF TablesOK, Grounded
<1>9. \A a \in Artifacts(left) : \A b \in Ancestors(a) : SourcesOf[b] \cap old = {}
  BY <1>6, <1>8, AncestorsThere DEF TablesOK
<1>10. TablesOK(DeleteRows(left, old)) /\ Trims(left, DeleteRows(left, old), n)
  BY <1>6, <1>7, <1>8, <1>9, RowsGo
<1>11. QED
  BY <1>1, <1>2, <1>6, <1>10, TrimsTwice

\* Markers may go.
LEMMA MarkersGo ==
    ASSUME NEW t, TablesOK(t), NEW S \in SUBSET Observation, \A o \in S : Marker(o), NEW n \in Nat
    PROVE  TablesOK(DeleteRows(t, S)) /\ Trims(t, DeleteRows(t, S), n)
<1>1. \A a \in Artifacts(t) : SourcesOf[a] \cap S = {}
  BY DEF TablesOK, Grounded
<1>2. \A a \in Artifacts(t) : \A b \in Ancestors(a) : SourcesOf[b] \cap S = {}
  BY <1>1, AncestorsThere DEF TablesOK
<1>3. QED
  BY <1>1, <1>2, RowsGo

-----------------------------------------------------------------------------
(* Ids and rows. *)

\* The row that will be inserted under an id nothing refers to.
LEMMA InsertKeeps ==
    ASSUME NEW t, TablesOK(t), NEW o \in Given(t), \A a \in Artifacts(t) : o \notin SourcesOf[a]
    PROVE  TablesOK(Insert(t, o)) /\ Insert(t, o) = [t EXCEPT !.rows = t.rows \cup {o}]
<1> DEFINE rows == t.rows \cup {o}
           u == Insert(t, o)
<1>1. u = [t EXCEPT !.rows = rows] /\ rows \in SUBSET Observation
  BY DEF Insert, TablesOK, TablesTyped, Given
<1>2. /\ u.rows = rows /\ u.born = t.born /\ u.art = t.art /\ u.rel = t.rel /\ TablesTyped(u)
  BY <1>1 DEF TablesOK, TablesTyped
<1> HIDE DEF u
<1>3. Given(u) = Given(t) /\ Artifacts(u) = Artifacts(t) /\ \A a : Active(u, a) = Active(t, a)
  BY <1>2 DEF Given, Artifacts, Active
<1>4. Numbered(u) /\ Accepted(u) /\ Versioned(u) /\ Joined(u)
  BY <1>2, <1>3 DEF TablesOK, Numbered, Accepted, Versioned, Joined
<1>5. Grounded(u)
  BY <1>2, <1>3 DEF TablesOK, Grounded
<1>6. QED
  BY <1>1, <1>2, <1>4, <1>5 DEF TablesOK, u

\* A new id keeps the tables sound, and is the only one given.
LEMMA StampKeeps ==
    ASSUME NEW t, TablesOK(t), NEW o \in Observation, o \notin Given(t)
    PROVE  /\ TablesOK(Stamp(t, o))
           /\ Given(Stamp(t, o)) = Given(t) \cup {o}
           /\ \A p \in Given(t) : Stamp(t, o).born[p] = t.born[p] /\ t.born[p] < Stamp(t, o).born[o]
           /\ Stamp(t, o) = [t EXCEPT !.born = Stamp(t, o).born]
<1> DEFINE c == Cardinality(Given(t)) + 1
           born == [t.born EXCEPT ![o] = c]
           u == Stamp(t, o)
<1>0. IsFiniteSet(Given(t)) /\ Cardinality(Given(t)) \in Nat /\ Given(t) \in SUBSET Observation
  <2>1. Given(t) \in SUBSET Observation
    BY DEF Given
  <2>2. QED
    BY <2>1, MemoryConstants, FS_Subset, FS_CardinalityType
<1>1. u = [t EXCEPT !.born = born]
  BY DEF Stamp
<1>2. born \in [Observation -> Nat] /\ born[o] = c /\ \A p \in Observation \ {o} : born[p] = t.born[p]
  BY <1>0 DEF TablesOK, TablesTyped
<1> HIDE DEF born
<1>3. u.born = born /\ u.rows = t.rows /\ u.art = t.art /\ u.rel = t.rel /\ TablesTyped(u)
  BY <1>1, <1>2 DEF TablesOK, TablesTyped
<1> HIDE DEF u
<1>4. Given(u) = Given(t) \cup {o}
  BY <1>0, <1>2, <1>3 DEF Given
<1>5. Cardinality(Given(u)) = c
  BY <1>0, <1>4, FS_AddElement
<1>6. \A p \in Given(t) : p # o /\ born[p] = t.born[p] /\ t.born[p] <= Cardinality(Given(t)) /\ t.born[p] \in Nat
  BY <1>0, <1>2 DEF TablesOK, TablesTyped, Numbered
<1>7. Numbered(u)
  <2>1. t.rows \subseteq Given(t) /\ \A p, q \in Given(t) : t.born[p] = t.born[q] => p = q
    BY DEF TablesOK, Numbered
  <2>2. \A p \in Given(u) : u.born[p] <= Cardinality(Given(u))
    BY <1>0, <1>2, <1>3, <1>4, <1>5, <1>6
  <2>3. \A p, q \in Given(u) : u.born[p] = u.born[q] => p = q
    <3>1. \A p \in Given(t) : u.born[p] = t.born[p] /\ t.born[p] # c
      BY <1>0, <1>3, <1>6
    <3>2. u.born[o] = c
      BY <1>2, <1>3
    <3> HIDE DEF c
    <3>3. QED
      BY <1>4, <2>1, <3>1, <3>2
  <2>4. QED
    BY <1>3, <1>4, <2>1, <2>2, <2>3 DEF Numbered
<1>8. Artifacts(u) = Artifacts(t) /\ \A a : Active(u, a) = Active(t, a)
  BY <1>3 DEF Artifacts, Active
<1>9. Accepted(u) /\ Versioned(u) /\ Joined(u) /\ Grounded(u)
  BY <1>3, <1>4, <1>8 DEF TablesOK, Accepted, Versioned, Joined, Grounded
<1>10. \A p \in Given(t) : u.born[p] = t.born[p] /\ t.born[p] < u.born[o]
  BY <1>0, <1>2, <1>3, <1>6
<1>11. u = [t EXCEPT !.born = u.born]
  BY <1>1, <1>3
<1>12. QED
  BY <1>3, <1>4, <1>7, <1>9, <1>10, <1>11 DEF TablesOK, u

\* An id is taken back: the later ones move up, in the order they had.
LEMMA UnstampKeeps ==
    ASSUME NEW t, TablesOK(t), NEW o \in Observation, o \notin t.rows, \A a \in Artifacts(t) : o \notin SourcesOf[a]
    PROVE  /\ TablesOK(Unstamp(t, o))
           /\ Given(Unstamp(t, o)) = Given(t) \ {o}
           /\ \A p, q \in Given(t) \ {o} : t.born[p] < t.born[q] => Unstamp(t, o).born[p] < Unstamp(t, o).born[q]
           /\ Unstamp(t, o) = [t EXCEPT !.born = Unstamp(t, o).born]
<1>0. /\ TablesTyped(t) /\ t.born \in [Observation -> Nat] /\ Numbered(t)
      /\ Given(t) \in SUBSET Observation /\ \A p \in Observation : p \in Given(t) <=> t.born[p] > 0
  BY DEF TablesOK, TablesTyped, Given
<1>1. CASE o \notin Given(t)
  <2>1. Unstamp(t, o) = t /\ Given(t) \ {o} = Given(t) /\ t = [t EXCEPT !.born = t.born]
    BY <1>0, <1>1 DEF Unstamp, TablesTyped
  <2>2. QED
    BY <2>1
<1>2. CASE o \in Given(t)
  <2> DEFINE born == [p \in Observation |->
                        IF p = o THEN 0 ELSE IF t.born[p] > t.born[o] THEN t.born[p] - 1 ELSE t.born[p]]
             u == Unstamp(t, o)
  <2>1. u = [t EXCEPT !.born = born]
    BY <1>2 DEF Unstamp
  <2>2. ASSUME NEW p \in Observation
        PROVE  /\ born[p] = IF p = o THEN 0 ELSE IF t.born[p] > t.born[o] THEN t.born[p] - 1 ELSE t.born[p]
               /\ born[p] \in Nat
    BY <1>0
  <2>3. born \in [Observation -> Nat]
    BY <2>2
  <2> HIDE DEF born
  <2>4. u.born = born /\ u.rows = t.rows /\ u.art = t.art /\ u.rel = t.rel /\ TablesTyped(u)
    BY <1>0, <2>1, <2>3 DEF TablesTyped
  <2> HIDE DEF u
  <2>5. Given(u) = Given(t) \ {o}
    <3>1. \A p \in Observation : born[p] > 0 <=> t.born[p] > 0 /\ p # o
      <4>1. t.born[o] > 0
        BY <1>0, <1>2
      <4>2. QED
        BY <1>0, <2>2, <4>1
    <3>2. QED
      BY <1>0, <2>4, <3>1 DEF Given
  <2>6. /\ IsFiniteSet(Given(t)) /\ Cardinality(Given(t)) \in Nat
        /\ Cardinality(Given(u)) = Cardinality(Given(t)) - 1
    <3>1. IsFiniteSet(Given(t))
      BY <1>0, MemoryConstants, FS_Subset
    <3>2. Cardinality(Given(t)) \in Nat
      BY <3>1, FS_CardinalityType
    <3>3. Cardinality(Given(t) \ {o}) = Cardinality(Given(t)) - 1
      BY <1>2, <3>1, FS_RemoveElement
    <3>4. QED
      BY <2>5, <3>1, <3>2, <3>3
  <2>7. ASSUME NEW p \in Given(t) \ {o}
        PROVE  /\ t.born[p] \in Nat /\ t.born[p] # t.born[o] /\ t.born[p] <= Cardinality(Given(t))
               /\ born[p] = IF t.born[p] > t.born[o] THEN t.born[p] - 1 ELSE t.born[p]
    BY <1>0, <1>2, <2>2 DEF Numbered
  <2>8. t.born[o] \in Nat /\ t.born[o] <= Cardinality(Given(t))
    <3>1. t.born[o] \in Nat
      BY <1>0
    <3>2. \A p \in Given(t) : t.born[p] <= Cardinality(Given(t))
      BY <1>0 DEF Numbered
    <3>3. QED
      BY <1>2, <3>1, <3>2
  <2>9. ASSUME NEW p \in Given(t) \ {o}, NEW q \in Given(t) \ {o}
        PROVE  /\ t.born[p] < t.born[q] => born[p] < born[q]
               /\ born[p] = born[q] => t.born[p] = t.born[q]
    BY <2>7, <2>8
  <2>10. Numbered(u)
    <3>1. \A p \in Given(u) : u.born[p] <= Cardinality(Given(u))
      BY <2>4, <2>5, <2>6, <2>7, <2>8
    <3>2. \A p, q \in Given(u) : u.born[p] = u.born[q] => p = q
      BY <1>0, <2>4, <2>5, <2>9 DEF Numbered
    <3>3. u.rows \subseteq Given(u)
      BY <1>0, <2>4, <2>5 DEF Numbered
    <3>4. QED
      BY <3>1, <3>2, <3>3 DEF Numbered
  <2>11. Artifacts(u) = Artifacts(t) /\ \A a : Active(u, a) = Active(t, a)
    BY <2>4 DEF Artifacts, Active
  <2>12. Accepted(u) /\ Versioned(u) /\ Joined(u)
    BY <2>4, <2>11 DEF TablesOK, Accepted, Versioned, Joined
  <2>13. Grounded(u)
    BY <2>4, <2>5, <2>11 DEF TablesOK, Grounded
  <2>14. u = [t EXCEPT !.born = u.born]
    BY <2>1, <2>4
  <2>15. QED
    BY <2>4, <2>5, <2>9, <2>10, <2>12, <2>13, <2>14 DEF TablesOK, u
<1>3. QED
  BY <1>1, <1>2

(* What was copied, and what was forgotten. *)

\* What a row was made from: itself, if it tells a change, or rows of its
\* session that are older, if it is a capsule.
MadeFrom(t, k, o) ==
    /\ o \in Given(t) /\ k \in Given(t) /\ ~Marker(o)
    /\ \/ k = o
       \/ /\ EventOf[k] = "session_capsule"
          /\ SessionOf[k] = SessionOf[o]
          /\ t.born[o] < t.born[k]

\* Nothing that was forgotten is in a row, in what a row repeats, or in what an
\* artifact is made from; what an artifact lost, no row repeats the origin of.
HistoryOK(t, cp, fg) ==
    /\ cp \in [Observation -> SUBSET Observation]
    /\ \A k \in Observation : \A o \in cp[k] : MadeFrom(t, k, o)
    /\ fg \subseteq Given(t)
    /\ fg \cap t.rows = {}
    /\ \A k \in t.rows : cp[k] \cap fg = {}
    /\ \A a \in Artifacts(t) : \A s \in SourcesOf[a] \cap Observation :
          /\ s \notin fg /\ cp[s] \cap fg = {}
          /\ s \notin t.rows => cp[s] \cap t.rows = {}

\* An id that was given and that nothing refers to yet.
FreshIn(t, cp, fg, o) ==
    /\ o \in Given(t) /\ o \notin t.rows /\ o \notin fg
    /\ \A a \in Artifacts(t) : o \notin SourcesOf[a]
    /\ \A k \in Observation : o \notin cp[k]
    /\ cp[o] = {}

\* A deletion keeps what was forgotten or copied apart from what is there.
LEMMA HistoryTrimmed ==
    ASSUME NEW t, NEW u, NEW n, NEW cp, NEW fg,
           TablesOK(t), TablesOK(u), Trims(t, u, n), HistoryOK(t, cp, fg)
    PROVE  HistoryOK(u, cp, fg) /\ \A o : FreshIn(t, cp, fg, o) => FreshIn(u, cp, fg, o)
<1>1. /\ Given(u) = Given(t) /\ u.rows \subseteq t.rows /\ Artifacts(u) \subseteq Artifacts(t) /\ u.born = t.born
      /\ u.rows \subseteq Observation /\ Artifacts(u) \subseteq Artifact
  <2>1. u.rows \subseteq Observation /\ Artifacts(u) \subseteq Artifact
    BY ArtifactRows DEF TablesOK, TablesTyped
  <2>2. QED
    BY <2>1 DEF Trims, Given
<1>2. \A k, o : MadeFrom(t, k, o) => MadeFrom(u, k, o)
  BY <1>1 DEF MadeFrom
<1>3. ASSUME NEW a \in Artifacts(u), NEW s \in SourcesOf[a] \cap Observation, s \notin u.rows
      PROVE  cp[s] \cap u.rows = {}
  <2>1. CASE s \notin t.rows
    BY <1>1, <2>1 DEF HistoryOK
  <2>2. CASE s \in t.rows
    <3>1. SUFFICES ASSUME NEW o \in cp[s] \cap u.rows PROVE FALSE
      OBVIOUS
    <3>2. MadeFrom(t, s, o)
      BY DEF HistoryOK
    <3>3. Marker(o) \/ u.born[o] > u.born[s]
      BY <1>3, <2>2 DEF Trims, OldestGone
    <3>4. t.born[o] \in Nat /\ t.born[s] \in Nat
      BY <1>1 DEF TablesOK, TablesTyped
    <3>5. QED
      BY <1>1, <1>3, <3>2, <3>3, <3>4 DEF MadeFrom
  <2>3. QED
    BY <2>1, <2>2
<1>4. HistoryOK(u, cp, fg)
  BY <1>1, <1>2, <1>3 DEF HistoryOK
<1>5. \A o : FreshIn(t, cp, fg, o) => FreshIn(u, cp, fg, o)
  BY <1>1 DEF FreshIn
<1>6. QED
  BY <1>4, <1>5

\* Changes that leave ids, rows and the set of artifacts alone.
LEMMA HistorySame ==
    ASSUME NEW t, NEW u, NEW cp, NEW fg, HistoryOK(t, cp, fg),
           u.rows = t.rows, u.born = t.born, Artifacts(u) = Artifacts(t)
    PROVE  HistoryOK(u, cp, fg) /\ \A o : FreshIn(t, cp, fg, o) => FreshIn(u, cp, fg, o)
<1>1. Given(u) = Given(t)
  BY DEF Given
<1>2. \A k, o : MadeFrom(t, k, o) => MadeFrom(u, k, o)
  BY <1>1 DEF MadeFrom
<1>3. QED
  BY <1>1, <1>2 DEF HistoryOK, FreshIn

\* So does a new id.
LEMMA HistoryStamped ==
    ASSUME NEW t, NEW cp, NEW fg, TablesOK(t), HistoryOK(t, cp, fg),
           NEW o \in Observation, o \notin Given(t)
    PROVE  LET u == Stamp(t, o)
           IN  /\ HistoryOK(u, cp, fg)
               /\ FreshIn(u, cp, fg, o)
               /\ \A p : FreshIn(t, cp, fg, p) => FreshIn(u, cp, fg, p) /\ p # o
<1> DEFINE u == Stamp(t, o)
<1>1. /\ Given(u) = Given(t) \cup {o} /\ u.rows = t.rows /\ u.art = t.art
      /\ \A p \in Given(t) : u.born[p] = t.born[p]
      /\ t.rows \subseteq Given(t)
  <2>1. u = [t EXCEPT !.born = u.born]
    BY StampKeeps
  <2> HIDE DEF u
  <2>2. u.rows = t.rows /\ u.art = t.art
    BY <2>1 DEF TablesOK, TablesTyped
  <2>3. QED
    BY <2>2, StampKeeps DEF TablesOK, Numbered, u
<1> HIDE DEF u
<1>2. Artifacts(u) = Artifacts(t)
  BY <1>1 DEF Artifacts
<1>3. \A k, p : MadeFrom(t, k, p) => MadeFrom(u, k, p)
  BY <1>1 DEF MadeFrom
<1>4. HistoryOK(u, cp, fg)
  BY <1>1, <1>2, <1>3 DEF HistoryOK
<1>5. FreshIn(u, cp, fg, o)
  <2>1. \A k \in Observation : o \notin cp[k]
    BY DEF HistoryOK, MadeFrom
  <2>2. cp[o] = {}
    BY DEF HistoryOK, MadeFrom
  <2>3. \A a \in Artifacts(t) : o \notin SourcesOf[a]
    BY DEF TablesOK, Grounded
  <2>4. QED
    BY <1>1, <1>2, <2>1, <2>2, <2>3 DEF FreshIn, HistoryOK
<1>6. \A p : FreshIn(t, cp, fg, p) => FreshIn(u, cp, fg, p) /\ p # o
  BY <1>1, <1>2 DEF FreshIn
<1>7. QED
  BY <1>4, <1>5, <1>6 DEF u

\* So does an id that is taken back.
LEMMA HistoryUnstamped ==
    ASSUME NEW t, NEW cp, NEW fg, TablesOK(t), HistoryOK(t, cp, fg),
           NEW o, FreshIn(t, cp, fg, o)
    PROVE  LET u == Unstamp(t, o)
           IN  /\ TablesOK(u)
               /\ HistoryOK(u, cp, fg)
               /\ \A p : FreshIn(t, cp, fg, p) /\ p # o => FreshIn(u, cp, fg, p)
               /\ u = [t EXCEPT !.born = u.born]
<1> DEFINE u == Unstamp(t, o)
<1>0. o \in Observation /\ o \notin t.rows /\ \A a \in Artifacts(t) : o \notin SourcesOf[a]
  BY DEF FreshIn, Given
<1>1. /\ TablesOK(u) /\ Given(u) = Given(t) \ {o} /\ u.rows = t.rows /\ u.art = t.art
      /\ \A p, q \in Given(t) \ {o} : t.born[p] < t.born[q] => u.born[p] < u.born[q]
      /\ u = [t EXCEPT !.born = u.born]
  <2>1. u = [t EXCEPT !.born = u.born]
    BY <1>0, UnstampKeeps
  <2> HIDE DEF u
  <2>2. u.rows = t.rows /\ u.art = t.art
    BY <2>1 DEF TablesOK, TablesTyped
  <2>3. QED
    BY <1>0, <2>1, <2>2, UnstampKeeps DEF u
<1> HIDE DEF u
<1>2. Artifacts(u) = Artifacts(t)
  BY <1>1 DEF Artifacts
<1>3. \A k \in Observation : \A p \in cp[k] : k # o /\ p # o
  BY DEF FreshIn
<1>4. \A k \in Observation : \A p \in cp[k] : MadeFrom(u, k, p)
  BY <1>1, <1>3 DEF HistoryOK, MadeFrom
<1>5. HistoryOK(u, cp, fg)
  BY <1>1, <1>2, <1>4 DEF HistoryOK, FreshIn
<1>6. \A p : FreshIn(t, cp, fg, p) /\ p # o => FreshIn(u, cp, fg, p)
  BY <1>1, <1>2 DEF FreshIn
<1>7. QED
  BY <1>1, <1>5, <1>6 DEF u

\* A row is inserted under a fresh id, and made from the rows of C.
LEMMA HistoryInserted ==
    ASSUME NEW t, NEW cp, NEW fg, TablesOK(t), HistoryOK(t, cp, fg),
           NEW o, FreshIn(t, cp, fg, o),
           NEW C \in SUBSET Observation, \A p \in C : MadeFrom(t, o, p), C \cap fg = {}
    PROVE  LET u == Insert(t, o)
               c2 == [cp EXCEPT ![o] = C]
           IN  /\ TablesOK(u)
               /\ HistoryOK(u, c2, fg)
               /\ \A p : FreshIn(t, cp, fg, p) /\ p # o /\ p \notin C => FreshIn(u, c2, fg, p)
<1> DEFINE u == Insert(t, o)
           c2 == [cp EXCEPT ![o] = C]
<1>0. o \in Observation /\ o \in Given(t) /\ \A a \in Artifacts(t) : o \notin SourcesOf[a]
  BY DEF FreshIn, Given
<1>1. TablesOK(u) /\ u = [t EXCEPT !.rows = t.rows \cup {o}]
  BY <1>0, InsertKeeps
<1> HIDE DEF u
<1>2. u.rows = t.rows \cup {o} /\ u.born = t.born /\ u.art = t.art
  BY <1>1 DEF TablesOK, TablesTyped
<1>3. Given(u) = Given(t) /\ Artifacts(u) = Artifacts(t)
  BY <1>2 DEF Given, Artifacts
<1>4. \A k, p : MadeFrom(t, k, p) => MadeFrom(u, k, p)
  BY <1>2, <1>3 DEF MadeFrom
<1>5. /\ c2 \in [Observation -> SUBSET Observation] /\ c2[o] = C
      /\ \A k \in Observation \ {o} : c2[k] = cp[k]
  BY <1>0 DEF HistoryOK
<1> HIDE DEF c2
<1>6. \A k \in Observation : \A p \in c2[k] : MadeFrom(u, k, p)
  BY <1>4, <1>5 DEF HistoryOK
<1>7. t.rows \subseteq Observation
  BY DEF TablesOK, TablesTyped
<1>8. HistoryOK(u, c2, fg)
  <2>1. fg \subseteq Given(u) /\ fg \cap u.rows = {}
    BY <1>2, <1>3 DEF HistoryOK, FreshIn
  <2>2. \A k \in u.rows : c2[k] \cap fg = {}
    BY <1>2, <1>5, <1>7 DEF HistoryOK
  <2>3. ASSUME NEW a \in Artifacts(u), NEW s \in SourcesOf[a] \cap Observation
        PROVE  s \notin fg /\ c2[s] \cap fg = {} /\ (s \notin u.rows => c2[s] \cap u.rows = {})
    <3>1. s # o /\ c2[s] = cp[s] /\ o \notin cp[s] /\ a \in Artifacts(t)
      BY <1>0, <1>3, <1>5 DEF FreshIn
    <3>2. QED
      BY <1>2, <3>1 DEF HistoryOK
  <2>4. QED
    BY <1>5, <1>6, <2>1, <2>2, <2>3 DEF HistoryOK
<1>9. ASSUME NEW p, FreshIn(t, cp, fg, p), p # o, p \notin C PROVE FreshIn(u, c2, fg, p)
  <2>1. p \in Observation
    BY <1>9 DEF FreshIn, Given
  <2>2. QED
    BY <1>2, <1>3, <1>5, <1>9, <2>1 DEF FreshIn
<1>10. QED
  BY <1>1, <1>8, <1>9 DEF u, c2

\* An artifact is made from rows and artifacts that are there.
LEMMA HistoryBuilt ==
    ASSUME NEW t, NEW u, NEW cp, NEW fg, HistoryOK(t, cp, fg),
           u.rows = t.rows, u.born = t.born, NEW a, Artifacts(u) = Artifacts(t) \cup {a},
           SourcesOf[a] \cap Observation \subseteq t.rows, SourcesOf[a] \subseteq Observation \cup Artifact,
           Given(t) \cap Artifact = {}
    PROVE  HistoryOK(u, cp, fg) /\ \A o : FreshIn(t, cp, fg, o) => FreshIn(u, cp, fg, o)
<1>1. Given(u) = Given(t)
  BY DEF Given
<1>2. \A k, o : MadeFrom(t, k, o) => MadeFrom(u, k, o)
  BY <1>1 DEF MadeFrom
<1>3. HistoryOK(u, cp, fg)
  BY <1>1, <1>2 DEF HistoryOK
<1>4. ASSUME NEW o, FreshIn(t, cp, fg, o) PROVE o \notin SourcesOf[a]
  BY <1>4 DEF FreshIn
<1>5. QED
  BY <1>1, <1>3, <1>4 DEF FreshIn

(* The calls under way. *)

\* A call that built a row and has not inserted it.
Pending(w) == w.op \in {"record", "capture"}

\* A decision about two facts that is still bound to its preview was shown
\* every unresolved dispute of the two.
Shown(t, w) ==
    /\ w.about.kind = "experience" => w.about.a \in Artifact
    /\ w.about.kind \in {"contradicts", "supersedes"} =>
          /\ w.about.at \in Nat
          /\ w.fresh => \A r \in t.rel :
                /\ r.kind = "contradicts"
                /\ r.resolved = None
                /\ {r.from, r.to} \cap {w.about.a, w.about.b} # {}
                => {r.from, r.to} \subseteq w.seen

\* What a call may rely on of what it read.
WaitOK(t, cp, fg, w) ==
    /\ w = [op |-> w.op, about |-> w.about, seen |-> w.seen, fresh |-> w.fresh]
    /\ Pending(w) => FreshIn(t, cp, fg, w.about)
    /\ w.op = "record" => EventOf[w.about] \notin {"session_capsule", "repository_change"}
    /\ w.op = "capture" => EventOf[w.about] = "repository_change"
    /\ w.op = "capsule" => \A o \in w.seen : /\ o \in Observation
                                             /\ SessionOf[o] = w.about
                                             /\ EventOf[o] \in SessionEvents
    /\ w.op = "reindex" /\ w.fresh => w.seen \subseteq {o \in t.rows : ~Marker(o)}
    /\ w.op = "review" => Shown(t, w)

\* What the calls under way rely on; no two of them hold one id.
Waiting(t, cp, fg, win) ==
    /\ \A c \in Caller : WaitOK(t, cp, fg, win[c])
    /\ \A c, d \in Caller :
          Pending(win[c]) /\ Pending(win[d]) /\ win[c].about = win[d].about => c = d

\* The index holds rows that are there.
IndexOK(ix, t) == ix # None => ix.ids \subseteq t.rows

\* The inductive invariant of the memory: tables, history, calls and index.
MemInv ==
    /\ TablesOK(db)
    /\ HistoryOK(db, copies, forgotten)
    /\ Waiting(db, copies, forgotten, window)
    /\ window = [c \in Caller |-> window[c]]
    /\ IndexOK(index, db)
    /\ now \in Nat

\* A step from t to u that gives ids of G, inserts rows of R, adds no relation
\* and ends no period.
Moves(t, u, n, G, R) ==
    /\ Given(u) \subseteq Given(t) \cup G
    /\ u.rows \subseteq t.rows \cup R
    /\ u.rel \subseteq t.rel
    /\ \A a \in Artifacts(t) \cap Artifacts(u) : t.art[a].to = u.art[a].to
    /\ Unsettled(t, u, n)

\* A deletion gives no id and inserts no row.
LEMMA TrimsMoves ==
    ASSUME NEW t, NEW u, NEW n, Trims(t, u, n)
    PROVE  Moves(t, u, n, {}, {})
<1>1. Given(u) = Given(t)
  BY DEF Trims, Given
<1>2. QED
  BY <1>1 DEF Trims, Moves

\* A step that keeps the artifacts settles no dispute by deletion.
LEMMA KeptMoves ==
    ASSUME NEW t, NEW u, NEW n, Joined(t), Artifacts(t) \subseteq Artifacts(u)
    PROVE  Unsettled(t, u, n)
BY DEF Joined, Unsettled

\* The same changes after the artifacts and relations of t.
LEMMA MovesOn ==
    ASSUME NEW t, NEW u, NEW v, NEW n, NEW G, NEW R, NEW o, Moves(u, v, n, {}, {}),
           u.art = t.art, u.rel = t.rel, Given(u) \subseteq Given(t) \cup G, u.rows \subseteq t.rows \cup R
    PROVE  Moves(t, v, n, G, R)
<1>1. Artifacts(u) = Artifacts(t)
  BY DEF Artifacts
<1>2. QED
  BY <1>1 DEF Moves, Unsettled

\* A digest that is unchanged means the rows, or the relations, it was made of are.
LEMMA Unmoved ==
    \A w, t, u : Unchanged(w, t, u) =>
        /\ w.op = "reindex" => {o \in t.rows : ~Marker(o)} = {o \in u.rows : ~Marker(o)}
        /\ w.op = "review" => t.rel = u.rel
<1> SUFFICES ASSUME NEW w, NEW t, NEW u, Unchanged(w, t, u)
             PROVE  /\ w.op = "reindex" => {o \in t.rows : ~Marker(o)} = {o \in u.rows : ~Marker(o)}
                    /\ w.op = "review" => t.rel = u.rel
  OBVIOUS
<1>1. ASSUME w.op = "reindex" PROVE {o \in t.rows : ~Marker(o)} = {o \in u.rows : ~Marker(o)}
  <2>1. Corpus(t) = Corpus(u)
    BY <1>1 DEF Unchanged
  <2>2. Corpus(t)[1] = Corpus(u)[1]
    BY <2>1
  <2>3. QED
    BY <2>2 DEF Corpus
<1>2. ASSUME w.op = "review" PROVE t.rel = u.rel
  <2>1. ReviewState(t) = ReviewState(u)
    BY <1>2 DEF Unchanged
  <2>2. ReviewState(t)[2] = ReviewState(u)[2]
    BY <2>1
  <2>3. QED
    BY <2>2 DEF ReviewState
<1>3. QED
  BY <1>1, <1>2

\* A call that a step from t to u of another leaves at x.
LeftAt(w, x, t, u) ==
    /\ x = [w EXCEPT !.fresh = x.fresh]
    /\ x.fresh => w.fresh /\ Unchanged(w, t, u)

\* So a call goes on waiting after a step of another that leaves it its id.
LEMMA CallWaits ==
    \A t, u, cp, c2, fg, f2, w, x :
        /\ WaitOK(t, cp, fg, w)
        /\ LeftAt(w, x, t, u)
        /\ Pending(w) => FreshIn(u, c2, f2, w.about)
        => WaitOK(u, c2, f2, x) /\ x.op = w.op /\ x.about = w.about
<1> SUFFICES ASSUME NEW t, NEW u, NEW cp, NEW c2, NEW fg, NEW f2, NEW w, NEW x, WaitOK(t, cp, fg, w),
                    x = [w EXCEPT !.fresh = x.fresh],
                    x.fresh => w.fresh /\ Unchanged(w, t, u),
                    Pending(w) => FreshIn(u, c2, f2, w.about)
             PROVE  WaitOK(u, c2, f2, x) /\ x.op = w.op /\ x.about = w.about
  BY DEF LeftAt
<1>1. /\ x.op = w.op /\ x.about = w.about /\ x.seen = w.seen
      /\ x = [op |-> x.op, about |-> x.about, seen |-> x.seen, fresh |-> x.fresh]
  <2>1. w = [op |-> w.op, about |-> w.about, seen |-> w.seen, fresh |-> w.fresh]
    BY DEF WaitOK
  <2>2. QED
    BY <2>1
<1>2. Pending(x) => FreshIn(u, c2, f2, x.about)
  BY <1>1 DEF Pending
<1>3. x.op = "reindex" /\ x.fresh => x.seen \subseteq {o \in u.rows : ~Marker(o)}
  <2>1. SUFFICES ASSUME x.op = "reindex", x.fresh PROVE w.seen \subseteq {o \in u.rows : ~Marker(o)}
    BY <1>1
  <2>2. w.seen \subseteq {o \in t.rows : ~Marker(o)}
    BY <1>1, <2>1 DEF WaitOK
  <2>3. Unchanged(w, t, u)
    BY <2>1
  <2>6. w.op = "reindex"
    BY <1>1, <2>1
  <2>4. {o \in t.rows : ~Marker(o)} = {o \in u.rows : ~Marker(o)}
    BY <2>6, <2>3, Unmoved
  <2>5. QED
    BY <2>2, <2>4
<1>4. x.op = "review" => Shown(u, x)
  <2>1. SUFFICES ASSUME x.op = "review" PROVE Shown(u, x)
    OBVIOUS
  <2>2. Shown(t, w)
    BY <1>1, <2>1 DEF WaitOK
  <2>3. ASSUME x.fresh PROVE w.fresh /\ t.rel = u.rel
    <3>1. w.fresh /\ Unchanged(w, t, u)
      BY <2>3
    <3>2. w.op = "review"
      BY <1>1, <2>1
    <3>3. QED
      BY <3>1, <3>2, Unmoved
  <2>4. QED
    BY <1>1, <2>2, <2>3 DEF Shown
<1>5. QED
  BY <1>1, <1>2, <1>3, <1>4 DEF WaitOK

\* And all the other calls do, after a transaction of c.
LEMMA StillWaiting ==
    ASSUME NEW t, NEW u, NEW cp, NEW c2, NEW fg, NEW f2, NEW win, NEW w2, NEW c \in Caller,
           Waiting(t, cp, fg, win),
           \A d \in Caller \ {c} : LeftAt(win[d], w2[d], t, u),
           \A o : /\ FreshIn(t, cp, fg, o)
                  /\ Pending(win[c]) => o # win[c].about
                  => FreshIn(u, c2, f2, o),
           WaitOK(u, c2, f2, w2[c]),
           Pending(w2[c]) => w2[c].about \notin Given(t)
    PROVE  Waiting(u, c2, f2, w2)
<1>1. ASSUME NEW d \in Caller \ {c}
      PROVE  WaitOK(u, c2, f2, w2[d]) /\ w2[d].op = win[d].op /\ w2[d].about = win[d].about
  <2>1. WaitOK(t, cp, fg, win[d])
    BY DEF Waiting
  <2>2. Pending(win[d]) => FreshIn(u, c2, f2, win[d].about)
    BY <2>1 DEF Waiting, WaitOK
  <2>3. LeftAt(win[d], w2[d], t, u)
    OBVIOUS
  <2> DEFINE w == win[d]
             x == w2[d]
  <2>4. WaitOK(t, cp, fg, w) /\ (Pending(w) => FreshIn(u, c2, f2, w.about)) /\ LeftAt(w, x, t, u)
    BY <2>1, <2>2, <2>3
  <2> HIDE DEF w, x
  <2>5. WaitOK(u, c2, f2, x) /\ x.op = w.op /\ x.about = w.about
    BY <2>4, CallWaits
  <2>6. QED
    BY <2>5 DEF w, x
<1>2. ASSUME NEW d \in Caller \ {c}, Pending(w2[d]) PROVE w2[d].about \in Given(t)
  <2>1. WaitOK(t, cp, fg, win[d]) /\ Pending(win[d])
    BY <1>1, <1>2 DEF Waiting, Pending
  <2>2. QED
    BY <1>1, <2>1 DEF WaitOK, FreshIn
<1>3. ASSUME NEW d \in Caller, NEW e \in Caller,
             Pending(w2[d]), Pending(w2[e]), w2[d].about = w2[e].about
      PROVE  d = e
  <2>1. CASE d # c /\ e # c
    <3>1. Pending(win[d]) /\ Pending(win[e]) /\ win[d].about = win[e].about
      BY <1>1, <1>3, <2>1 DEF Pending
    <3>2. QED
      BY <3>1 DEF Waiting
  <2>2. CASE d = c \/ e = c
    BY <1>2, <1>3, <2>2
  <2>3. QED
    BY <2>1, <2>2
<1>4. QED
  BY <1>1, <1>3 DEF Waiting

\* The end of a transaction.
LEMMA Committed ==
    ASSUME MemInv, NEW c \in Caller, NEW u, NEW w, NEW receipt, Commit(c, u, w, receipt),
           UNCHANGED now,
           TablesOK(u), HistoryOK(u, copies', forgotten'),
           \A o : /\ FreshIn(db, copies, forgotten, o)
                  /\ Pending(window[c]) => o # window[c].about
                  => FreshIn(u, copies', forgotten', o),
           WaitOK(u, copies', forgotten', w),
           Pending(w) => w.about \notin Given(db)
    PROVE  MemInv' /\ db' = u /\ window'[c] = w
<1>1. db' = u /\ window'[c] = w
  BY DEF Commit
<1>2. \A d \in Caller \ {c} : LeftAt(window[d], window'[d], db, u)
  <2> SUFFICES ASSUME NEW d \in Caller \ {c} PROVE LeftAt(window[d], window'[d], db, u)
    OBVIOUS
  <2> DEFINE still == window[d].fresh /\ Unchanged(window[d], db, u) /\ ~(receipt /\ window[d].op = "review")
  <2>1. window'[d] = [window[d] EXCEPT !.fresh = still]
    BY DEF Commit
  <2>2. window[d] = [op |-> window[d].op, about |-> window[d].about, seen |-> window[d].seen, fresh |-> window[d].fresh]
    BY DEF MemInv, Waiting, WaitOK
  <2>3. window'[d].fresh = still
    <3> HIDE DEF still
    <3>1. QED
      BY <2>1, <2>2
  <2>4. QED
    BY <2>1, <2>3 DEF LeftAt
<1>3. window' = [d \in Caller |-> window'[d]]
  BY DEF Commit
<1>4. Waiting(u, copies', forgotten', window')
  BY <1>1, <1>2, StillWaiting DEF MemInv
<1>5. IndexOK(index', u)
  BY DEF Commit, Reflected, IndexOK
<1>6. QED
  BY <1>1, <1>3, <1>4, <1>5 DEF MemInv

\* A call that ends relies on nothing.
LEMMA OutsideWaits ==
    ASSUME NEW t, NEW cp, NEW fg PROVE WaitOK(t, cp, fg, Outside) /\ ~Pending(Outside)
BY DEF WaitOK, Outside, Pending

(* The steps of passive memory. *)

\* Tables that differ in statuses and links only are as sound.
LEMMA SameTables ==
    ASSUME NEW t, NEW u, TablesOK(t), TablesTyped(u),
           u.born = t.born, u.rows = t.rows, u.art = t.art, u.rel = t.rel
    PROVE  TablesOK(u) /\ Artifacts(u) = Artifacts(t) /\ Given(u) = Given(t)
<1>1. Artifacts(u) = Artifacts(t) /\ Given(u) = Given(t)
  BY DEF Artifacts, Given
<1>2. Numbered(u) /\ Versioned(u) /\ Joined(u)
  BY <1>1 DEF TablesOK, Numbered, Versioned, Joined
<1>3. Grounded(u) /\ Accepted(u)
  BY <1>1 DEF TablesOK, Grounded, Accepted, Active
<1>4. QED
  BY <1>1, <1>2, <1>3 DEF TablesOK

\* A status, or source links that are dropped, keep the tables sound.
LEMMA MetaKeeps ==
    ASSUME NEW t, TablesOK(t), NEW m \in [Observation -> Statuses],
           NEW l \in [Observation -> SUBSET Observation]
    PROVE  LET u == [t EXCEPT !.meta = m, !.links = l]
           IN  /\ TablesOK(u) /\ Artifacts(u) = Artifacts(t) /\ Given(u) = Given(t)
               /\ u.born = t.born /\ u.rows = t.rows /\ u.art = t.art /\ u.rel = t.rel
<1> DEFINE u == [t EXCEPT !.meta = m, !.links = l]
<1>1. TablesTyped(u) /\ u.born = t.born /\ u.rows = t.rows /\ u.art = t.art /\ u.rel = t.rel
  BY DEF TablesOK, TablesTyped
<1> HIDE DEF u
<1>2. TablesOK(u) /\ Artifacts(u) = Artifacts(t) /\ Given(u) = Given(t)
  BY <1>1, SameTables
<1>3. QED
  BY <1>1, <1>2 DEF u

\* A row is inserted and the tables are pruned.
LEMMA PrunedRow ==
    ASSUME NEW t, NEW cp, NEW fg, TablesOK(t), HistoryOK(t, cp, fg), NEW n \in Nat,
           NEW o, FreshIn(t, cp, fg, o),
           NEW C \in SUBSET Observation, \A p \in C : MadeFrom(t, o, p), C \cap fg = {}
    PROVE  LET u == Prune(Insert(t, o), n)
               c2 == [cp EXCEPT ![o] = C]
           IN  /\ TablesOK(u)
               /\ HistoryOK(u, c2, fg)
               /\ \A p : FreshIn(t, cp, fg, p) /\ p # o /\ p \notin C => FreshIn(u, c2, fg, p)
               /\ Moves(t, u, n, {}, {o})
<1> DEFINE v == Insert(t, o)
           u == Prune(v, n)
           c2 == [cp EXCEPT ![o] = C]
<1>0. o \in Given(t) /\ \A a \in Artifacts(t) : o \notin SourcesOf[a]
  BY DEF FreshIn
<1>1. TablesOK(v) /\ v = [t EXCEPT !.rows = t.rows \cup {o}]
  BY <1>0, InsertKeeps
<1>2. /\ HistoryOK(v, c2, fg)
      /\ \A p : FreshIn(t, cp, fg, p) /\ p # o /\ p \notin C => FreshIn(v, c2, fg, p)
  BY HistoryInserted
<1> HIDE DEF c2, v
<1>3. v.born = t.born /\ v.rows = t.rows \cup {o} /\ v.art = t.art /\ v.rel = t.rel
  BY <1>1 DEF TablesOK, TablesTyped
<1>4. TablesOK(u) /\ Trims(v, u, n)
  BY <1>1, PruneKeeps
<1> HIDE DEF u
<1>5. HistoryOK(u, c2, fg) /\ \A p : FreshIn(v, c2, fg, p) => FreshIn(u, c2, fg, p)
  BY <1>1, <1>2, <1>4, HistoryTrimmed
<1>6. Moves(v, u, n, {}, {})
  BY <1>4, TrimsMoves
<1>7. Given(v) \subseteq Given(t) \cup {} /\ v.rows \subseteq t.rows \cup {o}
  BY <1>3 DEF Given
<1>8. Moves(t, u, n, {}, {o})
  BY <1>3, <1>6, <1>7, MovesOn
<1>9. QED
  BY <1>2, <1>4, <1>5, <1>8 DEF u, v, c2

\* The call that built a row is the only one to insert it.
LEMMA OwnRow ==
    ASSUME MemInv, NEW c \in Caller, Pending(window[c])
    PROVE  FreshIn(db, copies, forgotten, window[c].about)
BY DEF MemInv, Waiting, WaitOK

\* A call that built no row has none to take back.
LEMMA NothingPending ==
    ASSUME NEW c, window[c].op \notin {"record", "capture"}
    PROVE  ~Pending(window[c])
BY DEF Pending

\* A transaction that takes rows away.
LEMMA TrimStep ==
    ASSUME MemInv, NEW c \in Caller, ~Pending(window[c]), NEW u, NEW receipt,
           Commit(c, u, Outside, receipt), UNCHANGED <<now, copies>>,
           TablesOK(u), Trims(db, u, now), HistoryOK(u, copies, forgotten'),
           \A o : FreshIn(u, copies, forgotten, o) => FreshIn(u, copies, forgotten', o)
    PROVE  MemInv' /\ Moves(db, db', now, {}, {})
<1>1. HistoryOK(db, copies, forgotten) /\ TablesOK(db)
  BY DEF MemInv
<1>2. \A o : FreshIn(db, copies, forgotten, o) => FreshIn(u, copies, forgotten, o)
  BY <1>1, HistoryTrimmed
<1>3. WaitOK(u, copies', forgotten', Outside) /\ ~Pending(Outside)
  BY OutsideWaits
<1>4. HistoryOK(u, copies', forgotten')
  OBVIOUS
<1>5. \A o : FreshIn(db, copies, forgotten, o) => FreshIn(u, copies', forgotten', o)
  BY <1>2
<1>6. MemInv' /\ db' = u
  BY <1>3, <1>4, <1>5, Committed
<1>7. QED
  BY <1>6, TrimsMoves

\* A transaction that takes only rows away that no user asked to forget.
LEMMA QuietTrim ==
    ASSUME MemInv, NEW c \in Caller, ~Pending(window[c]), NEW u, NEW receipt,
           Commit(c, u, Outside, receipt), UNCHANGED <<now, copies, forgotten>>,
           TablesOK(u), Trims(db, u, now)
    PROVE  MemInv' /\ Moves(db, db', now, {}, {})
<1>1. HistoryOK(db, copies, forgotten) /\ TablesOK(db)
  BY DEF MemInv
<1>2. HistoryOK(u, copies, forgotten)
  BY <1>1, HistoryTrimmed
<1>3. HistoryOK(u, copies, forgotten')
  BY <1>2
<1>4. \A o : FreshIn(u, copies, forgotten, o) => FreshIn(u, copies, forgotten', o)
  OBVIOUS
<1>5. QED
  BY <1>3, <1>4, TrimStep

\* ResetMarker keeps the invariant: only markers go.
LEMMA ResetStep ==
    ASSUME MemInv, NEW c \in Caller, NEW s, ResetMarker(c, s)
    PROVE  MemInv' /\ Moves(db, db', now, {}, {})
<1> DEFINE S == {o \in db.rows : Marker(o) /\ SessionOf[o] = s}
           u == DeleteRows(db, S)
<1>1. ~Pending(window[c]) /\ Commit(c, u, Outside, FALSE) /\ UNCHANGED <<now, copies, forgotten>>
  BY DEF ResetMarker, InCall, Pending
<1>2. TablesOK(db) /\ now \in Nat /\ S \in SUBSET Observation /\ \A o \in S : Marker(o)
  BY DEF MemInv, TablesOK, TablesTyped
<1> HIDE DEF S
<1>3. TablesOK(u) /\ Trims(db, u, now)
  BY <1>2, MarkersGo
<1> HIDE DEF u
<1>4. QED
  BY <1>1, <1>3, QuietTrim

\* Compact keeps the invariant: what is protected stays.
LEMMA CompactStep ==
    ASSUME MemInv, NEW c \in Caller, Compact(c)
    PROVE  MemInv' /\ Moves(db, db', now, {}, {})
<1> DEFINE S == (Repeated \cup Inactive) \ Protected(db)
           u == EraseRows(db, S, now)
<1>1. ~Pending(window[c]) /\ Commit(c, u, Outside, FALSE) /\ UNCHANGED <<now, copies, forgotten>>
  BY DEF Compact, InCall, Pending
<1>2. TablesOK(db) /\ now \in Nat
  BY DEF MemInv
<1>3. S \in SUBSET Observation
  BY DEF MemInv, TablesOK, TablesTyped, Repeated, Inactive
<1> HIDE DEF S
<1>4. TablesOK(u) /\ Trims(db, u, now)
  BY <1>2, <1>3, RowsErased
<1> HIDE DEF u
<1>5. QED
  BY <1>1, <1>4, QuietTrim

\* What may repeat a row that is forgotten goes with it.
LEMMA ForgetStep ==
    ASSUME MemInv, NEW c \in Caller, NEW o \in Observation, Forget(c, o)
    PROVE  MemInv' /\ Moves(db, db', now, {}, {})
<1> DEFINE K == CapsuleCopies(o)
           v == EraseRows(db, K, now)
           u == EraseRows(v, {o}, now)
<1>1. /\ ~Pending(window[c]) /\ Commit(c, u, Outside, FALSE) /\ UNCHANGED <<now, copies>>
      /\ forgotten' = forgotten \cup {o} /\ o \in db.rows
  BY DEF Forget, InCall, Pending
<1>2. TablesOK(db) /\ now \in Nat /\ HistoryOK(db, copies, forgotten)
  BY DEF MemInv
<1>3. db.rows \in SUBSET Observation
  BY <1>2 DEF TablesOK, TablesTyped
<1>4. /\ K \in SUBSET Observation /\ o \notin K
      /\ \A k \in db.rows : /\ EventOf[k] = "session_capsule"
                            /\ SessionOf[k] = SessionOf[o]
                            /\ db.born[k] >= db.born[o]
                            /\ k # o
                            => k \in K
  BY <1>3, CopiesFound
<1> HIDE DEF K
<1>5. /\ TablesOK(v) /\ Trims(db, v, now) /\ v.rows = db.rows \ K
      /\ Artifacts(v) = Artifacts(db) \ Derived(db, K)
      /\ \A a \in Artifacts(v) : Sources(db, a) \cap K = {}
  BY <1>2, <1>4, RowsErased
<1> HIDE DEF v
<1>6. {o} \in SUBSET Observation
  OBVIOUS
<1>7. /\ TablesOK(u) /\ Trims(v, u, now) /\ u.rows = v.rows \ {o}
      /\ Artifacts(u) = Artifacts(v) \ Derived(v, {o})
      /\ \A a \in Artifacts(u) : Sources(v, a) \cap {o} = {}
  BY <1>2, <1>5, <1>6, RowsErased
<1> HIDE DEF u
<1>8. Trims(db, u, now)
  BY <1>2, <1>5, <1>7, TrimsTwice DEF TablesOK
<1>9. HistoryOK(u, copies, forgotten)
  BY <1>2, <1>7, <1>8, HistoryTrimmed
<1>10. /\ Given(u) = Given(db) /\ u.rows = (db.rows \ K) \ {o}
       /\ Artifacts(u) \subseteq Artifacts(v) /\ Artifacts(v) \subseteq Artifacts(db)
  BY <1>5, <1>7, <1>8 DEF Trims, Given
<1>11. \A k \in db.rows : o \in copies[k] => k = o \/ k \in K
  <2> SUFFICES ASSUME NEW k \in db.rows, o \in copies[k], k # o PROVE k \in K
    OBVIOUS
  <2>1. MadeFrom(db, k, o)
    BY <1>2, <1>3 DEF HistoryOK
  <2>2. db.born[o] \in Nat /\ db.born[k] \in Nat
    BY <1>2, <1>3 DEF TablesOK, TablesTyped
  <2>3. QED
    BY <1>4, <2>1, <2>2 DEF MadeFrom
<1>12. ASSUME NEW a \in Artifacts(u), NEW s \in SourcesOf[a] \cap Observation
       PROVE  s # o /\ o \notin copies[s]
  <2>1. a \in Artifacts(v) /\ a \in Artifacts(db) /\ a \in Artifact
    BY <1>10 DEF Artifacts
  <2>2. Grounded(db) /\ Grounded(v)
    BY <1>2, <1>5 DEF TablesOK
  <2>3. o \in v.rows
    BY <1>1, <1>4, <1>5
  <2>4. s # o
    <3>1. SUFFICES ASSUME s = o PROVE FALSE
      OBVIOUS
    <3>2. s \in Sources(v, a)
      BY <2>1, <2>2, <2>3, <3>1 DEF Grounded, Sources
    <3>3. QED
      BY <1>7, <3>1, <3>2
  <2>5. ASSUME o \in copies[s] PROVE FALSE
    <3>1. s \in db.rows
      BY <1>1, <1>2, <2>1, <2>5 DEF HistoryOK
    <3>2. s \in K
      BY <1>11, <2>4, <2>5, <3>1
    <3>3. s \in Sources(db, a)
      BY <2>1, <2>2, <3>1 DEF Grounded, Sources
    <3>4. QED
      BY <1>5, <2>1, <3>2, <3>3
  <2>6. QED
    BY <2>4, <2>5
<1>13. HistoryOK(u, copies, forgotten')
  <2>1. forgotten' \subseteq Given(u) /\ forgotten' \cap u.rows = {}
    BY <1>1, <1>2, <1>9, <1>10 DEF HistoryOK, TablesOK, Numbered
  <2>2. \A k \in u.rows : copies[k] \cap forgotten' = {}
    BY <1>1, <1>9, <1>10, <1>11 DEF HistoryOK
  <2>3. ASSUME NEW a \in Artifacts(u), NEW s \in SourcesOf[a] \cap Observation
        PROVE  s \notin forgotten' /\ copies[s] \cap forgotten' = {}
    BY <1>1, <1>9, <1>12 DEF HistoryOK
  <2>4. QED
    BY <1>9, <2>1, <2>2, <2>3 DEF HistoryOK
<1>14. \A p : FreshIn(db, copies, forgotten, p) => FreshIn(u, copies, forgotten', p)
  <2>1. \A p : FreshIn(db, copies, forgotten, p) => FreshIn(u, copies, forgotten, p)
    BY <1>2, <1>7, <1>8, HistoryTrimmed
  <2>2. \A p : FreshIn(db, copies, forgotten, p) => p # o
    BY <1>1 DEF FreshIn
  <2>3. QED
    BY <1>1, <2>1, <2>2 DEF FreshIn
<1>15. WaitOK(u, copies', forgotten', Outside) /\ ~Pending(Outside)
  BY OutsideWaits
<1>16. HistoryOK(u, copies', forgotten') /\ \A p : FreshIn(db, copies, forgotten, p) => FreshIn(u, copies', forgotten', p)
  BY <1>1, <1>13, <1>14
<1>17. MemInv' /\ db' = u
  BY <1>1, <1>7, <1>15, <1>16, Committed
<1>18. QED
  BY <1>8, <1>17, TrimsMoves

\* Everything goes at once.
LEMMA ClearStep ==
    ASSUME MemInv, NEW c \in Caller, Clear(c)
    PROVE  MemInv' /\ Moves(db, db', now, {}, {})
<1> DEFINE u == [db EXCEPT !.rows = {}, !.art = [a \in Artifact |-> NoRow], !.rel = {}]
<1>1. /\ window[c].op = "outside" /\ db' = u /\ index' = None
      /\ forgotten' = forgotten \cup db.rows /\ UNCHANGED <<now, copies>>
      /\ window' = [d \in Caller |->
                      [window[d] EXCEPT !.fresh = window[d].fresh /\ Unchanged(window[d], db, u)]]
  BY DEF Clear, InCall
<1>2. TablesOK(db) /\ HistoryOK(db, copies, forgotten) /\ Waiting(db, copies, forgotten, window) /\ now \in Nat
  BY DEF MemInv
<1>3. /\ u.born = db.born /\ u.rows = {} /\ u.meta = db.meta /\ u.links = db.links
      /\ u.art = [a \in Artifact |-> NoRow] /\ u.rel = {}
      /\ TablesTyped(u)
  BY <1>2 DEF TablesOK, TablesTyped
<1> HIDE DEF u
<1>4. Artifacts(u) = {} /\ Given(u) = Given(db)
  BY <1>3 DEF Artifacts, Given
<1>5. TablesOK(u)
  BY <1>2, <1>3, <1>4 DEF TablesOK, Numbered, Grounded, Accepted, Versioned, Joined
<1>6. \A k, p : MadeFrom(db, k, p) => MadeFrom(u, k, p)
  BY <1>3, <1>4 DEF MadeFrom
<1>7. HistoryOK(u, copies', forgotten')
  BY <1>1, <1>2, <1>3, <1>4, <1>6 DEF HistoryOK, TablesOK, Numbered
<1>8. \A p : FreshIn(db, copies, forgotten, p) => FreshIn(u, copies', forgotten', p)
  BY <1>1, <1>3, <1>4 DEF FreshIn
<1>9. \A d \in Caller : LeftAt(window[d], window'[d], db, u)
  <2> SUFFICES ASSUME NEW d \in Caller PROVE LeftAt(window[d], window'[d], db, u)
    OBVIOUS
  <2> DEFINE still == window[d].fresh /\ Unchanged(window[d], db, u)
  <2>1. window'[d] = [window[d] EXCEPT !.fresh = still]
    BY <1>1
  <2>2. window[d] = [op |-> window[d].op, about |-> window[d].about, seen |-> window[d].seen, fresh |-> window[d].fresh]
    BY <1>2 DEF Waiting, WaitOK
  <2>3. window'[d].fresh = still
    <3> HIDE DEF still
    <3>1. QED
      BY <2>1, <2>2
  <2>4. QED
    BY <2>1, <2>3 DEF LeftAt
<1>10. WaitOK(u, copies', forgotten', window'[c]) /\ ~Pending(window'[c])
  <2>1. WaitOK(db, copies, forgotten, window[c]) /\ ~Pending(window[c]) /\ LeftAt(window[c], window'[c], db, u)
    BY <1>1, <1>2, <1>9 DEF Waiting, Pending
  <2>2. WaitOK(u, copies', forgotten', window'[c]) /\ window'[c].op = window[c].op
    BY <2>1, CallWaits
  <2>3. QED
    BY <2>1, <2>2 DEF Pending
<1>11. \A p : /\ FreshIn(db, copies, forgotten, p)
              /\ Pending(window[c]) => p # window[c].about
              => FreshIn(u, copies', forgotten', p)
  BY <1>8
<1>12. Waiting(u, copies', forgotten', window')
  BY <1>2, <1>9, <1>10, <1>11, StillWaiting
<1>13. window' = [d \in Caller |-> window'[d]]
  BY <1>1
<1>14. MemInv'
  BY <1>1, <1>2, <1>5, <1>7, <1>12, <1>13 DEF MemInv, IndexOK
<1>15. Moves(db, u, now, {}, {})
  BY <1>3, <1>4 DEF Moves, Unsettled
<1>16. QED
  BY <1>1, <1>14, <1>15

\* The row to be is built, under an id that was not given yet.
LEMMA BuildStep ==
    ASSUME MemInv, NEW c \in Caller, NEW o \in Observation, o \notin Given(db), InCall(c, "outside"),
           NEW op \in {"record", "capture"}, NEW S,
           op = "record" => EventOf[o] \notin {"session_capsule", "repository_change"},
           op = "capture" => EventOf[o] = "repository_change",
           Commit(c, Stamp(db, o), Enter(c, op, o, S), FALSE),
           UNCHANGED <<now, copies, forgotten>>
    PROVE  /\ MemInv' /\ Moves(db, db', now, {o}, {}) /\ window'[c] = Enter(c, op, o, S)
           /\ db' = Stamp(db, o)
<1> DEFINE u == Stamp(db, o)
           w == Enter(c, op, o, S)
<1>1. TablesOK(db) /\ HistoryOK(db, copies, forgotten) /\ now \in Nat /\ ~Pending(window[c])
  BY DEF MemInv, Pending, InCall
<1>2. TablesOK(u) /\ Given(u) = Given(db) \cup {o} /\ u = [db EXCEPT !.born = u.born]
  BY <1>1, StampKeeps
<1>3. /\ HistoryOK(u, copies, forgotten)
      /\ FreshIn(u, copies, forgotten, o)
      /\ \A p : FreshIn(db, copies, forgotten, p) => FreshIn(u, copies, forgotten, p)
  BY <1>1, HistoryStamped
<1>4. Commit(c, u, w, FALSE)
  OBVIOUS
<1>5. w.op = op /\ w.about = o /\ w = [op |-> w.op, about |-> w.about, seen |-> w.seen, fresh |-> w.fresh]
  BY DEF Enter
<1> HIDE DEF u, w
<1>6. WaitOK(u, copies', forgotten', w)
  BY <1>3, <1>5 DEF WaitOK, Pending
<1>7. Pending(w) => w.about \notin Given(db)
  BY <1>5
<1>8. \A p : FreshIn(db, copies, forgotten, p) => FreshIn(u, copies', forgotten', p)
  BY <1>3
<1>9. HistoryOK(u, copies', forgotten')
  BY <1>3
<1>10. MemInv' /\ db' = u /\ window'[c] = w
  BY <1>2, <1>4, <1>6, <1>7, <1>8, <1>9, Committed
<1>11. u.rows = db.rows /\ u.art = db.art /\ u.rel = db.rel
  BY <1>1, <1>2 DEF TablesOK, TablesTyped
<1>12. Artifacts(u) = Artifacts(db)
  BY <1>11 DEF Artifacts
<1>13. Unsettled(db, u, now)
  BY <1>1, <1>12, KeptMoves DEF TablesOK
<1>14. Moves(db, u, now, {o}, {})
  BY <1>2, <1>11, <1>12, <1>13 DEF Moves
<1>15. QED
  BY <1>10, <1>14 DEF u, w

\* BuildRecord keeps the invariant: its id is new.
LEMMA BuildRecordStep ==
    ASSUME MemInv, NEW c \in Caller, NEW o \in Observation, BuildRecord(c, o)
    PROVE  /\ MemInv' /\ Moves(db, db', now, {o}, {}) /\ window'[c] = Enter(c, "record", o, {})
           /\ EventOf[o] \notin {"session_capsule", "repository_change"}
           /\ db' = Stamp(db, o) /\ o \notin Given(db)
<1>1. /\ InCall(c, "outside") /\ o \notin Given(db)
      /\ EventOf[o] \notin {"session_capsule", "repository_change"}
      /\ Commit(c, Stamp(db, o), Enter(c, "record", o, {}), FALSE)
      /\ UNCHANGED <<now, copies, forgotten>>
  BY DEF BuildRecord, NewId
<1>2. QED
  BY <1>1, BuildStep

\* So does ReadTree.
LEMMA ReadTreeStep ==
    ASSUME MemInv, NEW c \in Caller, NEW o \in Observation, ReadTree(c, o)
    PROVE  /\ MemInv' /\ Moves(db, db', now, {o}, {})
           /\ EventOf[o] = "repository_change"
           /\ db' = Stamp(db, o) /\ o \notin Given(db)
<1>1. /\ InCall(c, "outside") /\ o \notin Given(db)
      /\ EventOf[o] = "repository_change"
      /\ Commit(c, Stamp(db, o), Enter(c, "capture", o, {tree}), FALSE)
      /\ UNCHANGED <<now, copies, forgotten>>
  BY DEF ReadTree, NewId
<1>2. QED
  BY <1>1, BuildStep

\* A row is inserted and the tables are pruned, in a transaction that may also
\* have made the row.
LEMMA InsertStep ==
    ASSUME MemInv, NEW c \in Caller, NEW t, NEW o, NEW C \in SUBSET Observation,
           TablesOK(t), HistoryOK(t, copies, forgotten), FreshIn(t, copies, forgotten, o),
           \A p : /\ FreshIn(db, copies, forgotten, p)
                  /\ Pending(window[c]) => p # window[c].about
                  => FreshIn(t, copies, forgotten, p) /\ p # o /\ p \notin C,
           t.art = db.art, t.rel = db.rel, t.rows = db.rows,
           NEW G, Given(t) \subseteq Given(db) \cup G,
           \A p \in C : MadeFrom(t, o, p), C \cap forgotten = {},
           Commit(c, InsertPruned(t, o), Outside, FALSE),
           copies' = [copies EXCEPT ![o] = C], UNCHANGED <<now, forgotten>>
    PROVE  MemInv' /\ Moves(db, db', now, G, {o})
<1> DEFINE u == InsertPruned(t, o)
           c2 == [copies EXCEPT ![o] = C]
<1>1. now \in Nat
  BY DEF MemInv
<1>2. /\ TablesOK(u)
      /\ HistoryOK(u, c2, forgotten)
      /\ \A p : FreshIn(t, copies, forgotten, p) /\ p # o /\ p \notin C => FreshIn(u, c2, forgotten, p)
      /\ Moves(t, u, now, {}, {o})
  BY <1>1, PrunedRow DEF InsertPruned
<1>3. Commit(c, u, Outside, FALSE) /\ copies' = c2
  OBVIOUS
<1> HIDE DEF u, c2
<1>4. HistoryOK(u, copies', forgotten')
  BY <1>2, <1>3
<1>5. \A p : /\ FreshIn(db, copies, forgotten, p)
             /\ Pending(window[c]) => p # window[c].about
             => FreshIn(u, copies', forgotten', p)
  BY <1>2, <1>3
<1>6. WaitOK(u, copies', forgotten', Outside) /\ ~Pending(Outside)
  BY OutsideWaits
<1>7. MemInv' /\ db' = u
  BY <1>2, <1>3, <1>4, <1>5, <1>6, Committed
<1>8. Artifacts(t) = Artifacts(db)
  BY DEF Artifacts
<1>9. Moves(db, u, now, G, {o})
  BY <1>2, <1>8 DEF Moves, Unsettled
<1>10. QED
  BY <1>7, <1>9

\* The row a call built is inserted: it repeats no other, or itself only.
LEMMA OwnInsert ==
    ASSUME MemInv, NEW c \in Caller, Pending(window[c]), NEW C \in SUBSET {window[c].about},
           C # {} => ~Marker(window[c].about),
           Commit(c, InsertPruned(db, window[c].about), Outside, FALSE),
           copies' = [copies EXCEPT ![window[c].about] = C], UNCHANGED <<now, forgotten>>
    PROVE  MemInv' /\ Moves(db, db', now, {}, {window[c].about})
<1> DEFINE o == window[c].about
<1>1. TablesOK(db) /\ HistoryOK(db, copies, forgotten) /\ FreshIn(db, copies, forgotten, o)
  BY OwnRow DEF MemInv
<1>2. o \in Observation /\ o \in Given(db) /\ o \notin forgotten
  BY <1>1 DEF FreshIn, Given
<1>3. C \in SUBSET Observation /\ \A p \in C : p = o
  BY <1>2
<1>4. \A p \in C : MadeFrom(db, o, p)
  BY <1>2, <1>3 DEF MadeFrom
<1>5. C \cap forgotten = {}
  BY <1>2, <1>3
<1>6. \A p : /\ FreshIn(db, copies, forgotten, p)
             /\ Pending(window[c]) => p # window[c].about
             => FreshIn(db, copies, forgotten, p) /\ p # o /\ p \notin C
  BY <1>3
<1>7. Commit(c, InsertPruned(db, o), Outside, FALSE) /\ copies' = [copies EXCEPT ![o] = C]
  OBVIOUS
<1>8. Given(db) \subseteq Given(db) \cup {}
  OBVIOUS
<1> HIDE DEF o
<1>9. MemInv' /\ Moves(db, db', now, {}, {o})
  BY <1>1, <1>3, <1>4, <1>5, <1>6, <1>7, <1>8, InsertStep
<1>10. QED
  BY <1>9 DEF o

\* The same for a row that repeats nothing.
LEMMA PlainInsert ==
    ASSUME MemInv, NEW c \in Caller, Pending(window[c]),
           Commit(c, InsertPruned(db, window[c].about), Outside, FALSE),
           UNCHANGED <<now, copies, forgotten>>
    PROVE  MemInv' /\ Moves(db, db', now, {}, {window[c].about})
<1>1. FreshIn(db, copies, forgotten, window[c].about) /\ HistoryOK(db, copies, forgotten)
  BY OwnRow DEF MemInv
<1>2. copies = [copies EXCEPT ![window[c].about] = {}]
  BY <1>1 DEF FreshIn, Given, HistoryOK
<1>3. copies' = [copies EXCEPT ![window[c].about] = {}]
  BY <1>2
<1>4. {} \in SUBSET {window[c].about} /\ ({} # {} => ~Marker(window[c].about))
  OBVIOUS
<1>5. QED
  BY <1>3, <1>4, OwnInsert

\* The row a call built is given up.
LEMMA OwnGone ==
    ASSUME MemInv, NEW c \in Caller, Pending(window[c]),
           Commit(c, Unstamp(db, window[c].about), Outside, FALSE),
           UNCHANGED <<now, copies, forgotten>>
    PROVE  MemInv' /\ Moves(db, db', now, {}, {})
<1> DEFINE o == window[c].about
           u == Unstamp(db, o)
<1>1. TablesOK(db) /\ HistoryOK(db, copies, forgotten) /\ FreshIn(db, copies, forgotten, o)
  BY OwnRow DEF MemInv
<1>2. Commit(c, u, Outside, FALSE)
  OBVIOUS
<1>3. \A p : /\ FreshIn(db, copies, forgotten, p)
             /\ Pending(window[c]) => p # window[c].about
             => FreshIn(db, copies, forgotten, p) /\ p # o
  OBVIOUS
<1> HIDE DEF o
<1>4. /\ TablesOK(u) /\ HistoryOK(u, copies, forgotten)
      /\ \A p : FreshIn(db, copies, forgotten, p) /\ p # o => FreshIn(u, copies, forgotten, p)
      /\ u = [db EXCEPT !.born = u.born]
  BY <1>1, HistoryUnstamped
<1>5. Given(u) \subseteq Given(db)
  BY <1>1, UnstampKeeps DEF FreshIn, Given
<1> HIDE DEF u
<1>6. /\ HistoryOK(u, copies', forgotten')
      /\ \A p : /\ FreshIn(db, copies, forgotten, p)
                /\ Pending(window[c]) => p # window[c].about
                => FreshIn(u, copies', forgotten', p)
  BY <1>3, <1>4
<1>7. WaitOK(u, copies', forgotten', Outside) /\ ~Pending(Outside)
  BY OutsideWaits
<1>8. MemInv' /\ db' = u
  BY <1>2, <1>4, <1>6, <1>7, Committed
<1>9. u.art = db.art /\ u.rel = db.rel /\ u.rows = db.rows
  BY <1>1, <1>4 DEF TablesOK, TablesTyped
<1>10. Artifacts(u) = Artifacts(db)
  BY <1>9 DEF Artifacts
<1>11. Unsettled(db, u, now)
  BY <1>1, <1>10, KeptMoves DEF TablesOK
<1>12. Moves(db, u, now, {}, {})
  BY <1>5, <1>9, <1>11 DEF Moves
<1>13. QED
  BY <1>8, <1>12

\* InsertObservation keeps the invariant.
LEMMA InsertObservationStep ==
    ASSUME MemInv, NEW c \in Caller, InsertObservation(c)
    PROVE  /\ MemInv' /\ Moves(db, db', now, {}, {window[c].about})
           /\ EventOf[window[c].about] \notin {"session_capsule", "repository_change"}
<1>1. /\ window[c].op = "record" /\ Pending(window[c])
      /\ Commit(c, InsertPruned(db, window[c].about), Outside, FALSE)
      /\ UNCHANGED <<now, copies, forgotten>>
  BY DEF InsertObservation, Inserting, InCall, Pending
<1>2. QED
  BY <1>1, PlainInsert DEF MemInv, Waiting, WaitOK

\* InsertUnique keeps the invariant, where the key is there and where it is not.
LEMMA InsertUniqueStep ==
    ASSUME MemInv, NEW c \in Caller, InsertUnique(c)
    PROVE  /\ MemInv' /\ Moves(db, db', now, {}, {window[c].about})
           /\ EventOf[window[c].about] \notin {"session_capsule", "repository_change"}
<1>1. /\ window[c].op = "record" /\ Pending(window[c])
      /\ UNCHANGED <<now, copies, forgotten>>
  BY DEF InsertUnique, Inserting, InCall, Pending
<1>2. EventOf[window[c].about] \notin {"session_capsule", "repository_change"}
  BY <1>1 DEF MemInv, Waiting, WaitOK
<1>3. CASE AlreadyThere(db, window[c].about)
  <2>1. Commit(c, Unstamp(db, window[c].about), Outside, FALSE)
    BY <1>3 DEF InsertUnique
  <2>2. MemInv' /\ Moves(db, db', now, {}, {})
    BY <1>1, <2>1, OwnGone
  <2>3. QED
    BY <1>2, <2>2 DEF Moves
<1>4. CASE ~AlreadyThere(db, window[c].about)
  <2>1. Commit(c, InsertPruned(db, window[c].about), Outside, FALSE)
    BY <1>4 DEF InsertUnique
  <2>2. QED
    BY <1>1, <1>2, <2>1, PlainInsert
<1>5. QED
  BY <1>3, <1>4

\* UpsertSnapshot keeps the invariant.
LEMMA UpsertStep ==
    ASSUME MemInv, NEW c \in Caller, UpsertSnapshot(c)
    PROVE  MemInv' /\ Moves(db, db', now, {}, {window[c].about})
<1> DEFINE read == CHOOSE t \in window[c].seen : TRUE
           o == window[c].about
<1>1. /\ window[c].op = "capture" /\ Pending(window[c]) /\ snapshot' = read
      /\ Commit(c, IF Recorded(read) THEN InsertPruned(db, o) ELSE Unstamp(db, o), Outside, FALSE)
      /\ copies' = IF Recorded(read) THEN [copies EXCEPT ![o] = {o}] ELSE copies
      /\ UNCHANGED <<now, forgotten>>
  BY DEF UpsertSnapshot, InCall, Pending
<1>2. ~Marker(o)
  <2>1. EventOf[o] = "repository_change"
    BY <1>1 DEF MemInv, Waiting, WaitOK
  <2>2. QED
    BY <2>1 DEF Marker
<1> HIDE DEF read
<1>3. CASE Recorded(read)
  <2>1. /\ Commit(c, InsertPruned(db, window[c].about), Outside, FALSE)
        /\ copies' = [copies EXCEPT ![window[c].about] = {window[c].about}]
        /\ UNCHANGED <<now, forgotten>>
    BY <1>1, <1>3
  <2>2. {window[c].about} \in SUBSET {window[c].about} /\ ({window[c].about} # {} => ~Marker(window[c].about))
    BY <1>2
  <2>3. MemInv' /\ Moves(db, db', now, {}, {window[c].about})
    BY <1>1, <2>1, <2>2, OwnInsert
  <2>4. QED
    BY <2>3
<1>4. CASE ~Recorded(read)
  <2>1. /\ Commit(c, Unstamp(db, window[c].about), Outside, FALSE)
        /\ UNCHANGED <<now, copies, forgotten>>
    BY <1>1, <1>4
  <2>2. MemInv' /\ Moves(db, db', now, {}, {})
    BY <1>1, <2>1, OwnGone
  <2>3. QED
    BY <2>2 DEF Moves
<1>5. QED
  BY <1>3, <1>4

\* UpdateStatus keeps the invariant.
LEMMA StatusStep ==
    ASSUME MemInv, NEW c \in Caller, NEW o \in Observation, NEW s \in {"active", "resolved"},
           UpdateStatus(c, o, s)
    PROVE  MemInv' /\ Moves(db, db', now, {}, {})
<1>1. /\ ~Pending(window[c]) /\ UNCHANGED <<now, copies, forgotten>>
  BY DEF UpdateStatus, InCall, Pending
<1>2. PICK kept \in {db.links[o], {}} :
         Commit(c, [db EXCEPT !.meta[o] = s, !.links[o] = kept], Outside, FALSE)
  BY DEF UpdateStatus
<1>3. TablesOK(db) /\ TablesTyped(db) /\ HistoryOK(db, copies, forgotten) /\ now \in Nat
  BY DEF MemInv, TablesOK
<1> DEFINE m == [db.meta EXCEPT ![o] = s]
           l == [db.links EXCEPT ![o] = kept]
           u == [db EXCEPT !.meta = m, !.links = l]
<1>4. [db EXCEPT !.meta[o] = s, !.links[o] = kept] = u
  OBVIOUS
<1>5. m \in [Observation -> Statuses] /\ l \in [Observation -> SUBSET Observation]
  BY <1>3 DEF TablesTyped, Statuses
<1> HIDE DEF m, l
<1>6. /\ TablesOK(u) /\ Artifacts(u) = Artifacts(db) /\ Given(u) = Given(db)
      /\ u.born = db.born /\ u.rows = db.rows /\ u.art = db.art /\ u.rel = db.rel
  BY <1>3, <1>5, MetaKeeps
<1>7. Commit(c, u, Outside, FALSE)
  BY <1>2, <1>4
<1> HIDE DEF u
<1>8. HistoryOK(u, copies, forgotten) /\ \A p : FreshIn(db, copies, forgotten, p) => FreshIn(u, copies, forgotten, p)
  BY <1>3, <1>6, HistorySame
<1>9. /\ HistoryOK(u, copies', forgotten')
      /\ \A p : /\ FreshIn(db, copies, forgotten, p)
                /\ Pending(window[c]) => p # window[c].about
                => FreshIn(u, copies', forgotten', p)
  BY <1>1, <1>8
<1>10. WaitOK(u, copies', forgotten', Outside) /\ ~Pending(Outside)
  BY OutsideWaits
<1>11. UNCHANGED now
  BY <1>1
<1>12. MemInv' /\ db' = u
  BY <1>6, <1>7, <1>9, <1>10, <1>11, Committed
<1>13. Unsettled(db, u, now)
  BY <1>3, <1>6, KeptMoves DEF TablesOK
<1>14. Moves(db, u, now, {}, {})
  BY <1>6, <1>13 DEF Moves
<1>15. QED
  BY <1>12, <1>14

\* To every call, tables with the same contents look unchanged.
LEMMA SameView ==
    \A w, t, u : u.meta = t.meta /\ u.rows = t.rows /\ u.art = t.art /\ u.rel = t.rel
        => Unchanged(w, t, u)
<1> SUFFICES ASSUME NEW w, NEW t, NEW u, u.meta = t.meta, u.rows = t.rows, u.art = t.art, u.rel = t.rel
             PROVE  Unchanged(w, t, u)
  OBVIOUS
<1>1. Corpus(t) = Corpus(u)
  BY DEF Corpus
<1>2. ReviewState(t) = ReviewState(u)
  BY DEF ReviewState, Sources, Artifacts
<1>3. QED
  BY <1>1, <1>2 DEF Unchanged

\* The tables stay as every call saw them.
LEMMA WindowStep ==
    ASSUME MemInv, NEW c \in Caller, NEW w, window' = [window EXCEPT ![c] = w],
           UNCHANGED <<now, copies, forgotten>>,
           db'.meta = db.meta, db'.rows = db.rows, db'.art = db.art, db'.rel = db.rel,
           TablesOK(db'), HistoryOK(db', copies, forgotten), Given(db') \subseteq Given(db),
           \A o : /\ FreshIn(db, copies, forgotten, o)
                  /\ Pending(window[c]) => o # window[c].about
                  => FreshIn(db', copies, forgotten, o),
           WaitOK(db', copies, forgotten, w), ~Pending(w), IndexOK(index', db')
    PROVE  MemInv' /\ Moves(db, db', now, {}, {})
<1>1. window' = [d \in Caller |-> window'[d]] /\ window'[c] = w
  BY DEF MemInv
<1>2. \A d \in Caller \ {c} : LeftAt(window[d], window'[d], db, db')
  <2> SUFFICES ASSUME NEW d \in Caller \ {c} PROVE LeftAt(window[d], window'[d], db, db')
    OBVIOUS
  <2>1. window'[d] = window[d]
    BY DEF MemInv
  <2>2. window[d] = [op |-> window[d].op, about |-> window[d].about, seen |-> window[d].seen, fresh |-> window[d].fresh]
    BY DEF MemInv, Waiting, WaitOK
  <2>3. Unchanged(window[d], db, db')
    BY SameView
  <2>4. window[d] = [window[d] EXCEPT !.fresh = window[d].fresh]
    BY <2>2
  <2>5. QED
    BY <2>1, <2>3, <2>4 DEF LeftAt
<1>3. \A o : /\ FreshIn(db, copies, forgotten, o)
             /\ Pending(window[c]) => o # window[c].about
             => FreshIn(db', copies', forgotten', o)
  OBVIOUS
<1>4. WaitOK(db', copies', forgotten', window'[c]) /\ ~Pending(window'[c])
  BY <1>1
<1>5. Waiting(db, copies, forgotten, window)
  BY DEF MemInv
<1>6. Waiting(db', copies', forgotten', window')
  BY <1>2, <1>3, <1>4, <1>5, StillWaiting
<1>7. MemInv'
  BY <1>1, <1>6 DEF MemInv
<1>8. Artifacts(db') = Artifacts(db)
  BY DEF Artifacts
<1>9. Unsettled(db, db', now)
  BY <1>8, KeptMoves DEF MemInv, TablesOK
<1>10. Moves(db, db', now, {}, {})
  BY <1>9 DEF Moves
<1>11. QED
  BY <1>7, <1>10

\* Nothing but a call and the index changes.
LEMMA CallStep ==
    ASSUME MemInv, NEW c \in Caller, NEW w, window' = [window EXCEPT ![c] = w],
           UNCHANGED <<db, now, copies, forgotten>>,
           WaitOK(db, copies, forgotten, w), ~Pending(w), IndexOK(index', db)
    PROVE  MemInv' /\ Moves(db, db', now, {}, {})
<1>1. /\ db'.meta = db.meta /\ db'.rows = db.rows /\ db'.art = db.art /\ db'.rel = db.rel
      /\ TablesOK(db') /\ HistoryOK(db', copies, forgotten) /\ Given(db') \subseteq Given(db)
      /\ WaitOK(db', copies, forgotten, w) /\ IndexOK(index', db')
  BY DEF MemInv
<1>2. \A o : /\ FreshIn(db, copies, forgotten, o)
             /\ Pending(window[c]) => o # window[c].about
             => FreshIn(db', copies, forgotten, o)
  OBVIOUS
<1>3. UNCHANGED <<now, copies, forgotten>>
  OBVIOUS
<1>4. QED
  BY <1>1, <1>2, <1>3, WindowStep

\* ReadSession keeps the invariant: what it reads are rows of the session.
LEMMA ReadSessionStep ==
    ASSUME MemInv, NEW c \in Caller, NEW s, ReadSession(c, s)
    PROVE  MemInv' /\ Moves(db, db', now, {}, {})
<1> DEFINE seen == {o \in SessionRows(s) : Eligible(db, o)}
           w == Enter(c, "capsule", s, seen)
<1>1. /\ window' = [window EXCEPT ![c] = w]
      /\ UNCHANGED <<db, now, copies, forgotten>> /\ index' = index
  BY DEF ReadSession
<1>2. /\ w.op = "capsule" /\ w.about = s /\ w.seen = seen
      /\ w = [op |-> w.op, about |-> w.about, seen |-> w.seen, fresh |-> w.fresh]
  BY DEF Enter
<1> HIDE DEF w
<1>3. \A o \in seen : o \in Observation /\ SessionOf[o] = s /\ EventOf[o] \in SessionEvents
  BY DEF MemInv, TablesOK, TablesTyped, SessionRows
<1> HIDE DEF seen
<1>4. WaitOK(db, copies, forgotten, w) /\ ~Pending(w)
  BY <1>2, <1>3 DEF WaitOK, Pending
<1>5. IndexOK(index', db)
  BY <1>1 DEF MemInv
<1>6. QED
  BY <1>1, <1>4, <1>5, CallStep

\* AbandonCapsule keeps the invariant.
LEMMA AbandonStep ==
    ASSUME MemInv, NEW c \in Caller, window' = [window EXCEPT ![c] = Outside],
           UNCHANGED <<db, index, now, copies, forgotten>>
    PROVE  MemInv' /\ Moves(db, db', now, {}, {})
<1>1. WaitOK(db, copies, forgotten, Outside) /\ ~Pending(Outside)
  BY OutsideWaits
<1>2. IndexOK(index', db) /\ UNCHANGED <<db, now, copies, forgotten>>
  BY DEF MemInv
<1>3. QED
  BY <1>1, <1>2, CallStep

\* ReadCorpus keeps the invariant: it reads no marker.
LEMMA ReadCorpusStep ==
    ASSUME MemInv, NEW c \in Caller, ReadCorpus(c)
    PROVE  MemInv' /\ Moves(db, db', now, {}, {})
<1> DEFINE w == Enter(c, "reindex", None, {o \in db.rows : Eligible(db, o)})
<1>1. /\ window' = [window EXCEPT ![c] = w]
      /\ UNCHANGED <<db, now, copies, forgotten>> /\ index' = index
  BY DEF ReadCorpus
<1>2. WaitOK(db, copies, forgotten, w) /\ ~Pending(w)
  BY DEF WaitOK, Pending, Enter, Eligible
<1>3. IndexOK(index', db)
  BY <1>1 DEF MemInv
<1> HIDE DEF w
<1>4. QED
  BY <1>1, <1>2, <1>3, CallStep

\* ReplaceIndex keeps the invariant: only the rows that are there get in.
LEMMA ReplaceIndexStep ==
    ASSUME MemInv, NEW c \in Caller, ReplaceIndex(c)
    PROVE  MemInv' /\ Moves(db, db', now, {}, {})
<1>1. /\ window' = [window EXCEPT ![c] = Outside]
      /\ UNCHANGED <<db, now, copies, forgotten>>
      /\ index' = IF window[c].fresh THEN [ids |-> window[c].seen, fresh |-> TRUE] ELSE index
      /\ window[c].op = "reindex"
  BY DEF ReplaceIndex, CorpusSame, InCall
<1>2. WaitOK(db, copies, forgotten, Outside) /\ ~Pending(Outside)
  BY OutsideWaits
<1>3. WaitOK(db, copies, forgotten, window[c]) /\ IndexOK(index, db)
  BY DEF MemInv, Waiting
<1>4. window[c].fresh => window[c].seen \subseteq db.rows
  BY <1>1, <1>3 DEF WaitOK
<1>5. IndexOK(index', db)
  BY <1>1, <1>3, <1>4 DEF IndexOK
<1>6. QED
  BY <1>1, <1>2, <1>5, CallStep

\* Die keeps the invariant: an id that was built goes with its call.
LEMMA DieStep ==
    ASSUME MemInv, NEW c \in Caller, Die(c)
    PROVE  MemInv' /\ Moves(db, db', now, {}, {})
<1>1. CASE ~Pending(window[c])
  BY <1>1, AbandonStep DEF Die, Pending
<1>2. CASE Pending(window[c])
  <2> DEFINE o == window[c].about
             u == Unstamp(db, o)
  <2>1. /\ db' = u /\ window' = [window EXCEPT ![c] = Outside]
        /\ UNCHANGED <<now, copies, forgotten>> /\ index' = index
    BY <1>2 DEF Die, Pending
  <2>2. TablesOK(db) /\ HistoryOK(db, copies, forgotten) /\ FreshIn(db, copies, forgotten, o)
    BY <1>2, OwnRow DEF MemInv
  <2>3. \A p : /\ FreshIn(db, copies, forgotten, p)
               /\ Pending(window[c]) => p # window[c].about
               => FreshIn(db, copies, forgotten, p) /\ p # o
    BY <1>2
  <2> HIDE DEF o
  <2>4. /\ TablesOK(u) /\ HistoryOK(u, copies, forgotten)
        /\ \A p : FreshIn(db, copies, forgotten, p) /\ p # o => FreshIn(u, copies, forgotten, p)
        /\ u = [db EXCEPT !.born = u.born]
    BY <2>2, HistoryUnstamped
  <2>5. Given(u) \subseteq Given(db)
    BY <2>2, UnstampKeeps DEF FreshIn, Given
  <2> HIDE DEF u
  <2>6. u.meta = db.meta /\ u.art = db.art /\ u.rel = db.rel /\ u.rows = db.rows
    BY <2>2, <2>4 DEF TablesOK, TablesTyped
  <2>7. WaitOK(db', copies, forgotten, Outside) /\ ~Pending(Outside)
    BY OutsideWaits
  <2>8. IndexOK(index', db')
    BY <2>1, <2>6 DEF MemInv, IndexOK
  <2>9. \A p : /\ FreshIn(db, copies, forgotten, p)
               /\ Pending(window[c]) => p # window[c].about
               => FreshIn(db', copies, forgotten, p)
    BY <2>1, <2>3, <2>4
  <2>10. /\ TablesOK(db') /\ HistoryOK(db', copies, forgotten) /\ Given(db') \subseteq Given(db)
         /\ db'.meta = db.meta /\ db'.rows = db.rows /\ db'.art = db.art /\ db'.rel = db.rel
    BY <2>1, <2>4, <2>5, <2>6
  <2>11. QED
    BY <2>1, <2>7, <2>8, <2>9, <2>10, WindowStep
<1>3. QED
  BY <1>1, <1>2

\* An insert that prunes gives no id.
LEMMA PrunedGiven ==
    ASSUME NEW t, TablesOK(t), NEW o \in Given(t), \A a \in Artifacts(t) : o \notin SourcesOf[a],
           NEW n \in Nat
    PROVE  Given(Prune(Insert(t, o), n)) = Given(t)
<1> DEFINE v == Insert(t, o)
<1>1. TablesOK(v) /\ v = [t EXCEPT !.rows = t.rows \cup {o}]
  BY InsertKeeps
<1>2. v.born = t.born
  BY <1>1 DEF TablesOK, TablesTyped
<1> HIDE DEF v
<1>3. Trims(v, Prune(v, n), n)
  BY <1>1, PruneKeeps
<1>4. Prune(v, n).born = t.born
  BY <1>2, <1>3 DEF Trims
<1>5. QED
  BY <1>4 DEF Given, v

\* A transaction of c leaves the calls of the others where they are.
LEMMA CommitOthers ==
    ASSUME MemInv, NEW c \in Caller, NEW u, NEW w, NEW receipt, Commit(c, u, w, receipt)
    PROVE  /\ db' = u /\ window'[c] = w
           /\ \A d \in Caller \ {c} : window'[d].op = window[d].op /\ window'[d].about = window[d].about
<1>1. db' = u /\ window'[c] = w
  BY DEF Commit
<1>2. ASSUME NEW d \in Caller \ {c}
      PROVE  window'[d].op = window[d].op /\ window'[d].about = window[d].about
  <2> DEFINE still == window[d].fresh /\ Unchanged(window[d], db, u) /\ ~(receipt /\ window[d].op = "review")
  <2>1. window'[d] = [window[d] EXCEPT !.fresh = still]
    BY DEF Commit
  <2>2. window[d] = [op |-> window[d].op, about |-> window[d].about, seen |-> window[d].seen, fresh |-> window[d].fresh]
    BY DEF MemInv, Waiting, WaitOK
  <2> HIDE DEF still
  <2>3. QED
    BY <2>1, <2>2
<1>3. QED
  BY <1>1, <1>2

\* RecordCapsule keeps the invariant: what it copies is there and active.
LEMMA RecordCapsuleStep ==
    ASSUME MemInv, NEW c \in Caller, NEW k \in Observation, RecordCapsule(c, k)
    PROVE  /\ MemInv' /\ Moves(db, db', now, {k}, {k})
           /\ EventOf[k] = "session_capsule"
           /\ \A o \in copies'[k] : Eligible(db, o)
           /\ Given(db) \subseteq Given(db')
           /\ window'[c] = Outside
           /\ \A d \in Caller \ {c} : window'[d].op = window[d].op /\ window'[d].about = window[d].about
<1> DEFINE seen == window[c].seen
<1>1. /\ window[c].op = "capsule" /\ \A o \in seen : Eligible(db, o)
      /\ k \notin Given(db) /\ EventOf[k] = "session_capsule" /\ SessionOf[k] = window[c].about
      /\ copies' = [copies EXCEPT ![k] = seen] /\ UNCHANGED <<now, forgotten>>
  BY DEF RecordCapsule, StillThere, InCall, NewId
<1>2. PICK links \in {seen, {}} :
         Commit(c, InsertPruned([Stamp(db, k) EXCEPT !.links[k] = links], k), Outside, FALSE)
  BY DEF RecordCapsule
<1>3. TablesOK(db) /\ HistoryOK(db, copies, forgotten) /\ now \in Nat
  BY DEF MemInv
<1>4. \A o \in seen : o \in Observation /\ SessionOf[o] = window[c].about /\ o \in db.rows /\ ~Marker(o)
  BY <1>1 DEF MemInv, Waiting, WaitOK, Eligible
<1> HIDE DEF seen
<1> DEFINE s == Stamp(db, k)
<1>5. /\ TablesOK(s) /\ Given(s) = Given(db) \cup {k}
      /\ \A p \in Given(db) : s.born[p] < s.born[k]
      /\ s = [db EXCEPT !.born = s.born]
  <2>1. \A p \in Given(db) : s.born[p] = db.born[p] /\ db.born[p] < s.born[k]
    BY <1>1, <1>3, StampKeeps
  <2>2. \A p \in Given(db) : s.born[p] < s.born[k]
    BY <2>1
  <2>3. QED
    BY <1>1, <1>3, <2>2, StampKeeps
<1>6. /\ HistoryOK(s, copies, forgotten) /\ FreshIn(s, copies, forgotten, k)
      /\ \A p : FreshIn(db, copies, forgotten, p) => FreshIn(s, copies, forgotten, p) /\ p # k
  BY <1>1, <1>3, HistoryStamped
<1>7. [Stamp(db, k) EXCEPT !.links[k] = links] = [s EXCEPT !.links[k] = links]
  OBVIOUS
<1> HIDE DEF s
<1>8. s.art = db.art /\ s.rel = db.rel /\ s.rows = db.rows
  BY <1>3, <1>5 DEF TablesOK, TablesTyped
<1>9. TablesOK(s) /\ TablesTyped(s)
  BY <1>5 DEF TablesOK
<1> DEFINE m == s.meta
           l == [s.links EXCEPT ![k] = links]
           t == [s EXCEPT !.meta = m, !.links = l]
<1>10. m \in [Observation -> Statuses] /\ l \in [Observation -> SUBSET Observation]
  BY <1>4, <1>9 DEF TablesTyped
<1>11. [s EXCEPT !.links[k] = links] = t
  BY <1>9 DEF TablesTyped
<1> HIDE DEF m, l
<1>12. /\ TablesOK(t) /\ Artifacts(t) = Artifacts(s) /\ Given(t) = Given(s)
       /\ t.born = s.born /\ t.rows = s.rows /\ t.art = s.art /\ t.rel = s.rel
  BY <1>9, <1>10, MetaKeeps
<1> HIDE DEF t
<1>13. HistoryOK(t, copies, forgotten) /\ \A p : FreshIn(s, copies, forgotten, p) => FreshIn(t, copies, forgotten, p)
  BY <1>6, <1>12, HistorySame
<1>14. FreshIn(t, copies, forgotten, k)
  BY <1>6, <1>13
<1>15. \A p : /\ FreshIn(db, copies, forgotten, p)
              /\ Pending(window[c]) => p # window[c].about
              => FreshIn(t, copies, forgotten, p) /\ p # k /\ p \notin seen
  <2>1. \A p \in seen : ~FreshIn(db, copies, forgotten, p)
    BY <1>4 DEF FreshIn
  <2>2. QED
    BY <1>6, <1>13, <2>1
<1>16. \A p \in seen : MadeFrom(t, k, p)
  <2>1. db.rows \subseteq Given(db)
    BY <1>3 DEF TablesOK, Numbered
  <2>2. QED
    BY <1>1, <1>4, <1>5, <1>12, <2>1 DEF MadeFrom
<1>17. seen \cap forgotten = {}
  BY <1>3, <1>4 DEF HistoryOK
<1>18. t.art = db.art /\ t.rel = db.rel /\ t.rows = db.rows /\ Given(t) \subseteq Given(db) \cup {k}
  BY <1>5, <1>8, <1>12
<1>19. Commit(c, InsertPruned(t, k), Outside, FALSE)
  BY <1>2, <1>7, <1>11
<1>20. seen \in SUBSET Observation
  BY <1>4
<1>21. copies' = [copies EXCEPT ![k] = seen] /\ UNCHANGED <<now, forgotten>>
  BY <1>1
<1>22. MemInv' /\ Moves(db, db', now, {k}, {k})
  BY <1>12, <1>13, <1>14, <1>15, <1>16, <1>17, <1>18, <1>19, <1>20, <1>21, InsertStep
<1>23. copies'[k] = seen
  BY <1>3, <1>21 DEF HistoryOK
<1>24. /\ db' = InsertPruned(t, k) /\ window'[c] = Outside
       /\ \A d \in Caller \ {c} : window'[d].op = window[d].op /\ window'[d].about = window[d].about
  BY <1>19, CommitOthers
<1>25. Given(db) \subseteq Given(db')
  <2>1. k \in Given(t) /\ \A a \in Artifacts(t) : k \notin SourcesOf[a]
    BY <1>14 DEF FreshIn
  <2>2. Given(InsertPruned(t, k)) = Given(t)
    BY <1>3, <1>12, <2>1, PrunedGiven DEF InsertPruned
  <2>3. QED
    BY <1>5, <1>12, <1>24, <2>2
<1>26. QED
  BY <1>1, <1>22, <1>23, <1>24, <1>25 DEF seen

\* A step that leaves the tables and the calls alone keeps the invariant.
LEMMA EditStep ==
    ASSUME MemInv, UNCHANGED <<db, index, window, now, copies, forgotten>>
    PROVE  MemInv' /\ Moves(db, db', now, {}, {})
<1>1. MemInv'
  BY DEF MemInv
<1>2. Unsettled(db, db', now)
  BY KeptMoves DEF MemInv, TablesOK
<1>3. QED
  BY <1>1, <1>2 DEF Moves

\* The invariant holds of the empty memory.
LEMMA MemInit == PassiveInit => MemInv
<1> SUFFICES ASSUME PassiveInit PROVE MemInv
  OBVIOUS
<1>1. /\ db = Empty /\ index = None /\ window = [c \in Caller |-> Outside] /\ now = 0
      /\ copies = [o \in Observation |-> {}] /\ forgotten = {}
  BY DEF PassiveInit
<1>2. /\ TablesTyped(db) /\ db.rows = {} /\ db.rel = {}
      /\ \A o \in Observation : db.born[o] = 0
      /\ db.art = [a \in Artifact |-> NoRow]
  BY <1>1 DEF Empty, TablesTyped, Statuses
<1>3. Given(db) = {} /\ Artifacts(db) = {}
  BY <1>2 DEF Given, Artifacts
<1>4. TablesOK(db)
  BY <1>2, <1>3 DEF TablesOK, Numbered, Grounded, Accepted, Versioned, Joined
<1>5. HistoryOK(db, copies, forgotten)
  BY <1>1, <1>2, <1>3 DEF HistoryOK
<1>6. WaitOK(db, copies, forgotten, Outside) /\ ~Pending(Outside)
  BY OutsideWaits
<1>7. Waiting(db, copies, forgotten, window)
  BY <1>1, <1>6 DEF Waiting
<1>8. QED
  BY <1>1, <1>4, <1>5, <1>7 DEF MemInv, IndexOK

-----------------------------------------------------------------------------
(* What every step of passive memory does. *)

\* What the action properties say of a step.
CopiesNow ==
    \A k \in Given(db') \ Given(db) :
        EventOf[k] = "session_capsule" => \A o \in copies'[k] : Eligible(db, o)

\* No relation comes, none is resolved, and no period ends.
Settled ==
    /\ db'.rel \subseteq db.rel
    /\ \A a \in Artifacts(db) \cap Artifacts(db') : db.art[a].to = db'.art[a].to
    /\ Unsettled(db, db', now)

\* A step that inserts no row tells no change.
LEMMA QuietMoves ==
    ASSUME Moves(db, db', now, {}, {}) PROVE CopiesNow /\ Settled
BY DEF Moves, CopiesNow, Settled

\* Every step of passive memory keeps the invariant, and the tables move on as they may.
LEMMA PassiveMoves ==
    ASSUME MemInv, NEW c \in Caller, PassiveStep(c)
    PROVE  MemInv' /\ CopiesNow /\ Settled
<1>1. ASSUME NEW o \in Observation, BuildRecord(c, o) PROVE MemInv' /\ CopiesNow /\ Settled
  BY <1>1, BuildRecordStep DEF Moves, CopiesNow, Settled
<1>2. ASSUME InsertObservation(c) \/ InsertUnique(c) PROVE MemInv' /\ CopiesNow /\ Settled
  BY <1>2, InsertObservationStep, InsertUniqueStep DEF Moves, CopiesNow, Settled
<1>3. ASSUME NEW s \in Session, ReadSession(c, s) PROVE MemInv' /\ CopiesNow /\ Settled
  BY <1>3, ReadSessionStep, QuietMoves
<1>4. ASSUME NEW k \in Observation, RecordCapsule(c, k) PROVE MemInv' /\ CopiesNow /\ Settled
  BY <1>4, RecordCapsuleStep DEF Moves, CopiesNow, Settled
<1>5. ASSUME AbandonCapsule(c) PROVE MemInv' /\ CopiesNow /\ Settled
  BY <1>5, AbandonStep, QuietMoves DEF AbandonCapsule
<1>6. ASSUME ReadCorpus(c) PROVE MemInv' /\ CopiesNow /\ Settled
  BY <1>6, ReadCorpusStep, QuietMoves
<1>7. ASSUME ReplaceIndex(c) PROVE MemInv' /\ CopiesNow /\ Settled
  BY <1>7, ReplaceIndexStep, QuietMoves
<1>8. ASSUME NEW s \in Session, ResetMarker(c, s) PROVE MemInv' /\ CopiesNow /\ Settled
  BY <1>8, ResetStep, QuietMoves
<1>9. ASSUME NEW o \in Observation, NEW s \in {"active", "resolved"}, UpdateStatus(c, o, s)
      PROVE  MemInv' /\ CopiesNow /\ Settled
  BY <1>9, StatusStep, QuietMoves
<1>10. ASSUME NEW o \in Observation, Forget(c, o) PROVE MemInv' /\ CopiesNow /\ Settled
  BY <1>10, ForgetStep, QuietMoves
<1>11. ASSUME Compact(c) PROVE MemInv' /\ CopiesNow /\ Settled
  BY <1>11, CompactStep, QuietMoves
<1>12. ASSUME Clear(c) PROVE MemInv' /\ CopiesNow /\ Settled
  BY <1>12, ClearStep, QuietMoves
<1>13. ASSUME Die(c) PROVE MemInv' /\ CopiesNow /\ Settled
  BY <1>13, DieStep, QuietMoves
<1>14. QED
  BY <1>1, <1>2, <1>3, <1>4, <1>5, <1>6, <1>7, <1>8, <1>9, <1>10, <1>11, <1>12, <1>13 DEF PassiveStep

(* The steps of typed memory. *)

\* A sound artifact is there, with all it stands on and no link cut.
LEMMA SoundWhole ==
    ASSUME NEW t, TablesOK(t), NEW a, NEW at, Sound(t, a, at)
    PROVE  /\ a \in Artifacts(t) /\ a \in Artifact /\ Ancestors(a) \subseteq Artifacts(t)
           /\ \A b \in Ancestors(a) : t.art[b].cut = {}
<1>1. a \in Artifacts(t)
  BY DEF Sound
<1>2. Ancestors(a) \subseteq Artifacts(t) /\ a \in Artifact
  BY <1>1, AncestorsThere, ArtifactRows DEF TablesOK
<1>3. \A b \in Ancestors(a) \cap Artifacts(t) : t.art[b].cut = {}
  BY DEF Sound
<1>4. QED
  BY <1>1, <1>2, <1>3

\* The tables with the row of one artifact written.
LEMMA RowChanged ==
    ASSUME NEW t, TablesOK(t), NEW a \in Artifact, NEW row \in ArtRow
    PROVE  LET u == [t EXCEPT !.art = [t.art EXCEPT ![a] = row]]
           IN  /\ TablesTyped(u) /\ Numbered(u) /\ Joined(u)
               /\ u.born = t.born /\ u.rows = t.rows /\ u.meta = t.meta /\ u.rel = t.rel
               /\ u.art[a] = row /\ \A b \in Artifact \ {a} : u.art[b] = t.art[b]
               /\ Artifacts(u) = Artifacts(t) \cup {a} /\ Given(u) = Given(t)
<1> DEFINE u == [t EXCEPT !.art = [t.art EXCEPT ![a] = row]]
<1>1. /\ TablesTyped(u)
      /\ u.born = t.born /\ u.rows = t.rows /\ u.meta = t.meta /\ u.rel = t.rel
      /\ u.art[a] = row /\ \A b \in Artifact \ {a} : u.art[b] = t.art[b]
  <2> DEFINE art == [t.art EXCEPT ![a] = row]
  <2>1. t.art \in [Artifact -> ArtRow \cup {NoRow}] /\ TablesTyped(t)
    BY DEF TablesOK, TablesTyped
  <2>2. art \in [Artifact -> ArtRow \cup {NoRow}] /\ art[a] = row /\ \A b \in Artifact \ {a} : art[b] = t.art[b]
    BY <2>1
  <2> HIDE DEF art
  <2>3. QED
    BY <2>1, <2>2 DEF TablesTyped, art
<1> HIDE DEF u
<1>2. Artifacts(u) = Artifacts(t) \cup {a} /\ Given(u) = Given(t)
  BY <1>1, RealRow DEF Artifacts, Given
<1>3. Numbered(u) /\ Joined(u)
  BY <1>1, <1>2 DEF TablesOK, Numbered, Joined
<1>4. QED
  BY <1>1, <1>2, <1>3 DEF u

\* A new artifact stands on what is there and whole.
LEMMA CreatedKeeps ==
    ASSUME TablesOK(db), NEW a \in Artifact, a \notin Artifacts(db), SourcesEligible(a),
           NEW s \in {"candidate", "active"}, NEW au \in Trusted \cup {"agent_proposed"},
           s = "active" => au \in Trusted
    PROVE  LET u == Created(a, s, au)
           IN  /\ TablesOK(u) /\ u.born = db.born /\ u.rows = db.rows /\ u.rel = db.rel
               /\ Artifacts(u) = Artifacts(db) \cup {a} /\ Given(u) = Given(db)
               /\ \A b \in Artifacts(db) : u.art[b] = db.art[b]
               /\ SourcesOf[a] \cap Observation \subseteq db.rows
<1> DEFINE row == [status |-> s, authority |-> au, to |-> None, cut |-> {}]
           u == [db EXCEPT !.art = [db.art EXCEPT ![a] = row]]
<1>1. row \in ArtRow /\ row.cut = {} /\ row.to = None /\ row.status = s /\ row.authority = au
  BY DEF ArtRow
<1>2. Created(a, s, au) = u
  BY DEF Created
<1> HIDE DEF row
<1>3. /\ TablesTyped(u) /\ Numbered(u) /\ Joined(u)
      /\ u.born = db.born /\ u.rows = db.rows /\ u.meta = db.meta /\ u.rel = db.rel
      /\ u.art[a] = row /\ \A b \in Artifact \ {a} : u.art[b] = db.art[b]
      /\ Artifacts(u) = Artifacts(db) \cup {a} /\ Given(u) = Given(db)
  BY <1>1, RowChanged
<1> HIDE DEF u
<1>4. Artifacts(db) \subseteq Artifact /\ Grounded(db) /\ TablesTyped(db) /\ Numbered(db) /\ Accepted(db)
  BY ArtifactRows DEF TablesOK
<1>5. \A b \in Artifacts(db) : u.art[b] = db.art[b]
  BY <1>3, <1>4
<1>6. ASSUME NEW x \in SourcesOf[a] \cap Observation PROVE x \in db.rows /\ ~Marker(x)
  BY DEF SourcesEligible, Eligible
<1>7. ASSUME NEW x \in SourcesOf[a] \cap Artifact
      PROVE  x \in Artifacts(db) /\ Ancestors(x) \subseteq Artifacts(db) /\ \A b \in Ancestors(x) : db.art[b].cut = {}
  <2>1. x \in SourcesOf[a] /\ x \notin Observation
    BY MemoryConstants
  <2>2. Sound(db, x, None)
    BY <2>1 DEF SourcesEligible
  <2>3. QED
    BY <2>2, SoundWhole
<1>8. Grounded(u)
  <2> SUFFICES ASSUME NEW b \in Artifacts(u)
               PROVE  /\ SourcesOf[b] \cap Artifact \subseteq Artifacts(u)
                      /\ u.art[b].cut \subseteq Observation
                      /\ \A x \in SourcesOf[b] \cap Observation :
                            ~Marker(x) /\ x \in Given(u) /\ (x \in u.art[b].cut <=> x \notin u.rows)
    BY DEF Grounded
  <2>1. CASE b = a
    BY <1>1, <1>3, <1>4, <1>6, <1>7, <2>1 DEF Numbered
  <2>2. CASE b \in Artifacts(db)
    BY <1>3, <1>4, <1>5, <2>2 DEF Grounded
  <2>3. QED
    BY <1>3, <2>1, <2>2
<1>9. \A b \in Ancestors(a) : u.art[b].cut = {}
  <2> DEFINE T == {b \in Artifacts(u) : u.art[b].cut = {} /\ (b = a \/ \E x \in SourcesOf[a] \cap Artifact : b \in Ancestors(x))}
  <2>1. a \in T
    BY <1>1, <1>3
  <2>2. ASSUME NEW b \in T \cap Artifact PROVE SourcesOf[b] \cap Artifact \subseteq T
    <3> SUFFICES ASSUME NEW y \in SourcesOf[b] \cap Artifact PROVE y \in T
      OBVIOUS
    <3>1. PICK x \in SourcesOf[a] \cap Artifact : y \in Ancestors(x)
      <4>1. CASE b = a
        BY <4>1, AncestorsClosed
      <4>2. CASE b # a
        <5>1. PICK x \in SourcesOf[a] \cap Artifact : b \in Ancestors(x)
          BY <4>2
        <5>2. y \in Ancestors(x)
          BY <5>1, AncestorsClosed
        <5>3. QED
          BY <5>2
      <4>3. QED
        BY <4>1, <4>2
    <3>2. y \in Artifacts(db) /\ db.art[y].cut = {}
      BY <1>7, <3>1
    <3>3. QED
      BY <1>3, <1>5, <3>1, <3>2
  <2>3. Ancestors(a) \subseteq T
    <3> HIDE DEF T
    <3>1. QED
      BY <2>1, <2>2, AncestorsClosed
  <2>4. QED
    BY <2>3
<1>10. Accepted(u)
  <2> SUFFICES ASSUME NEW b \in Artifacts(u), Active(u, b)
               PROVE  u.art[b].authority \in Trusted /\ \A d \in Ancestors(b) : u.art[d].cut = {}
    BY DEF Accepted
  <2>1. CASE b = a
    BY <1>1, <1>3, <1>9, <2>1 DEF Active
  <2>2. CASE b \in Artifacts(db)
    <3>1. Active(db, b) /\ Ancestors(b) \subseteq Artifacts(db)
      BY <1>4, <1>5, <2>2, AncestorsThere DEF Active
    <3>2. QED
      BY <1>4, <1>5, <2>2, <3>1 DEF Accepted
  <2>3. QED
    BY <1>3, <2>1, <2>2
<1>11. Versioned(u)
  BY <1>1, <1>3, <1>5 DEF TablesOK, Versioned, Joined
<1>12. TablesOK(u)
  BY <1>3, <1>8, <1>10, <1>11 DEF TablesOK
<1>13. QED
  BY <1>2, <1>3, <1>5, <1>6, <1>12

\* Create keeps the invariant: the sources of a draft are there.
LEMMA CreateStep ==
    ASSUME MemInv, NEW c \in Caller, ~Pending(window[c]), NEW a \in Artifact, a \notin Artifacts(db),
           SourcesEligible(a),
           NEW s \in {"candidate", "active"}, NEW au \in Trusted \cup {"agent_proposed"},
           s = "active" => au \in Trusted,
           NEW receipt, Commit(c, Created(a, s, au), Outside, receipt),
           UNCHANGED <<now, copies, forgotten>>
    PROVE  MemInv' /\ Moves(db, db', now, {}, {})
<1> DEFINE u == Created(a, s, au)
<1>1. TablesOK(db) /\ HistoryOK(db, copies, forgotten)
  BY DEF MemInv
<1>2. /\ TablesOK(u) /\ u.born = db.born /\ u.rows = db.rows /\ u.rel = db.rel
      /\ Artifacts(u) = Artifacts(db) \cup {a} /\ Given(u) = Given(db)
      /\ \A b \in Artifacts(db) : u.art[b] = db.art[b]
      /\ SourcesOf[a] \cap Observation \subseteq db.rows
  BY <1>1, CreatedKeeps
<1>3. Commit(c, u, Outside, receipt)
  OBVIOUS
<1> HIDE DEF u
<1>4. SourcesOf[a] \subseteq Observation \cup Artifact /\ Given(db) \cap Artifact = {}
  BY MemoryConstants DEF Given
<1>5. HistoryOK(u, copies, forgotten) /\ \A p : FreshIn(db, copies, forgotten, p) => FreshIn(u, copies, forgotten, p)
  BY <1>1, <1>2, <1>4, HistoryBuilt
<1>6. /\ HistoryOK(u, copies', forgotten')
      /\ \A p : /\ FreshIn(db, copies, forgotten, p)
                /\ Pending(window[c]) => p # window[c].about
                => FreshIn(u, copies', forgotten', p)
  BY <1>5
<1>7. WaitOK(u, copies', forgotten', Outside) /\ ~Pending(Outside)
  BY OutsideWaits
<1>8. MemInv' /\ db' = u
  BY <1>2, <1>3, <1>6, <1>7, Committed
<1>9. Unsettled(db, u, now)
  BY <1>1, <1>2, KeptMoves DEF TablesOK
<1>10. Moves(db, u, now, {}, {})
  BY <1>2, <1>9 DEF Moves
<1>11. QED
  BY <1>8, <1>10

\* A transaction that keeps the rows and the artifacts.
SameRows(t, u) == u.rows = t.rows /\ u.born = t.born /\ Artifacts(u) = Artifacts(t)

\* A transaction that keeps ids, rows and artifacts keeps the invariant.
LEMMA KeepStep ==
    ASSUME MemInv, NEW c \in Caller, ~Pending(window[c]), NEW u, NEW receipt,
           Commit(c, u, Outside, receipt), UNCHANGED <<now, copies, forgotten>>,
           TablesOK(u), SameRows(db, u)
    PROVE  /\ MemInv' /\ db' = u /\ window'[c] = Outside
           /\ Unsettled(db, u, now) /\ Given(u) = Given(db)
<1>1. TablesOK(db) /\ HistoryOK(db, copies, forgotten)
      /\ u.rows = db.rows /\ u.born = db.born /\ Artifacts(u) = Artifacts(db)
  BY DEF MemInv, SameRows
<1>2. HistoryOK(u, copies, forgotten) /\ \A p : FreshIn(db, copies, forgotten, p) => FreshIn(u, copies, forgotten, p)
  BY <1>1, HistorySame
<1>3. /\ HistoryOK(u, copies', forgotten')
      /\ \A p : /\ FreshIn(db, copies, forgotten, p)
                /\ Pending(window[c]) => p # window[c].about
                => FreshIn(u, copies', forgotten', p)
  BY <1>2
<1>4. WaitOK(u, copies', forgotten', Outside) /\ ~Pending(Outside)
  BY OutsideWaits
<1>5. MemInv' /\ db' = u /\ window'[c] = Outside
  BY <1>3, <1>4, Committed
<1>6. Unsettled(db, u, now)
  BY <1>1, KeptMoves DEF TablesOK
<1>7. Given(u) = Given(db)
  BY <1>1 DEF Given
<1>8. QED
  BY <1>5, <1>6, <1>7

\* A row with its status and its authority written.
LEMMA RowDecided ==
    ASSUME NEW x \in ArtRow, NEW s, NEW au
    PROVE  [[x EXCEPT !.status = s] EXCEPT !.authority = au]
              = [status |-> s, authority |-> au, to |-> x.to, cut |-> x.cut]
<1> DEFINE y == [x EXCEPT !.status = s]
<1>1. y = [status |-> s, authority |-> x.authority, to |-> x.to, cut |-> x.cut]
  BY DEF ArtRow
<1> HIDE DEF y
<1>2. [y EXCEPT !.authority = au] = [status |-> s, authority |-> au, to |-> x.to, cut |-> x.cut]
  BY <1>1
<1>3. QED
  BY <1>2 DEF y

\* Review keeps the invariant: what is accepted stands on what is active.
LEMMA ReviewStep ==
    ASSUME MemInv, NEW c \in Caller, NEW accepted \in BOOLEAN, Review(c, accepted)
    PROVE  MemInv' /\ Moves(db, db', now, {}, {})
<1> DEFINE a == window[c].about.a
           s == IF accepted THEN "active" ELSE "rejected"
           au == IF accepted THEN "human_accepted" ELSE "human_reviewed"
<1>1. /\ window[c].op = "review" /\ Sound(db, a, now) /\ db.art[a].status = "candidate"
      /\ Commit(c, [db EXCEPT !.art[a].status = s, !.art[a].authority = au], Outside, TRUE)
      /\ UNCHANGED <<now, copies, forgotten>>
  BY DEF Review, Bound, InCall
<1>2. /\ s \in {"active", "rejected"} /\ au \in Trusted \cup {"human_reviewed"}
      /\ s = "active" => au \in Trusted
  BY DEF Trusted
<1>3. TablesOK(db) /\ ~Pending(window[c])
  BY <1>1 DEF MemInv, Pending
<1> HIDE DEF a, s, au
<1>4. /\ a \in Artifacts(db) /\ a \in Artifact /\ Ancestors(a) \subseteq Artifacts(db)
      /\ \A b \in Ancestors(a) : db.art[b].cut = {}
  BY <1>1, <1>3, SoundWhole
<1>5. /\ db.art[a] \in ArtRow /\ Artifacts(db) \subseteq Artifact
      /\ Grounded(db) /\ Accepted(db) /\ Versioned(db) /\ TablesTyped(db) /\ Joined(db)
  BY <1>3, <1>4, ArtifactRows DEF TablesOK
<1> DEFINE row == [status |-> s, authority |-> au, to |-> db.art[a].to, cut |-> db.art[a].cut]
           u == [db EXCEPT !.art = [db.art EXCEPT ![a] = row]]
<1>6. [db EXCEPT !.art[a].status = s, !.art[a].authority = au] = u
  <2>1. [[db.art[a] EXCEPT !.status = s] EXCEPT !.authority = au] = row
    BY <1>5, RowDecided
  <2> DEFINE row1 == [db.art[a] EXCEPT !.status = s]
             art1 == [db.art EXCEPT ![a] = row1]
  <2>2. [db EXCEPT !.art[a].status = s, !.art[a].authority = au]
            = [db EXCEPT !.art = [art1 EXCEPT ![a] = [art1[a] EXCEPT !.authority = au]]]
    BY <1>4, <1>5 DEF TablesTyped
  <2>3. art1[a] = row1 /\ db.art \in [Artifact -> ArtRow \cup {NoRow}]
    BY <1>4, <1>5 DEF TablesTyped
  <2>4. [row1 EXCEPT !.authority = au] = row
    BY <2>1
  <2> HIDE DEF row1, row
  <2>5. [art1 EXCEPT ![a] = row] = [db.art EXCEPT ![a] = row]
    BY <1>4, <2>3
  <2>6. QED
    BY <2>2, <2>3, <2>4, <2>5
<1>7. /\ row \in ArtRow /\ row.status = s /\ row.authority = au
      /\ row.to = db.art[a].to /\ row.cut = db.art[a].cut
  BY <1>2, <1>5 DEF ArtRow
<1> HIDE DEF row
<1>8. /\ TablesTyped(u) /\ Numbered(u) /\ Joined(u)
      /\ u.born = db.born /\ u.rows = db.rows /\ u.meta = db.meta /\ u.rel = db.rel
      /\ u.art[a] = row /\ \A b \in Artifact \ {a} : u.art[b] = db.art[b]
      /\ Artifacts(u) = Artifacts(db) \cup {a} /\ Given(u) = Given(db)
  BY <1>3, <1>4, <1>7, RowChanged
<1>9. Commit(c, u, Outside, TRUE)
  BY <1>1, <1>6
<1> HIDE DEF u
<1>10. Artifacts(u) = Artifacts(db)
  BY <1>4, <1>8
<1>11. \A b \in Artifacts(db) : u.art[b].cut = db.art[b].cut /\ u.art[b].to = db.art[b].to
  BY <1>5, <1>7, <1>8
<1>12. Grounded(u)
  BY <1>5, <1>8, <1>10, <1>11 DEF Grounded
<1>13. Accepted(u)
  <2> SUFFICES ASSUME NEW b \in Artifacts(u), Active(u, b)
               PROVE  u.art[b].authority \in Trusted /\ \A d \in Ancestors(b) : u.art[d].cut = {}
    BY DEF Accepted
  <2>1. CASE b = a
    BY <1>2, <1>4, <1>7, <1>8, <1>11, <2>1 DEF Active
  <2>2. CASE b # a
    <3>1. b \in Artifacts(db) /\ Active(db, b) /\ u.art[b] = db.art[b] /\ Ancestors(b) \subseteq Artifacts(db)
      BY <1>5, <1>8, <1>10, <2>2, AncestorsThere DEF Active
    <3>2. QED
      BY <1>5, <1>11, <3>1 DEF Accepted
  <2>3. QED
    BY <2>1, <2>2
<1>14. Versioned(u)
  <2>1. ASSUME NEW b \in Artifacts(u), u.art[b].to # None PROVE u.art[b].status = "superseded"
    BY <1>1, <1>4, <1>5, <1>8, <1>10, <1>11, <2>1 DEF Versioned
  <2>2. QED
    BY <1>5, <1>8, <1>11, <2>1 DEF Versioned, Joined
<1>15. TablesOK(u) /\ SameRows(db, u)
  BY <1>8, <1>10, <1>12, <1>13, <1>14 DEF TablesOK, SameRows
<1>16. UNCHANGED <<now, copies, forgotten>>
  BY <1>1
<1>17. MemInv'
  BY <1>3, <1>9, <1>15, <1>16, KeepStep, Zenon
<1>18. db' = u
  BY <1>3, <1>9, <1>15, <1>16, KeepStep
<1>19. Unsettled(db, u, now)
  BY <1>3, <1>9, <1>15, <1>16, KeepStep, Zenon
<1>20. Moves(db, u, now, {}, {})
  BY <1>8, <1>10, <1>11, <1>19 DEF Moves
<1>21. QED
  BY <1>17, <1>18, <1>20

\* A preview keeps the invariant, and saw the disputes it is to show.
LEMMA PreviewStep ==
    ASSUME MemInv, NEW c \in Caller, NEW about, NEW A, Preview(c, about, A),
           about.kind = "experience" => about.a \in Artifact,
           about.kind \in {"contradicts", "supersedes"} => about.at \in Nat /\ A = {about.a, about.b}
    PROVE  MemInv' /\ Moves(db, db', now, {}, {})
<1> DEFINE seen == UNION {{r.from, r.to} : r \in Disputes(db, A)}
           w == Enter(c, "review", about, seen)
<1>1. /\ window' = [window EXCEPT ![c] = w]
      /\ UNCHANGED <<db, now, copies, forgotten>> /\ index' = index
  BY DEF Preview
<1>2. /\ w.op = "review" /\ w.about = about /\ w.seen = seen
      /\ w = [op |-> w.op, about |-> w.about, seen |-> w.seen, fresh |-> w.fresh]
  BY DEF Enter
<1> HIDE DEF w
<1>3. \A r \in db.rel : r.kind = "contradicts" /\ r.resolved = None /\ {r.from, r.to} \cap A # {}
                        => {r.from, r.to} \subseteq seen
  BY DEF Disputes, Open
<1> HIDE DEF seen
<1>4. Shown(db, w)
  BY <1>2, <1>3 DEF Shown
<1>5. WaitOK(db, copies, forgotten, w) /\ ~Pending(w)
  BY <1>2, <1>4 DEF WaitOK, Pending
<1>6. IndexOK(index', db)
  BY <1>1 DEF MemInv
<1>7. QED
  BY <1>1, <1>5, <1>6, CallStep

\* A rejected review keeps the invariant.
LEMMA RejectStep ==
    ASSUME MemInv, NEW c \in Caller, RejectRelation(c)
    PROVE  MemInv' /\ Moves(db, db', now, {}, {})
<1>1. /\ ~Pending(window[c]) /\ Commit(c, db, Outside, TRUE) /\ UNCHANGED <<now, copies, forgotten>>
  BY DEF RejectRelation, Bound, InCall, Pending
<1>2. TablesOK(db) /\ SameRows(db, db)
  BY DEF MemInv, SameRows
<1>3. MemInv'
  BY <1>1, <1>2, KeepStep, Zenon
<1>4. db' = db
  BY <1>1, <1>2, KeepStep
<1>5. Unsettled(db, db, now)
  BY <1>1, <1>2, KeepStep, Zenon
<1>6. QED
  BY <1>3, <1>4, <1>5 DEF Moves

\* ForgetArtifact keeps the invariant: what derives from it goes too.
LEMMA ForgetArtifactStep ==
    ASSUME MemInv, NEW c \in Caller, NEW a \in Artifact, ForgetArtifact(c, a)
    PROVE  MemInv' /\ Moves(db, db', now, {}, {})
<1> DEFINE u == DeleteArtifacts(db, Derived(db, {a}), now)
<1>1. ~Pending(window[c]) /\ Commit(c, u, Outside, TRUE) /\ UNCHANGED <<now, copies, forgotten>>
  BY DEF ForgetArtifact, InCall, Pending
<1>2. TablesOK(db) /\ now \in Nat /\ {a} \in SUBSET (Observation \cup Artifact)
  BY DEF MemInv
<1>3. TablesOK(u) /\ Trims(db, u, now)
  BY <1>2, DerivedGo
<1> HIDE DEF u
<1>4. QED
  BY <1>1, <1>3, QuietTrim

\* The clock keeps the invariant.
LEMMA TickStep ==
    ASSUME MemInv, Tick
    PROVE  MemInv' /\ Moves(db, db', now, {}, {})
<1>1. UNCHANGED <<db, index, window, copies, forgotten>> /\ now' = now + 1
  BY DEF Tick
<1>2. MemInv'
  BY <1>1 DEF MemInv
<1>3. Unsettled(db, db', now)
  BY <1>1, KeptMoves DEF MemInv, TablesOK
<1>4. QED
  BY <1>1, <1>2, <1>3 DEF Moves

\* What identifies a relation.
Key(r) == <<r.from, r.to, r.kind>>

\* A new relation between artifacts that are there keeps the tables sound.
LEMMA RelatedKeeps ==
    ASSUME NEW t, TablesOK(t), NEW w, {w.a, w.b} \subseteq Artifacts(t),
           w.kind \in {"contradicts", "supersedes"}, w.at \in Nat,
           w.kind = "supersedes" => t.art[w.b].to # None /\ t.art[w.b].to <= FromOf[w.a]
    PROVE  LET u == Related(t, w)
           IN  /\ TablesOK(u) /\ Artifacts(u) = Artifacts(t) /\ u.art = t.art
               /\ u.rows = t.rows /\ u.born = t.born /\ u.meta = t.meta
               /\ t.rel \subseteq u.rel
               /\ \A q \in u.rel \ t.rel : q.kind = w.kind /\ \A r \in t.rel : Key(r) # Key(q)
<1> DEFINE u == Related(t, w)
           new == [from |-> w.a, to |-> w.b, kind |-> w.kind, at |-> w.at, resolved |-> None]
<1>1. CASE \E r \in t.rel : <<r.from, r.to, r.kind>> = <<w.a, w.b, w.kind>>
  <2>1. u = t
    BY <1>1 DEF Related
  <2>2. QED
    BY <2>1
<1>2. CASE ~ \E r \in t.rel : <<r.from, r.to, r.kind>> = <<w.a, w.b, w.kind>>
  <2>1. u = [t EXCEPT !.rel = t.rel \cup {new}]
    BY <1>2 DEF Related
  <2>2. w.a \in Artifact /\ w.b \in Artifact
    BY DEF Artifacts
  <2>3. new \in RelRow /\ new.from = w.a /\ new.to = w.b /\ new.kind = w.kind
    BY <2>2 DEF RelRow
  <2> HIDE DEF new, u
  <2>4. /\ TablesTyped(u) /\ u.rel = t.rel \cup {new}
        /\ u.born = t.born /\ u.rows = t.rows /\ u.meta = t.meta /\ u.art = t.art
    BY <2>1, <2>3 DEF TablesOK, TablesTyped
  <2>5. Artifacts(u) = Artifacts(t) /\ Given(u) = Given(t)
    BY <2>4 DEF Artifacts, Given
  <2>6. \A r \in t.rel : Key(r) # Key(new)
    BY <1>2, <2>3 DEF Key
  <2>7. Joined(u)
    <3>1. \A r \in u.rel : {r.from, r.to} \subseteq Artifacts(u)
      BY <2>3, <2>4, <2>5 DEF TablesOK, Joined
    <3>2. \A r, q \in u.rel : Key(r) = Key(q) => r = q
      <4>1. \A r, q \in t.rel : Key(r) = Key(q) => r = q
        BY DEF TablesOK, Joined, Key
      <4>2. QED
        BY <2>4, <2>6, <4>1
    <3>3. QED
      BY <3>1, <3>2 DEF Joined, Key
  <2>8. Versioned(u)
    BY <2>3, <2>4, <2>5 DEF TablesOK, Versioned
  <2>9. Numbered(u) /\ Grounded(u) /\ Accepted(u)
    BY <2>4, <2>5 DEF TablesOK, Numbered, Grounded, Accepted, Active
  <2>10. TablesOK(u)
    BY <2>4, <2>7, <2>8, <2>9 DEF TablesOK
  <2>11. \A q \in u.rel \ t.rel : q.kind = w.kind /\ \A r \in t.rel : Key(r) # Key(q)
    BY <2>3, <2>4, <2>6
  <2>12. QED
    BY <2>4, <2>5, <2>10, <2>11 DEF u
<1>3. QED
  BY <1>1, <1>2

\* What a relation becomes when w is decided.
Resolved(r, w) ==
    IF r.kind = "contradicts" /\ r.resolved = None /\ {r.from, r.to} = {w.a, w.b}
    THEN [r EXCEPT !.resolved = w.at] ELSE r

\* A decision resolves a dispute of its two facts, and changes nothing else of it.
LEMMA ResolvedRow ==
    ASSUME NEW r \in RelRow, NEW w, w.at \in Nat
    PROVE  /\ Resolved(r, w) \in RelRow /\ Key(Resolved(r, w)) = Key(r)
           /\ Resolved(r, w).from = r.from /\ Resolved(r, w).to = r.to
           /\ Resolved(r, w).kind = r.kind /\ Resolved(r, w).at = r.at
           /\ \/ Resolved(r, w) = r
              \/ /\ r.kind = "contradicts" /\ r.resolved = None /\ {r.from, r.to} = {w.a, w.b}
                 /\ Resolved(r, w).resolved = w.at
BY DEF Resolved, RelRow, Key

\* A fact that was active until another takes over.
LEMMA SupersededKeeps ==
    ASSUME NEW t, TablesOK(t), NEW w, {w.a, w.b} \subseteq Artifacts(t), w.at \in Nat,
           Active(t, w.b)
    PROVE  LET u == Superseded(t, w)
           IN  /\ TablesOK(u) /\ Artifacts(u) = Artifacts(t)
               /\ u.rows = t.rows /\ u.born = t.born /\ u.meta = t.meta
               /\ u.rel = {Resolved(r, w) : r \in t.rel}
               /\ \A a \in Artifacts(t) : u.art[a].cut = t.art[a].cut /\ u.art[a].authority = t.art[a].authority
               /\ \A a \in Artifacts(t) \ {w.b} : u.art[a] = t.art[a]
               /\ t.art[w.b].to = None /\ u.art[w.b].to = w.at /\ u.art[w.b].status = "superseded"
<1> DEFINE b == w.b
           row == [status |-> "superseded", authority |-> t.art[b].authority, to |-> w.at, cut |-> t.art[b].cut]
           rel == {Resolved(r, w) : r \in t.rel}
           v == [t EXCEPT !.art = [t.art EXCEPT ![b] = row]]
           u == [v EXCEPT !.rel = rel]
<1>0. /\ b \in Artifact /\ t.art[b] \in ArtRow /\ Artifacts(t) \subseteq Artifact
      /\ Grounded(t) /\ Accepted(t) /\ Versioned(t) /\ TablesTyped(t) /\ Joined(t)
  BY ArtifactRows DEF TablesOK
<1>1. Superseded(t, w) = u
  <2>1. [[t.art[b] EXCEPT !.status = "superseded"] EXCEPT !.to = w.at] = row
    <3> DEFINE y == [t.art[b] EXCEPT !.status = "superseded"]
    <3>1. y = [status |-> "superseded", authority |-> t.art[b].authority, to |-> t.art[b].to, cut |-> t.art[b].cut]
      BY <1>0 DEF ArtRow
    <3> HIDE DEF y
    <3>2. [y EXCEPT !.to = w.at] = row
      BY <3>1
    <3>3. QED
      BY <3>2 DEF y
  <2> DEFINE row1 == [t.art[b] EXCEPT !.status = "superseded"]
             art1 == [t.art EXCEPT ![b] = row1]
             art2 == [art1 EXCEPT ![b] = [art1[b] EXCEPT !.to = w.at]]
  <2>2. Superseded(t, w) = [[t EXCEPT !.art = art2] EXCEPT !.rel = rel]
    BY <1>0 DEF Superseded, Resolved, TablesTyped
  <2>3. art1[b] = row1 /\ t.art \in [Artifact -> ArtRow \cup {NoRow}]
    BY <1>0 DEF TablesTyped
  <2>4. [row1 EXCEPT !.to = w.at] = row
    BY <2>1
  <2> HIDE DEF row1, row
  <2>5. [art1 EXCEPT ![b] = row] = [t.art EXCEPT ![b] = row]
    BY <1>0, <2>3
  <2>6. art2 = [t.art EXCEPT ![b] = row]
    BY <2>3, <2>4, <2>5
  <2>7. QED
    BY <2>2, <2>6
<1>2. /\ row \in ArtRow /\ row.status = "superseded" /\ row.authority = t.art[b].authority
      /\ row.to = w.at /\ row.cut = t.art[b].cut
  BY <1>0 DEF ArtRow
<1> HIDE DEF row
<1>3. /\ TablesTyped(v) /\ Numbered(v) /\ Joined(v)
      /\ v.born = t.born /\ v.rows = t.rows /\ v.meta = t.meta /\ v.rel = t.rel
      /\ v.art[b] = row /\ \A a \in Artifact \ {b} : v.art[a] = t.art[a]
      /\ Artifacts(v) = Artifacts(t) \cup {b} /\ Given(v) = Given(t)
  BY <1>0, <1>2, RowChanged
<1> HIDE DEF v, rel
<1>4. rel \in SUBSET RelRow
  <2>1. t.rel \in SUBSET RelRow
    BY <1>0 DEF TablesTyped
  <2>2. QED
    BY <2>1, ResolvedRow DEF rel
<1>5. TablesTyped(u) /\ u.born = v.born /\ u.rows = v.rows /\ u.meta = v.meta /\ u.art = v.art /\ u.rel = rel
  BY <1>3, <1>4 DEF TablesTyped
<1> HIDE DEF u
<1>6. Artifacts(u) = Artifacts(t) /\ Given(u) = Given(t)
  BY <1>3, <1>5 DEF Artifacts, Given
<1>7. \A a \in Artifacts(t) : u.art[a].cut = t.art[a].cut /\ u.art[a].authority = t.art[a].authority
  BY <1>0, <1>2, <1>3, <1>5
<1>8. \A a \in Artifacts(t) \ {b} : u.art[a] = t.art[a]
  BY <1>0, <1>3, <1>5
<1>9. t.art[b].to = None
  BY <1>0 DEF Versioned, Active
<1>10. \A q \in u.rel : \E r \in t.rel : q = Resolved(r, w) /\ q.from = r.from /\ q.to = r.to /\ q.kind = r.kind /\ Key(q) = Key(r)
  <2>1. t.rel \in SUBSET RelRow
    BY <1>0 DEF TablesTyped
  <2>2. QED
    BY <1>5, <2>1, ResolvedRow DEF rel
<1>11. Joined(u)
  <2>1. \A q \in u.rel : {q.from, q.to} \subseteq Artifacts(u)
    BY <1>0, <1>6, <1>10 DEF Joined
  <2>2. \A p, q \in u.rel : Key(p) = Key(q) => p = q
    <3>1. \A p, q \in t.rel : Key(p) = Key(q) => p = q
      BY <1>0 DEF Joined, Key
    <3> SUFFICES ASSUME NEW p \in u.rel, NEW q \in u.rel, Key(p) = Key(q) PROVE p = q
      OBVIOUS
    <3>2. PICK r \in t.rel : p = Resolved(r, w) /\ Key(p) = Key(r)
      BY <1>10
    <3>3. PICK s \in t.rel : q = Resolved(s, w) /\ Key(q) = Key(s)
      BY <1>10
    <3>4. r = s
      BY <3>1, <3>2, <3>3
    <3>5. QED
      BY <3>2, <3>3, <3>4
  <2>3. QED
    BY <2>1, <2>2 DEF Joined, Key
<1>12. Numbered(u) /\ Grounded(u)
  BY <1>0, <1>3, <1>5, <1>6, <1>7 DEF Numbered, Grounded
<1>13. Accepted(u)
  <2> SUFFICES ASSUME NEW a \in Artifacts(u), Active(u, a)
               PROVE  u.art[a].authority \in Trusted /\ \A d \in Ancestors(a) : u.art[d].cut = {}
    BY DEF Accepted
  <2>1. a # b
    BY <1>2, <1>3, <1>5 DEF Active
  <2>2. a \in Artifacts(t) /\ Active(t, a) /\ Ancestors(a) \subseteq Artifacts(t)
    BY <1>0, <1>6, <1>8, <2>1, AncestorsThere DEF Active
  <2>3. QED
    BY <1>0, <1>7, <2>2 DEF Accepted
<1>14. Versioned(u)
  <2>1. \A a \in Artifacts(u) : u.art[a].to # None => u.art[a].status = "superseded"
    BY <1>0, <1>2, <1>3, <1>5, <1>6, <1>8 DEF Versioned
  <2>2. ASSUME NEW q \in u.rel, q.kind = "supersedes"
        PROVE  u.art[q.to].to # None /\ u.art[q.to].to <= FromOf[q.from]
    <3>1. PICK r \in t.rel : q.from = r.from /\ q.to = r.to /\ q.kind = r.kind
      BY <1>10
    <3>2. t.art[r.to].to # None /\ t.art[r.to].to <= FromOf[r.from] /\ r.to \in Artifacts(t)
      BY <1>0, <2>2, <3>1 DEF Versioned, Joined
    <3>3. r.to # b
      BY <1>9, <3>2
    <3>4. QED
      BY <1>8, <3>1, <3>2, <3>3
  <2>3. QED
    BY <2>1, <2>2 DEF Versioned
<1>15. TablesOK(u)
  BY <1>5, <1>11, <1>12, <1>13, <1>14 DEF TablesOK
<1>16. QED
  BY <1>1, <1>2, <1>3, <1>5, <1>6, <1>7, <1>8, <1>9, <1>15 DEF rel

\* What the action properties of typed memory say of a step.
ResolvedNow ==
    \A r \in db.rel, q \in db'.rel :
        /\ <<r.from, r.to, r.kind>> = <<q.from, q.to, q.kind>>
        /\ r.resolved # q.resolved
        => \E c \in Caller : /\ window[c].op = "review"
                             /\ window'[c] = Outside
                             /\ {r.from, r.to} \subseteq window[c].seen

\* A period that ends changes no answer about an earlier time.
KeptNow ==
    \A b \in Artifacts(db) \cap Artifacts(db') :
        db.art[b].to # db'.art[b].to =>
            \A at \in 0..(db'.art[b].to - 1) : Recalled(db, at) = Recalled(db', at)

\* What the action properties say of this step.
TypedNow == CopiesNow /\ Unsettled(db, db', now) /\ ResolvedNow /\ KeptNow

\* A step that adds no relation and ends no period does what they say.
LEMMA SettledNow ==
    ASSUME MemInv, CopiesNow, Settled PROVE TypedNow
<1>1. Unsettled(db, db', now) /\ KeptNow
  BY DEF Settled, KeptNow
<1>2. ResolvedNow
  BY DEF Settled, MemInv, TablesOK, Joined, ResolvedNow
<1>3. QED
  BY <1>1, <1>2 DEF TypedNow

\* So does one that gives no id and inserts no row.
LEMMA MovesNow ==
    ASSUME MemInv, Moves(db, db', now, {}, {}) PROVE TypedNow
<1>1. CopiesNow /\ Settled
  BY QuietMoves
<1>2. QED
  BY <1>1, SettledNow

\* A decision about two facts is carried out on facts that are there, and on the
\* disputes that its caller was shown.
LEMMA DecidedPair ==
    ASSUME MemInv, NEW c \in Caller, NEW k \in {"contradicts", "supersedes"}, Bound(c, k),
           Relatable(window[c].about)
    PROVE  LET w == window[c].about
           IN  /\ w.kind = k /\ w.at \in Nat /\ {w.a, w.b} \subseteq Artifacts(db)
               /\ Active(db, w.b) /\ ~Pending(window[c]) /\ window[c].op = "review"
               /\ \A r \in db.rel : /\ r.kind = "contradicts" /\ r.resolved = None
                                    /\ {r.from, r.to} = {w.a, w.b}
                                    => {r.from, r.to} \subseteq window[c].seen
<1> DEFINE w == window[c].about
<1>1. window[c].op = "review" /\ w.kind = k /\ window[c].fresh
  BY DEF Bound, InCall
<1>2. Shown(db, window[c])
  BY <1>1 DEF MemInv, Waiting, WaitOK
<1>3. /\ w.at \in Nat
      /\ \A r \in db.rel : /\ r.kind = "contradicts" /\ r.resolved = None
                           /\ {r.from, r.to} \cap {w.a, w.b} # {}
                           => {r.from, r.to} \subseteq window[c].seen
  BY <1>1, <1>2 DEF Shown
<1>4. {w.a, w.b} \subseteq Artifacts(db) /\ Active(db, w.b)
  BY DEF Relatable, Sound, AcceptedFact
<1>5. QED
  BY <1>1, <1>3, <1>4 DEF Pending

\* Contradict keeps the invariant.
LEMMA ContradictStep ==
    ASSUME MemInv, NEW c \in Caller, Contradict(c)
    PROVE  MemInv' /\ TypedNow
<1> DEFINE w == window[c].about
           u == Related(db, w)
<1>1. Bound(c, "contradicts") /\ Relatable(w) /\ Commit(c, u, Outside, TRUE) /\ UNCHANGED <<now, copies, forgotten>>
  BY DEF Contradict
<1>2. w.kind = "contradicts" /\ w.at \in Nat /\ {w.a, w.b} \subseteq Artifacts(db) /\ ~Pending(window[c])
  BY <1>1, DecidedPair
<1>3. TablesOK(db)
  BY DEF MemInv
<1> HIDE DEF w
<1>4. /\ TablesOK(u) /\ Artifacts(u) = Artifacts(db) /\ u.art = db.art
      /\ u.rows = db.rows /\ u.born = db.born
      /\ db.rel \subseteq u.rel
      /\ \A q \in u.rel \ db.rel : \A r \in db.rel : Key(r) # Key(q)
  BY <1>2, <1>3, RelatedKeeps
<1> HIDE DEF u
<1>5. SameRows(db, u)
  BY <1>4 DEF SameRows
<1>6. UNCHANGED <<now, copies, forgotten>>
  BY <1>1
<1>7. MemInv'
  BY <1>1, <1>2, <1>4, <1>5, <1>6, KeepStep, Zenon
<1>8. db' = u
  BY <1>1, <1>2, <1>4, <1>5, <1>6, KeepStep
<1>9. Unsettled(db, u, now)
  BY <1>1, <1>2, <1>4, <1>5, <1>6, KeepStep, Zenon
<1>10. KeptNow
  BY <1>4, <1>8 DEF KeptNow
<1>11. ResolvedNow
  <2>1. \A r, q \in db.rel : Key(r) = Key(q) => r = q
    BY <1>3 DEF TablesOK, Joined, Key
  <2>2. \A r \in db.rel, q \in u.rel : Key(r) = Key(q) => r = q
    BY <1>4, <2>1
  <2>3. QED
    BY <1>8, <2>2 DEF ResolvedNow, Key
<1>12. CopiesNow
  BY <1>4, <1>8 DEF CopiesNow, Given
<1>13. QED
  BY <1>7, <1>8, <1>9, <1>10, <1>11, <1>12 DEF TypedNow

\* What derives from a set depends on the artifacts and their links alone.
LEMMA DerivedSame ==
    ASSUME NEW t, NEW u, Artifacts(t) = Artifacts(u), \A a \in Artifacts(t) : Sources(t, a) = Sources(u, a),
           NEW S \in SUBSET (Observation \cup Artifact)
    PROVE  Derived(t, S) \subseteq Derived(u, S)
<1> DEFINE T == S \cup Derived(u, S)
<1>1. \A a \in Artifacts(t) : Sources(t, a) \cap T # {} => a \in T
  BY DerivedClosed
<1>2. S \subseteq T
  OBVIOUS
<1> HIDE DEF T
<1>3. Derived(t, S) \subseteq T
  BY <1>1, <1>2, DerivedClosed
<1>4. Derived(t, S) \subseteq Artifacts(t)
  BY DerivedClosed
<1>5. S \cap Artifacts(u) \subseteq Derived(u, S)
  BY DerivedClosed
<1>6. QED
  BY <1>3, <1>4, <1>5 DEF T

\* A dispute before and after n ends it.
SameDispute(r, q, n) ==
    /\ q.from = r.from /\ q.to = r.to /\ q.kind = r.kind /\ q.at = r.at
    /\ q.resolved = r.resolved \/ (r.resolved = None /\ q.resolved = n)

\* From t to u the fact b is replaced at n.
Replaced(t, u, b, n) ==
    /\ n \in Nat
    /\ Artifacts(u) = Artifacts(t) /\ u.rows = t.rows /\ u.meta = t.meta
    /\ \A a \in Artifacts(t) : u.art[a].cut = t.art[a].cut /\ u.art[a].authority = t.art[a].authority
    /\ \A a \in Artifacts(t) \ {b} : u.art[a] = t.art[a]
    /\ b \in Artifacts(t) /\ t.art[b].status = "active" /\ u.art[b].status = "superseded"
    /\ t.art[b].to = None /\ u.art[b].to = n
    /\ \A r \in t.rel : \E q \in u.rel : SameDispute(r, q, n)
    /\ \A q \in u.rel : q.kind = "contradicts" => \E r \in t.rel : SameDispute(r, q, n)
    /\ \A r \in t.rel : {r.from, r.to} \subseteq Artifacts(t)

\* An artifact is blocked by the open disputes of what it stands on.
LEMMA BlockedIs ==
    ASSUME NEW t, NEW at, NEW x
    PROVE  x \in Blocked(t, at) <=>
              \E q \in t.rel : /\ q.kind = "contradicts"
                               /\ q.at <= at
                               /\ q.resolved = None \/ q.resolved > at
                               /\ ActiveAt(t, q.from, at)
                               /\ ActiveAt(t, q.to, at)
                               /\ x \in Derived(t, {q.from, q.to})
<1> DEFINE R == {q \in t.rel : /\ q.kind = "contradicts"
                               /\ q.at <= at
                               /\ q.resolved = None \/ q.resolved > at
                               /\ ActiveAt(t, q.from, at)
                               /\ ActiveAt(t, q.to, at)}
<1>1. Blocked(t, at) = UNION {Derived(t, {r.from, r.to}) : r \in R}
  BY DEF Blocked
<1> HIDE DEF R
<1>2. x \in Blocked(t, at) <=> \E q \in R : x \in Derived(t, {q.from, q.to})
  BY <1>1
<1>3. QED
  BY <1>2 DEF R

\* A fact that ends at n changes nothing of what is recalled of earlier times.
LEMMA RecalledSame ==
    ASSUME NEW t, NEW u, NEW b, NEW n, Replaced(t, u, b, n), NEW at \in 0..(n - 1)
    PROVE  Recalled(t, at) = Recalled(u, at)
<1>0. /\ at \in Nat /\ n \in Nat /\ at < n /\ at # None /\ n # None
      /\ Artifacts(u) = Artifacts(t) /\ Artifacts(t) \subseteq Artifact
  BY MemoryConstants DEF Replaced, Artifacts
<1>1. \A a \in Artifacts(t) : ActiveAt(t, a, at) <=> ActiveAt(u, a, at)
  <2> SUFFICES ASSUME NEW a \in Artifacts(t) PROVE ActiveAt(t, a, at) <=> ActiveAt(u, a, at)
    OBVIOUS
  <2>1. CASE a = b
    BY <1>0, <2>1 DEF ActiveAt, Replaced
  <2>2. CASE a # b
    BY <2>2 DEF ActiveAt, Replaced
  <2>3. QED
    BY <2>1, <2>2
<1>2. \A a \in Artifacts(t) : (t.art[a].status \in {"active", "superseded"}) <=> (u.art[a].status \in {"active", "superseded"})
  BY DEF Replaced
<1>3. \A a \in Artifacts(t) : Sources(t, a) = Sources(u, a) /\ t.art[a].cut = u.art[a].cut /\ t.art[a].authority = u.art[a].authority
  BY DEF Replaced, Sources
<1>4. \A s : Standing(t, s, at) <=> Standing(u, s, at)
  <2>1. \A s : Eligible(t, s) <=> Eligible(u, s)
    BY DEF Eligible, Replaced
  <2>2. \A s \in Artifacts(t) : s \in Artifacts(u)
    BY <1>0
  <2>3. QED
    BY <1>0, <1>1, <1>2, <1>3, <2>1 DEF Standing
<1>5. \A a : Sound(t, a, at) <=> Sound(u, a, at)
  BY <1>0, <1>3, <1>4 DEF Sound
<1>6. \A S \in SUBSET (Observation \cup Artifact) : Derived(t, S) = Derived(u, S)
  <2> SUFFICES ASSUME NEW S \in SUBSET (Observation \cup Artifact) PROVE Derived(t, S) = Derived(u, S)
    OBVIOUS
  <2>1. Derived(t, S) \subseteq Derived(u, S)
    BY <1>0, <1>3, DerivedSame
  <2>2. Derived(u, S) \subseteq Derived(t, S)
    BY <1>0, <1>3, DerivedSame
  <2>3. QED
    BY <2>1, <2>2
<1>7. \A r \in t.rel : {r.from, r.to} \subseteq Artifacts(t) /\ Derived(t, {r.from, r.to}) = Derived(u, {r.from, r.to})
  <2>1. \A r \in t.rel : {r.from, r.to} \subseteq Artifacts(t) /\ {r.from, r.to} \in SUBSET (Observation \cup Artifact)
    BY <1>0 DEF Replaced
  <2>2. QED
    BY <1>6, <2>1
<1>8. ASSUME NEW x \in Blocked(t, at) PROVE x \in Blocked(u, at)
  <2>1. PICK r \in t.rel : /\ r.kind = "contradicts"
                           /\ r.at <= at
                           /\ r.resolved = None \/ r.resolved > at
                           /\ ActiveAt(t, r.from, at)
                           /\ ActiveAt(t, r.to, at)
                           /\ x \in Derived(t, {r.from, r.to})
    BY <1>8, BlockedIs
  <2>2. PICK q \in u.rel : SameDispute(r, q, n)
    BY DEF Replaced
  <2>3. q.resolved = None \/ q.resolved > at
    BY <1>0, <2>1, <2>2 DEF SameDispute
  <2>4. ActiveAt(u, r.from, at) /\ ActiveAt(u, r.to, at) /\ x \in Derived(u, {r.from, r.to})
    BY <1>1, <1>7, <2>1
  <2>5. QED
    BY <2>1, <2>2, <2>3, <2>4, BlockedIs DEF SameDispute
<1>9. ASSUME NEW x \in Blocked(u, at) PROVE x \in Blocked(t, at)
  <2>1. PICK q \in u.rel : /\ q.kind = "contradicts"
                           /\ q.at <= at
                           /\ q.resolved = None \/ q.resolved > at
                           /\ ActiveAt(u, q.from, at)
                           /\ ActiveAt(u, q.to, at)
                           /\ x \in Derived(u, {q.from, q.to})
    BY <1>9, BlockedIs
  <2>2. PICK r \in t.rel : SameDispute(r, q, n)
    BY <2>1 DEF Replaced
  <2>3. r.resolved = None \/ r.resolved > at
    BY <2>1, <2>2 DEF SameDispute
  <2>4. q.from = r.from /\ q.to = r.to
    BY <2>2 DEF SameDispute
  <2>5. ActiveAt(t, r.from, at) /\ ActiveAt(t, r.to, at) /\ x \in Derived(t, {r.from, r.to})
    BY <1>1, <1>7, <2>1, <2>4
  <2>6. QED
    BY <2>1, <2>2, <2>3, <2>5, BlockedIs DEF SameDispute
<1>10. Recalled(t, at) \subseteq Recalled(u, at)
  BY <1>0, <1>1, <1>2, <1>3, <1>5, <1>9 DEF Recalled
<1>11. Recalled(u, at) \subseteq Recalled(t, at)
  BY <1>0, <1>1, <1>2, <1>3, <1>5, <1>8 DEF Recalled
<1>12. QED
  BY <1>10, <1>11

\* Supersede keeps the invariant, and what was recalled of earlier times.
LEMMA SupersedeStep ==
    ASSUME MemInv, NEW c \in Caller, Supersede(c)
    PROVE  MemInv' /\ TypedNow
<1> DEFINE w == window[c].about
           v == Superseded(db, w)
           u == Related(v, w)
<1>1. /\ Bound(c, "supersedes") /\ Relatable(w) /\ Commit(c, u, Outside, TRUE)
      /\ UNCHANGED <<now, copies, forgotten>> /\ w.at = FromOf[w.a]
  BY DEF Supersede
<1>2. /\ w.kind = "supersedes" /\ w.at \in Nat /\ {w.a, w.b} \subseteq Artifacts(db)
      /\ Active(db, w.b) /\ ~Pending(window[c]) /\ window[c].op = "review"
      /\ \A r \in db.rel : /\ r.kind = "contradicts" /\ r.resolved = None
                           /\ {r.from, r.to} = {w.a, w.b}
                           => {r.from, r.to} \subseteq window[c].seen
  BY <1>1, DecidedPair
<1>3. TablesOK(db) /\ TablesTyped(db) /\ Joined(db)
  BY DEF MemInv, TablesOK
<1> HIDE DEF w
<1>4. /\ TablesOK(v) /\ Artifacts(v) = Artifacts(db)
      /\ v.rows = db.rows /\ v.born = db.born /\ v.meta = db.meta
      /\ v.rel = {Resolved(r, w) : r \in db.rel}
      /\ \A a \in Artifacts(db) : v.art[a].cut = db.art[a].cut /\ v.art[a].authority = db.art[a].authority
      /\ \A a \in Artifacts(db) \ {w.b} : v.art[a] = db.art[a]
      /\ db.art[w.b].to = None /\ v.art[w.b].to = w.at /\ v.art[w.b].status = "superseded"
  BY <1>2, <1>3, SupersededKeeps
<1> HIDE DEF v
<1>5. v.art[w.b].to # None /\ v.art[w.b].to <= FromOf[w.a] /\ {w.a, w.b} \subseteq Artifacts(v)
  BY <1>1, <1>2, <1>4, MemoryConstants
<1>6. w.kind \in {"contradicts", "supersedes"}
  BY <1>2
<1>7. /\ TablesOK(u) /\ Artifacts(u) = Artifacts(v) /\ u.art = v.art
      /\ u.rows = v.rows /\ u.born = v.born /\ u.meta = v.meta
      /\ v.rel \subseteq u.rel
      /\ \A q \in u.rel \ v.rel : q.kind = w.kind /\ \A r \in v.rel : Key(r) # Key(q)
  BY <1>2, <1>4, <1>5, <1>6, RelatedKeeps
<1> HIDE DEF u
<1>8. SameRows(db, u)
  BY <1>4, <1>7 DEF SameRows
<1>9. UNCHANGED <<now, copies, forgotten>>
  BY <1>1
<1>10. TablesOK(u)
  BY <1>7
<1>11. Commit(c, u, Outside, TRUE) /\ ~Pending(window[c])
  BY <1>1, <1>2
<1>12. MemInv'
  BY <1>8, <1>9, <1>10, <1>11, KeepStep, Zenon
<1>13. db' = u
  BY <1>8, <1>9, <1>10, <1>11, KeepStep
<1>14. window'[c] = Outside
  BY <1>8, <1>9, <1>10, <1>11, KeepStep, Zenon
<1>15. Unsettled(db, u, now)
  BY <1>8, <1>9, <1>10, <1>11, KeepStep, Zenon
<1>16. CopiesNow
  BY <1>4, <1>7, <1>13 DEF CopiesNow, Given
<1>17. \A r \in db.rel : /\ Key(Resolved(r, w)) = Key(r)
                         /\ Resolved(r, w).from = r.from /\ Resolved(r, w).to = r.to
                         /\ Resolved(r, w).kind = r.kind /\ Resolved(r, w).at = r.at
                         /\ \/ Resolved(r, w) = r
                            \/ /\ r.kind = "contradicts" /\ r.resolved = None /\ {r.from, r.to} = {w.a, w.b}
                               /\ Resolved(r, w).resolved = w.at
  <2>1. \A r \in db.rel : r \in RelRow
    BY <1>3 DEF TablesTyped
  <2>2. QED
    BY <1>2, <2>1, ResolvedRow
<1>18. ResolvedNow
  <2> SUFFICES ASSUME NEW r \in db.rel, NEW q \in u.rel, Key(r) = Key(q), r.resolved # q.resolved
               PROVE  {r.from, r.to} \subseteq window[c].seen
    BY <1>2, <1>13, <1>14 DEF ResolvedNow, Key
  <2>1. q \in v.rel
    <3>1. SUFFICES ASSUME q \notin v.rel PROVE FALSE
      OBVIOUS
    <3>2. Resolved(r, w) \in v.rel
      BY <1>4
    <3>3. QED
      BY <1>7, <1>17, <3>1, <3>2
  <2>2. PICK s \in db.rel : q = Resolved(s, w)
    BY <1>4, <2>1
  <2>3. Key(s) = Key(r)
    BY <1>17, <2>2
  <2>4. s = r
    BY <1>3, <2>3 DEF Joined, Key
  <2>5. r.kind = "contradicts" /\ r.resolved = None /\ {r.from, r.to} = {w.a, w.b}
    BY <1>17, <2>2, <2>4
  <2>6. QED
    BY <1>2, <2>5
<1>19. Replaced(db, u, w.b, w.at)
  <2>1. \A r \in db.rel : SameDispute(r, Resolved(r, w), w.at) /\ Resolved(r, w) \in u.rel
    <3> SUFFICES ASSUME NEW r \in db.rel PROVE SameDispute(r, Resolved(r, w), w.at) /\ Resolved(r, w) \in u.rel
      OBVIOUS
    <3>1. Resolved(r, w) \in v.rel
      BY <1>4
    <3>2. Resolved(r, w).resolved = r.resolved \/ (r.resolved = None /\ Resolved(r, w).resolved = w.at)
      BY <1>17
    <3>3. QED
      BY <1>7, <1>17, <3>1, <3>2 DEF SameDispute
  <2>2. \A q \in u.rel : q.kind = "contradicts" => \E r \in db.rel : SameDispute(r, q, w.at)
    <3> SUFFICES ASSUME NEW q \in u.rel, q.kind = "contradicts" PROVE \E r \in db.rel : SameDispute(r, q, w.at)
      OBVIOUS
    <3>1. q \in v.rel
      BY <1>2, <1>7
    <3>2. PICK r \in db.rel : q = Resolved(r, w)
      BY <1>4, <3>1
    <3>3. QED
      BY <2>1, <3>2
  <2>3. \A r \in db.rel : {r.from, r.to} \subseteq Artifacts(db)
    BY <1>3 DEF Joined
  <2>4. QED
    BY <1>2, <1>4, <1>7, <2>1, <2>2, <2>3 DEF Replaced, Active
<1>20. KeptNow
  <2> SUFFICES ASSUME NEW b \in Artifacts(db) \cap Artifacts(u), db.art[b].to # u.art[b].to,
                      NEW at \in 0..(u.art[b].to - 1)
               PROVE  Recalled(db, at) = Recalled(u, at)
    BY <1>13 DEF KeptNow
  <2>1. b = w.b
    BY <1>4, <1>7
  <2>2. at \in 0..(w.at - 1)
    BY <1>4, <1>7, <2>1
  <2>3. QED
    BY <1>19, <2>2, RecalledSame
<1>21. QED
  BY <1>12, <1>13, <1>15, <1>16, <1>18, <1>20 DEF TypedNow

\* ProposeExperience keeps the invariant.
LEMMA ProposeStep ==
    ASSUME MemInv, NEW c \in Caller, NEW a \in Artifact, Propose(c, a) \/ Episode(c, a)
    PROVE  MemInv' /\ Moves(db, db', now, {}, {})
<1>1. /\ ~Pending(window[c]) /\ a \notin Artifacts(db) /\ SourcesEligible(a)
      /\ UNCHANGED <<now, copies, forgotten>>
  BY DEF Propose, Episode, Creatable, InCall, Pending
<1>2. CASE Propose(c, a)
  <2>1. Commit(c, Created(a, "candidate", "agent_proposed"), Outside, FALSE)
    BY <1>2 DEF Propose
  <2>2. "candidate" \in {"candidate", "active"} /\ "agent_proposed" \in Trusted \cup {"agent_proposed"}
        /\ ("candidate" = "active" => "agent_proposed" \in Trusted)
    OBVIOUS
  <2>3. QED
    BY <1>1, <2>1, <2>2, CreateStep
<1>3. CASE Episode(c, a)
  <2>1. Commit(c, Created(a, "active", "deterministic_derived"), Outside, FALSE)
    BY <1>3 DEF Episode
  <2>2. "active" \in {"candidate", "active"} /\ "deterministic_derived" \in Trusted \cup {"agent_proposed"}
        /\ "deterministic_derived" \in Trusted
    BY DEF Trusted
  <2>3. QED
    BY <1>1, <2>1, <2>2, CreateStep
<1>4. QED
  BY <1>2, <1>3

\* AcceptExperience keeps the invariant.
LEMMA AcceptStep ==
    ASSUME MemInv, NEW c \in Caller, AcceptExperience(c)
    PROVE  MemInv' /\ Moves(db, db', now, {}, {})
<1> DEFINE a == window[c].about.a
<1>0. a \in Artifact
  BY DEF AcceptExperience, Bound, InCall, MemInv, Waiting, WaitOK, Shown
<1>1. /\ ~Pending(window[c]) /\ a \notin Artifacts(db) /\ SourcesEligible(a)
      /\ UNCHANGED <<now, copies, forgotten>>
      /\ Commit(c, Created(a, "active", "human_accepted"), Outside, TRUE)
  BY DEF AcceptExperience, Bound, Creatable, InCall, Pending
<1>2. "active" \in {"candidate", "active"} /\ "human_accepted" \in Trusted \cup {"agent_proposed"}
      /\ "human_accepted" \in Trusted
  BY DEF Trusted
<1> HIDE DEF a
<1>3. QED
  BY <1>0, <1>1, <1>2, CreateStep

\* The preview of a relation binds its caller to the disputes of both sides.
LEMMA RelationPreview ==
    ASSUME MemInv, NEW c \in Caller, NEW a \in Artifact, NEW b \in Artifact,
           NEW kind \in {"contradicts", "supersedes"}, NEW at \in {now, FromOf[a]},
           PreviewRelation(c, a, b, kind, at)
    PROVE  MemInv' /\ Moves(db, db', now, {}, {})
<1> DEFINE about == [kind |-> kind, a |-> a, b |-> b, at |-> at]
           A == {a, b}
<1>1. Preview(c, about, A)
  BY DEF PreviewRelation
<1>2. at \in Nat
  BY MemoryConstants DEF MemInv
<1>3. /\ about.kind = "experience" => about.a \in Artifact
      /\ about.kind \in {"contradicts", "supersedes"} => about.at \in Nat /\ A = {about.a, about.b}
  BY <1>2
<1> HIDE DEF about, A
<1>4. QED
  BY <1>1, <1>3, PreviewStep

\* The preview of a review or of an experience binds its caller to nothing more.
LEMMA OwnPreview ==
    ASSUME MemInv, NEW c \in Caller, NEW a \in Artifact, PreviewExperience(c, a) \/ PreviewReview(c, a)
    PROVE  MemInv' /\ Moves(db, db', now, {}, {})
<1>1. PICK k \in {"experience", "review"} : Preview(c, [kind |-> k, a |-> a], {a})
  BY DEF PreviewExperience, PreviewReview
<1> DEFINE about == [kind |-> k, a |-> a]
           A == {a}
<1>2. Preview(c, about, A)
  BY <1>1
<1>3. /\ about.kind = "experience" => about.a \in Artifact
      /\ about.kind \in {"contradicts", "supersedes"} => about.at \in Nat /\ A = {about.a, about.b}
  OBVIOUS
<1> HIDE DEF about, A
<1>4. QED
  BY <1>2, <1>3, PreviewStep

\* What every step of typed memory keeps, and does.
LEMMA TypedMoves ==
    ASSUME MemInv, TypedNext PROVE MemInv' /\ TypedNow
<1>1. CASE Tick
  BY <1>1, TickStep, MovesNow
<1>2. ASSUME NEW c \in Caller, TypedStep(c) PROVE MemInv' /\ TypedNow
  <2>1. CASE PassiveStep(c)
    BY <2>1, PassiveMoves, SettledNow
  <2>2. ASSUME NEW a \in Artifact, Propose(c, a) \/ Episode(c, a) PROVE MemInv' /\ TypedNow
    BY <2>2, ProposeStep, MovesNow
  <2>3. ASSUME NEW a \in Artifact, PreviewExperience(c, a) \/ PreviewReview(c, a) PROVE MemInv' /\ TypedNow
    BY <2>3, OwnPreview, MovesNow
  <2>4. ASSUME NEW a \in Artifact, NEW b \in Artifact,
               NEW kind \in {"contradicts", "supersedes"}, NEW at \in {now, FromOf[a]},
               PreviewRelation(c, a, b, kind, at)
        PROVE  MemInv' /\ TypedNow
    BY <2>4, RelationPreview, MovesNow
  <2>5. CASE AbandonReview(c)
    BY <2>5, AbandonStep, MovesNow DEF AbandonReview
  <2>6. CASE AcceptExperience(c)
    BY <2>6, AcceptStep, MovesNow
  <2>7. ASSUME NEW accepted \in BOOLEAN, Review(c, accepted) PROVE MemInv' /\ TypedNow
    BY <2>7, ReviewStep, MovesNow
  <2>8. CASE RejectRelation(c)
    BY <2>8, RejectStep, MovesNow
  <2>9. CASE Contradict(c)
    BY <2>9, ContradictStep
  <2>10. CASE Supersede(c)
    BY <2>10, SupersedeStep
  <2>11. ASSUME NEW a \in Artifact, ForgetArtifact(c, a) PROVE MemInv' /\ TypedNow
    BY <2>11, ForgetArtifactStep, MovesNow
  <2>12. QED
    BY <1>2, <2>1, <2>2, <2>3, <2>4, <2>5, <2>6, <2>7, <2>8, <2>9, <2>10, <2>11 DEF TypedStep
<1>3. QED
  BY <1>1, <1>2 DEF TypedNext

\* A stutter keeps the invariant.
LEMMA MemIdle ==
    ASSUME MemInv, UNCHANGED passiveVars PROVE MemInv'
BY DEF MemInv, passiveVars

\* The tables stay sound whatever the callers do at once and wherever they die:
\* sources are there, accepted artifacts stand on active ones, calls hold ids that
\* nobody else has, and the index and the forgotten rows agree with the tables
\* (storage/memory.py, storage/memory_artifacts.py).
THEOREM MemorySound == TypedSpec => []MemInv
<1>1. PassiveInit => MemInv
  BY MemInit
<1>2. MemInv /\ [TypedNext]_passiveVars => MemInv'
  BY TypedMoves, MemIdle
<1>3. QED
  BY <1>1, <1>2, PTL DEF TypedSpec

\* An active artifact stands on rows that are there: pruning and compaction leave
\* them alone, and forgetting one takes what derives from it along.
THEOREM ProvenanceKept == TypedSpec => []ActiveProvenanceKept
<1>1. MemInv => ActiveProvenanceKept
  <2> SUFFICES ASSUME MemInv, NEW a \in Artifacts(db), Active(db, a), NEW b \in Ancestors(a)
               PROVE  b \in Artifacts(db) /\ db.art[b].cut = {}
    BY DEF ActiveProvenanceKept
  <2>1. TablesTyped(db) /\ Grounded(db) /\ Accepted(db)
    BY DEF MemInv, TablesOK
  <2>2. QED
    BY <2>1, AncestorsThere DEF Accepted
<1>2. QED
  BY <1>1, MemorySound, PTL

\* What a user forgets is gone with every artifact made from it, and comes back
\* through no call that was under way.
THEOREM Forgotten == TypedSpec => []ForgottenErased
<1>1. MemInv => ForgottenErased
  <2> SUFFICES ASSUME MemInv PROVE ForgottenErased
    OBVIOUS
  <2>1. /\ HistoryOK(db, copies, forgotten) /\ IndexOK(index, db)
        /\ TablesTyped(db) /\ Grounded(db)
    BY DEF MemInv, TablesOK
  <2>2. CapsuleErased
    BY <2>1 DEF CapsuleErased, HistoryOK, IndexOK
  <2>3. ASSUME NEW a \in Artifacts(db) PROVE Evidence(a) \cap forgotten = {}
    <3> DEFINE raw == {o \in Observation : \E b \in Ancestors(a) : o \in SourcesOf[b]}
    <3>1. Ancestors(a) \subseteq Artifacts(db)
      BY <2>1, AncestorsThere
    <3>2. \A o \in raw : o \notin forgotten /\ copies[o] \cap forgotten = {}
      BY <2>1, <3>1 DEF HistoryOK
    <3> HIDE DEF raw
    <3>3. (raw \cup UNION {copies[o] : o \in raw}) \cap forgotten = {}
      <4>1. \A x \in UNION {copies[o] : o \in raw} : \E o \in raw : x \in copies[o]
        OBVIOUS
      <4>2. QED
        BY <3>2, <4>1
    <3>4. QED
      BY <3>3 DEF Evidence, raw
  <2>4. QED
    BY <2>2, <2>3 DEF ForgottenErased
<1>2. QED
  BY <1>1, MemorySound, PTL

\* Of two versions of a fact at most one is recalled for any one time.
THEOREM OneVersion == TypedSpec => []OneVersionAtATime
<1>1. MemInv => OneVersionAtATime
  <2> SUFFICES ASSUME MemInv, NEW r \in db.rel, r.kind = "supersedes",
                      NEW at \in 0..MaxNow, {r.from, r.to} \subseteq Recalled(db, at)
               PROVE  FALSE
    BY DEF OneVersionAtATime
  <2>1. db.art[r.to].to # None /\ db.art[r.to].to <= FromOf[r.from] /\ {r.from, r.to} \subseteq Artifacts(db)
    BY DEF MemInv, TablesOK, Versioned, Joined
  <2>2. FromOf[r.from] <= at /\ at < db.art[r.to].to
    BY <2>1 DEF Recalled, ActiveAt
  <2>3. db.art[r.to] \in ArtRow /\ {r.from, r.to} \subseteq Artifact
    BY <2>1, ArtifactRows DEF MemInv, TablesOK
  <2>4. db.art[r.to].to \in Nat /\ FromOf[r.from] \in Nat /\ at \in Nat
    BY <2>1, <2>3, MemoryConstants, TypedConstants DEF ArtRow
  <2>5. QED
    BY <2>1, <2>2, <2>4
<1>2. QED
  BY <1>1, MemorySound, PTL

\* A capsule repeats only rows that are there and active as it is written.
THEOREM CapsulesCurrent == TypedSpec => CapsuleCopiesCurrent
<1>1. MemInv /\ [TypedNext]_passiveVars
        => [\A k \in Given(db)' \ Given(db) :
              EventOf[k] = "session_capsule" =>
                  \A o \in copies'[k] : Eligible(db, o)]_passiveVars
  BY TypedMoves DEF TypedNow, CopiesNow
<1>2. QED
  BY <1>1, MemorySound, PTL DEF TypedSpec, CapsuleCopiesCurrent

\* Deleting one side of an open dispute leaves nothing active on the other side.
THEOREM DisputesReviewed == TypedSpec => DisputeNeedsReview
<1>1. MemInv /\ [TypedNext]_passiveVars
        => [\A r \in db.rel :
              /\ Open(r, now)
              /\ {r.from, r.to} \cap Artifacts(db)' # {}
              /\ ~({r.from, r.to} \subseteq Artifacts(db)')
              => \A a \in {r.from, r.to} \cap Artifacts(db)' :
                    \A d \in Artifacts(db)' : a \in Ancestors(d) => ~Active(db', d)]_passiveVars
  BY TypedMoves DEF TypedNow, Unsettled
<1>2. QED
  BY <1>1, MemorySound, PTL DEF TypedSpec, DisputeNeedsReview

\* A dispute is resolved only by a decision that was shown it.
THEOREM ResolvedWhenShown == TypedSpec => ResolvedAsShown
<1>1. MemInv /\ [TypedNext]_passiveVars
        => [\A r \in db.rel, q \in db'.rel :
              /\ <<r.from, r.to, r.kind>> = <<q.from, q.to, q.kind>>
              /\ r.resolved # q.resolved
              => \E c \in Caller : /\ window[c].op = "review"
                                   /\ window'[c] = Outside
                                   /\ {r.from, r.to} \subseteq window[c].seen]_passiveVars
  BY TypedMoves DEF TypedNow, ResolvedNow
<1>2. QED
  BY <1>1, MemorySound, PTL DEF TypedSpec, ResolvedAsShown

\* A fact that ends does not change what is recalled of earlier times.
THEOREM HistoryUnchanged == TypedSpec => HistoryKept
<1>1. MemInv /\ [TypedNext]_passiveVars
        => [\A b \in Artifacts(db) \cap Artifacts(db)' :
              db.art[b].to # db'.art[b].to =>
                  \A at \in 0..(db'.art[b].to - 1) : Recalled(db, at) = Recalled(db', at)]_passiveVars
  BY TypedMoves DEF TypedNow, KeptNow
<1>2. QED
  BY <1>1, MemorySound, PTL DEF TypedSpec, HistoryKept

(* The handlers over passive memory. *)

\* What a handler's step does to the calls of the others, and to the ids given.
Framed(c) ==
    /\ MemInv'
    /\ \A d \in Caller \ {c} : window'[d].op = window[d].op /\ window'[d].about = window[d].about
    /\ Given(db) \subseteq Given(db') \cup (IF Pending(window[c]) THEN {window[c].about} ELSE {})
    /\ Pending(window'[c]) => \/ window'[c].op = window[c].op /\ window'[c].about = window[c].about
                              \/ window'[c].about \notin Given(db)

\* The id of a row is kept as it is inserted, and is taken back as it is not.
LEMMA OwnGiven ==
    ASSUME MemInv, NEW c \in Caller, Pending(window[c])
    PROVE  /\ Given(InsertPruned(db, window[c].about)) = Given(db)
           /\ Given(Unstamp(db, window[c].about)) = Given(db) \ {window[c].about}
<1>1. FreshIn(db, copies, forgotten, window[c].about) /\ TablesOK(db) /\ now \in Nat
  BY OwnRow DEF MemInv
<1>2. Given(InsertPruned(db, window[c].about)) = Given(db)
  BY <1>1, PrunedGiven DEF FreshIn, InsertPruned
<1>3. window[c].about \in Observation
  BY <1>1 DEF FreshIn, Given
<1>4. Given(Unstamp(db, window[c].about)) = Given(db) \ {window[c].about}
  BY <1>1, <1>3, UnstampKeeps DEF FreshIn
<1>5. QED
  BY <1>2, <1>4

\* BuildRecord moves its own call alone.
LEMMA FramedBuild ==
    ASSUME MemInv, NEW c \in Caller, NEW o \in Observation, BuildRecord(c, o)
    PROVE  Framed(c) /\ window'[c].op = "record" /\ window'[c].about = o
<1>1. /\ MemInv' /\ Moves(db, db', now, {o}, {}) /\ window'[c] = Enter(c, "record", o, {})
      /\ db' = Stamp(db, o) /\ o \notin Given(db)
  BY BuildRecordStep
<1>2. Commit(c, Stamp(db, o), Enter(c, "record", o, {}), FALSE)
  BY DEF BuildRecord
<1>3. \A d \in Caller \ {c} : window'[d].op = window[d].op /\ window'[d].about = window[d].about
  BY <1>2, CommitOthers
<1>4. Given(db') = Given(db) \cup {o}
  BY <1>1, StampKeeps DEF MemInv
<1>5. window'[c].op = "record" /\ window'[c].about = o
  BY <1>1 DEF Enter
<1>6. QED
  BY <1>1, <1>3, <1>4, <1>5 DEF Framed

\* So does ReadTree.
LEMMA FramedTree ==
    ASSUME MemInv, NEW c \in Caller, NEW o \in Observation, ReadTree(c, o)
    PROVE  Framed(c) /\ window'[c].op = "capture"
<1>1. /\ MemInv' /\ Moves(db, db', now, {o}, {})
      /\ db' = Stamp(db, o) /\ o \notin Given(db)
  BY ReadTreeStep
<1>2. Commit(c, Stamp(db, o), Enter(c, "capture", o, {tree}), FALSE)
  BY DEF ReadTree
<1>3. /\ \A d \in Caller \ {c} : window'[d].op = window[d].op /\ window'[d].about = window[d].about
      /\ window'[c] = Enter(c, "capture", o, {tree})
  BY <1>2, CommitOthers
<1>4. Given(db') = Given(db) \cup {o}
  BY <1>1, StampKeeps DEF MemInv
<1>5. window'[c].op = "capture" /\ window'[c].about = o
  BY <1>3 DEF Enter
<1>6. QED
  BY <1>1, <1>3, <1>4, <1>5 DEF Framed

\* The end of a call that inserts the row it built, or gives it up.
LEMMA FramedEnd ==
    ASSUME MemInv, NEW c \in Caller, InsertObservation(c) \/ InsertUnique(c) \/ UpsertSnapshot(c)
    PROVE  Framed(c) /\ window'[c] = Outside /\ Pending(window[c])
<1>1. Pending(window[c])
  BY DEF InsertObservation, InsertUnique, UpsertSnapshot, Inserting, InCall, Pending
<1> DEFINE o == window[c].about
<1>2. PICK u \in {InsertPruned(db, o), Unstamp(db, o)} : Commit(c, u, Outside, FALSE)
  BY DEF InsertObservation, InsertUnique, UpsertSnapshot
<1>3. /\ db' = u /\ window'[c] = Outside
      /\ \A d \in Caller \ {c} : window'[d].op = window[d].op /\ window'[d].about = window[d].about
  BY <1>2, CommitOthers
<1>4. Given(db) \subseteq Given(db') \cup {o}
  BY <1>1, <1>2, <1>3, OwnGiven
<1>5. MemInv'
  <2>1. CASE InsertObservation(c)
    BY <2>1, InsertObservationStep DEF Moves
  <2>2. CASE InsertUnique(c)
    BY <2>2, InsertUniqueStep DEF Moves
  <2>3. CASE UpsertSnapshot(c)
    BY <2>3, UpsertStep DEF Moves
  <2>4. QED
    BY <2>1, <2>2, <2>3
<1>6. ~Pending(window'[c])
  BY <1>3, OutsideWaits
<1>7. QED
  BY <1>1, <1>3, <1>4, <1>5, <1>6 DEF Framed

\* ResetMarker moves its own call alone.
LEMMA FramedReset ==
    ASSUME MemInv, NEW c \in Caller, NEW s, ResetMarker(c, s)
    PROVE  Framed(c) /\ window'[c] = Outside
<1> DEFINE S == {o \in db.rows : Marker(o) /\ SessionOf[o] = s}
           u == DeleteRows(db, S)
<1>1. MemInv'
  BY ResetStep, QuietMoves
<1>2. Commit(c, u, Outside, FALSE)
  BY DEF ResetMarker
<1>3. /\ db' = u /\ window'[c] = Outside
      /\ \A d \in Caller \ {c} : window'[d].op = window[d].op /\ window'[d].about = window[d].about
  BY <1>2, CommitOthers
<1>4. S \in SUBSET Observation /\ TablesTyped(db)
  BY DEF MemInv, TablesOK, TablesTyped
<1> HIDE DEF S
<1>5. u.born = db.born
  BY <1>4, RowsRemoved
<1> HIDE DEF u
<1>6. Given(db') = Given(db)
  BY <1>3, <1>5 DEF Given
<1>7. ~Pending(window'[c])
  BY <1>3, OutsideWaits
<1>8. QED
  BY <1>1, <1>3, <1>6, <1>7 DEF Framed

\* So does ReadSession.
LEMMA FramedRead ==
    ASSUME MemInv, NEW c \in Caller, NEW s, ReadSession(c, s)
    PROVE  Framed(c)
<1>1. MemInv'
  BY ReadSessionStep, QuietMoves
<1>2. PICK seen : window' = [window EXCEPT ![c] = Enter(c, "capsule", s, seen)] /\ db' = db
  BY DEF ReadSession
<1>3. /\ window'[c] = Enter(c, "capsule", s, seen)
      /\ \A d \in Caller \ {c} : window'[d] = window[d]
  BY <1>2 DEF MemInv
<1>4. ~Pending(window'[c])
  BY <1>3 DEF Enter, Pending
<1>5. QED
  BY <1>1, <1>2, <1>3, <1>4 DEF Framed

\* So does RecordCapsule.
LEMMA FramedCapsule ==
    ASSUME MemInv, NEW c \in Caller, NEW k \in Observation, RecordCapsule(c, k)
    PROVE  Framed(c) /\ window'[c] = Outside
<1>1. /\ MemInv' /\ Moves(db, db', now, {k}, {k})
      /\ EventOf[k] = "session_capsule"
      /\ Given(db) \subseteq Given(db') /\ window'[c] = Outside
      /\ \A d \in Caller \ {c} : window'[d].op = window[d].op /\ window'[d].about = window[d].about
  BY RecordCapsuleStep
<1>2. ~Pending(window'[c])
  BY <1>1, OutsideWaits
<1>3. QED
  BY <1>1, <1>2 DEF Framed

\* A call that ends without a transaction, but for the row it had built.
LEMMA FramedGone ==
    ASSUME MemInv, NEW c \in Caller, AbandonCapsule(c) \/ Die(c)
    PROVE  Framed(c) /\ window'[c] = Outside
<1>1. /\ window' = [window EXCEPT ![c] = Outside]
      /\ db' = IF Pending(window[c]) THEN Unstamp(db, window[c].about) ELSE db
  BY DEF AbandonCapsule, Die, InCall, Pending
<1>2. window'[c] = Outside /\ \A d \in Caller \ {c} : window'[d] = window[d]
  BY <1>1 DEF MemInv
<1>3. MemInv' /\ Moves(db, db', now, {}, {})
  <2>1. CASE AbandonCapsule(c)
    BY <2>1, AbandonStep DEF AbandonCapsule
  <2>2. CASE Die(c)
    BY <2>2, DieStep
  <2>3. QED
    BY <2>1, <2>2
<1>4. Given(db) \subseteq Given(db') \cup (IF Pending(window[c]) THEN {window[c].about} ELSE {})
  <2>1. CASE Pending(window[c])
    BY <1>1, <2>1, OwnGiven
  <2>2. CASE ~Pending(window[c])
    BY <1>1, <2>2
  <2>3. QED
    BY <2>1, <2>2
<1>5. ~Pending(window'[c])
  BY <1>2, OutsideWaits
<1>6. QED
  BY <1>2, <1>3, <1>4, <1>5 DEF Framed

\* So does a stutter.
LEMMA FramedIdle ==
    ASSUME MemInv, NEW c \in Caller, UNCHANGED passiveVars
    PROVE  Framed(c) /\ window'[c] = window[c]
<1>1. MemInv' /\ db' = db /\ window' = window
  BY MemIdle DEF passiveVars
<1>2. QED
  BY <1>1 DEF Framed

(* The calls a handler has still to make. *)

\* What may be left of the calls of an event, as Done and Rest shorten them.
Left(event) ==
    CASE event = "prompt-context" ->
            {<<"capture", "read", "intent", "inject">>, <<"read", "intent", "inject">>,
             <<"intent", "inject">>, <<"inject">>, <<>>}
      [] event = "mcp-sync" ->
            {<<"capture", "read", "intent", "show">>, <<"read", "intent", "show">>,
             <<"intent", "show">>, <<"show">>, <<>>}
      [] event \in {"session-start", "client-sync"} -> {<<"capture", "read", "show">>, <<"read", "show">>, <<"show">>, <<>>}
      [] event = "session-prepare" -> {<<"reset", "capture">>, <<"capture">>, <<>>}
      [] event = "pre-compact" ->
            {<<"record", "capture", "capsule">>, <<"capture", "capsule">>, <<"capsule">>, <<>>}
      [] event = "session-end" ->
            {<<"capture", "capsule", "record">>, <<"capsule", "record">>, <<"record">>, <<>>}
      [] event = "user-prompt" -> {<<"intent">>, <<>>}
      [] event = "observe" -> {<<"capture">>, <<>>}
      [] event = "mcp-remember" -> {<<"note">>, <<>>}
      [] event = "none" -> {<<>>}
      [] OTHER -> {<<"record">>, <<>>}

\* What is left of the calls once the prompt is stored.
Last == {<<>>, <<"inject">>, <<"show">>}

\* A handler starts with all its calls, and inserts no marker first.
LEMMA CallsLeft ==
    \A event \in Handled :
        /\ Calls(event) \in Left(event)
        /\ Calls(event) # <<>>
        /\ Calls(event) # <<"inject">>
BY DEF Handled, Calls, Left

\* The tails of short sequences.
LEMMA Tails ==
    /\ \A a : Tail(<<a>>) = <<>>
    /\ \A a, b : Tail(<<a, b>>) = <<b>>
    /\ \A a, b, c : Tail(<<a, b, c>>) = <<b, c>>
    /\ \A a, b, c, d : Tail(<<a, b, c, d>>) = <<b, c, d>>
OBVIOUS

\* The heads of short sequences.
LEMMA Heads ==
    /\ \A a : Head(<<a>>) = a
    /\ \A a, b : Head(<<a, b>>) = a
    /\ \A a, b, c : Head(<<a, b, c>>) = a
    /\ \A a, b, c, d : Head(<<a, b, c, d>>) = a
OBVIOUS

\* A call that ends leaves the calls after it.
LEMMA TailLeft ==
    \A event \in Handled : \A todo \in Left(event) :
        todo # <<>> =>
            /\ Tail(todo) \in Left(event)
            /\ Head(todo) \in {"intent", "note"} => Tail(todo) \in Last
            /\ Head(todo) = "read" => todo \notin Last /\ Tail(todo) # <<"inject">>
            /\ Head(todo) = "inject" => todo = <<"inject">>
            /\ Head(todo) = "show" => event # "prompt-context" /\ todo = <<"show">>
<1> SUFFICES ASSUME NEW event \in Handled, NEW todo \in Left(event), todo # <<>>
             PROVE  /\ Tail(todo) \in Left(event)
                    /\ Head(todo) \in {"intent", "note"} => Tail(todo) \in Last
                    /\ Head(todo) = "read" => todo \notin Last /\ Tail(todo) # <<"inject">>
                    /\ Head(todo) = "inject" => todo = <<"inject">>
                    /\ Head(todo) = "show" => event # "prompt-context" /\ todo = <<"show">>
  OBVIOUS
<1>1. CASE event = "prompt-context"
  <2>1. CASE todo = <<"capture", "read", "intent", "inject">>
    BY <1>1, <2>1, Tails, Heads DEF Left, Last
  <2>2. CASE todo = <<"read", "intent", "inject">>
    BY <1>1, <2>2, Tails, Heads DEF Left, Last
  <2>3. CASE todo = <<"intent", "inject">>
    BY <1>1, <2>3, Tails, Heads DEF Left, Last
  <2>4. CASE todo = <<"inject">>
    BY <1>1, <2>4, Tails, Heads DEF Left, Last
  <2>5. QED
    BY <1>1, <2>1, <2>2, <2>3, <2>4 DEF Left
<1>2. CASE event = "mcp-sync"
  <2>1. CASE todo = <<"capture", "read", "intent", "show">>
    BY <1>2, <2>1, Tails, Heads DEF Left, Last
  <2>2. CASE todo = <<"read", "intent", "show">>
    BY <1>2, <2>2, Tails, Heads DEF Left, Last
  <2>3. CASE todo = <<"intent", "show">>
    BY <1>2, <2>3, Tails, Heads DEF Left, Last
  <2>4. CASE todo = <<"show">>
    BY <1>2, <2>4, Tails, Heads DEF Left, Last
  <2>5. QED
    BY <1>2, <2>1, <2>2, <2>3, <2>4 DEF Left
<1>3. CASE event \in {"session-start", "client-sync"}
  <2>1. CASE todo = <<"capture", "read", "show">>
    BY <1>3, <2>1, Tails, Heads DEF Left, Last
  <2>2. CASE todo = <<"read", "show">>
    BY <1>3, <2>2, Tails, Heads DEF Left, Last
  <2>3. CASE todo = <<"show">>
    BY <1>3, <2>3, Tails, Heads DEF Left, Last
  <2>4. QED
    BY <1>3, <2>1, <2>2, <2>3 DEF Left
<1>4. CASE event = "session-prepare"
  <2>1. CASE todo = <<"reset", "capture">>
    BY <1>4, <2>1, Tails, Heads DEF Left, Last
  <2>2. CASE todo = <<"capture">>
    BY <1>4, <2>2, Tails, Heads DEF Left, Last
  <2>3. QED
    BY <1>4, <2>1, <2>2 DEF Left
<1>5. CASE event = "pre-compact"
  <2>1. CASE todo = <<"record", "capture", "capsule">>
    BY <1>5, <2>1, Tails, Heads DEF Left, Last
  <2>2. CASE todo = <<"capture", "capsule">>
    BY <1>5, <2>2, Tails, Heads DEF Left, Last
  <2>3. CASE todo = <<"capsule">>
    BY <1>5, <2>3, Tails, Heads DEF Left, Last
  <2>4. QED
    BY <1>5, <2>1, <2>2, <2>3 DEF Left
<1>6. CASE event = "session-end"
  <2>1. CASE todo = <<"capture", "capsule", "record">>
    BY <1>6, <2>1, Tails, Heads DEF Left, Last
  <2>2. CASE todo = <<"capsule", "record">>
    BY <1>6, <2>2, Tails, Heads DEF Left, Last
  <2>3. CASE todo = <<"record">>
    BY <1>6, <2>3, Tails, Heads DEF Left, Last
  <2>4. QED
    BY <1>6, <2>1, <2>2, <2>3 DEF Left
<1>7. CASE event = "user-prompt"
  <2>1. CASE todo = <<"intent">>
    BY <1>7, <2>1, Tails, Heads DEF Left, Last
  <2>2. QED
    BY <1>7, <2>1 DEF Left
<1>8. CASE event = "mcp-remember"
  <2>1. CASE todo = <<"note">>
    BY <1>8, <2>1, Tails, Heads DEF Left, Last
  <2>2. QED
    BY <1>8, <2>1 DEF Left
<1>9. CASE event = "post"
  <2>1. CASE todo = <<"record">>
    BY <1>9, <2>1, Tails, Heads DEF Left, Last
  <2>2. QED
    BY <1>9, <2>1 DEF Left
<1>10. CASE event = "observe"
  <2>1. CASE todo = <<"capture">>
    BY <1>10, <2>1, Tails, Heads DEF Left, Last
  <2>2. QED
    BY <1>10, <2>1 DEF Left
<1>11. QED
  BY <1>1, <1>2, <1>3, <1>4, <1>5, <1>6, <1>7, <1>8, <1>9, <1>10 DEF Handled

\* A call that raises leaves some of the calls after it.
LEMMA RestLeft ==
    \A h : h.event \in Handled /\ h.todo \in Left(h.event) /\ h.todo # <<>> =>
        /\ Rest(h) \in Left(h.event)
        /\ h.todo \in Last => Rest(h) \in Last
<1> SUFFICES ASSUME NEW h, h.event \in Handled, h.todo \in Left(h.event), h.todo # <<>>
             PROVE  /\ Rest(h) \in Left(h.event)
                    /\ h.todo \in Last => Rest(h) \in Last
  OBVIOUS
<1>1. CASE Rest(h) = <<>>
  <2>1. <<>> \in Left(h.event)
    BY DEF Left, Handled
  <2>2. QED
    BY <1>1, <2>1 DEF Last
<1>2. CASE Rest(h) # <<>>
  <2>1. h.event \in {"prompt-context", "mcp-sync"} /\ Head(h.todo) \in {"capture", "read", "intent"}
    BY <1>2 DEF Rest
  <2>2. Tail(h.todo) \in Left(h.event) /\ h.todo \notin Last
    <3>1. h.todo \notin {<<"inject">>, <<"show">>}
      BY <2>1, Heads
    <3>2. QED
      BY <3>1, TailLeft DEF Last
  <2>3. CASE Head(h.todo) = "capture"
    <3>1. Tail(h.todo) # <<>>
      <4>1. CASE h.event = "prompt-context"
        <5>1. h.todo = <<"capture", "read", "intent", "inject">>
          BY <2>3, <4>1, Heads DEF Left
        <5>2. QED
          BY <5>1, Tails
      <4>2. CASE h.event = "mcp-sync"
        <5>1. h.todo = <<"capture", "read", "intent", "show">>
          BY <2>3, <4>2, Heads DEF Left
        <5>2. QED
          BY <5>1, Tails
      <4>3. QED
        BY <2>1, <4>1, <4>2
    <3>2. Tail(Tail(h.todo)) \in Left(h.event)
      BY <2>2, <3>1, TailLeft
    <3>3. Rest(h) = Tail(Tail(h.todo))
      BY <2>1, <2>3 DEF Rest
    <3>4. QED
      BY <2>2, <3>2, <3>3
  <2>4. CASE Head(h.todo) # "capture"
    <3>1. Rest(h) = Tail(h.todo)
      BY <2>1, <2>4 DEF Rest
    <3>2. QED
      BY <2>2, <3>1
  <2>5. QED
    BY <2>3, <2>4
<1>3. QED
  BY <1>1, <1>2

\* A handler h of caller c, whose call under way is w.
HandlerOK(c, h, w) ==
    /\ h = [event |-> h.event, text |-> h.text, todo |-> h.todo, told |-> h.told, own |-> h.own]
    /\ h.event \in Handled \cup {"none"}
    /\ h.todo \in Left(h.event)
    /\ h.own \cap h.told = {}
    /\ h.own # {} => h.todo \in Last
    /\ h.todo = <<"inject">> /\ w.op = "record" =>
          /\ Marker(w.about)
          /\ SessionOf[w.about] = Serves[c]
          /\ TextOf[w.about] = h.text

\* Rows told of are no row that is still to be inserted.
ToldOK(t, win, S) ==
    /\ S \subseteq Given(t)
    /\ \A d \in Caller : Pending(win[d]) => win[d].about \notin S

\* The inductive invariant of the handlers.
HookInv ==
    /\ MemInv
    /\ handler = [c \in Caller |-> handler[c]]
    /\ \A c \in Caller : HandlerOK(c, handler[c], window[c])
    /\ \A c \in Caller : ToldOK(db, window, handler[c].told)
    /\ given.own \cap given.rows = {}

\* Only the handler of c moves.
HandlerMoves(c) ==
    /\ handler' = [d \in Caller |-> handler'[d]]
    /\ \A d \in Caller \ {c} : handler'[d] = handler[d]

\* Rows that were told of stay given: none was pending, so none is taken back.
LEMMA ToldKept ==
    ASSUME NEW c \in Caller, Framed(c), NEW S, ToldOK(db, window, S)
    PROVE  ToldOK(db', window', S)
<1>1. S \subseteq Given(db')
  <2>1. Pending(window[c]) => window[c].about \notin S
    BY DEF ToldOK
  <2>2. Given(db) \subseteq Given(db') \cup (IF Pending(window[c]) THEN {window[c].about} ELSE {})
    BY DEF Framed
  <2>3. QED
    BY <2>1, <2>2 DEF ToldOK
<1>2. ASSUME NEW d \in Caller, Pending(window'[d]) PROVE window'[d].about \notin S
  <2>1. CASE d = c
    <3>1. \/ window'[c].op = window[c].op /\ window'[c].about = window[c].about
          \/ window'[c].about \notin Given(db)
      BY <1>2, <2>1 DEF Framed
    <3>2. QED
      BY <1>2, <2>1, <3>1 DEF ToldOK, Pending
  <2>2. CASE d # c
    <3>1. window'[d].op = window[d].op /\ window'[d].about = window[d].about
      BY <2>2 DEF Framed
    <3>2. QED
      BY <1>2, <3>1 DEF ToldOK, Pending
  <2>3. QED
    BY <2>1, <2>2
<1>3. QED
  BY <1>1, <1>2 DEF ToldOK

\* Rows that are there are given, and none of them is pending.
LEMMA RowsTold ==
    ASSUME MemInv, NEW S, S \subseteq db.rows
    PROVE  ToldOK(db, window, S)
<1>1. S \subseteq Given(db)
  BY DEF MemInv, TablesOK, Numbered
<1>2. \A d \in Caller : Pending(window[d]) => window[d].about \notin db.rows
  BY OwnRow DEF FreshIn
<1>3. QED
  BY <1>1, <1>2 DEF ToldOK

\* A step that moves the handler and the call of c alone keeps the invariant.
LEMMA HandlerStep ==
    ASSUME HookInv, NEW c \in Caller, Framed(c), HandlerMoves(c),
           HandlerOK(c, handler'[c], window'[c]),
           handler'[c].told = handler[c].told \/ ToldOK(db', window', handler'[c].told),
           given'.own \cap given'.rows = {}
    PROVE  HookInv'
<1>1. MemInv'
  BY DEF Framed
<1>2. ASSUME NEW d \in Caller PROVE HandlerOK(d, handler'[d], window'[d])
  <2>1. CASE d # c
    <3>1. handler'[d] = handler[d] /\ window'[d].op = window[d].op /\ window'[d].about = window[d].about
      BY <2>1 DEF Framed, HandlerMoves
    <3>2. HandlerOK(d, handler[d], window[d])
      BY DEF HookInv
    <3>3. QED
      BY <3>1, <3>2 DEF HandlerOK
  <2>2. QED
    BY <2>1
<1>3. ASSUME NEW d \in Caller PROVE ToldOK(db', window', handler'[d].told)
  <2>1. ToldOK(db', window', handler[d].told)
    BY ToldKept DEF HookInv
  <2>2. CASE d = c
    BY <2>1, <2>2
  <2>3. CASE d # c
    BY <2>1, <2>3 DEF HandlerMoves
  <2>4. QED
    BY <2>2, <2>3
<1>4. QED
  BY <1>1, <1>2, <1>3 DEF HookInv, HandlerMoves

\* A handler that has calls to make runs for an event.
LEMMA Working ==
    ASSUME HookInv, NEW c \in Caller, handler[c].todo # <<>>
    PROVE  handler[c].event \in Handled /\ handler[c].todo \in Left(handler[c].event)
<1>1. handler[c].event \in Handled \cup {"none"} /\ handler[c].todo \in Left(handler[c].event)
  BY DEF HookInv, HandlerOK
<1>2. handler[c].event # "none"
  BY <1>1 DEF Left
<1>3. QED
  BY <1>1, <1>2

\* The handler of c goes on with the calls todo.
LeftWith(c, todo) == handler' = [handler EXCEPT ![c].todo = todo]

\* A call that inserts a marker is under way.
Injects(w, todo) == w.op = "record" /\ todo = <<"inject">>

\* It then has fewer calls to make, and nothing else about it changes.
LEMMA GoesOn ==
    ASSUME HookInv, NEW c \in Caller, NEW todo, LeftWith(c, todo),
           todo \in Left(handler[c].event), handler[c].todo \in Last => todo \in Last,
           NEW w, ~Injects(w, todo)
    PROVE  /\ HandlerMoves(c)
           /\ HandlerOK(c, handler'[c], w)
           /\ handler'[c].told = handler[c].told
           /\ handler'[c].event = handler[c].event
<1>1. HandlerMoves(c) /\ handler'[c] = [handler[c] EXCEPT !.todo = todo]
  BY DEF HookInv, HandlerMoves, LeftWith
<1>2. HandlerOK(c, handler[c], window[c])
  BY DEF HookInv
<1> DEFINE h == handler[c]
<1>3. handler'[c] = [event |-> h.event, text |-> h.text, todo |-> todo, told |-> h.told, own |-> h.own]
  <2>1. h = [event |-> h.event, text |-> h.text, todo |-> h.todo, told |-> h.told, own |-> h.own]
    BY <1>2 DEF HandlerOK
  <2> HIDE DEF h
  <2>2. [h EXCEPT !.todo = todo] = [event |-> h.event, text |-> h.text, todo |-> todo, told |-> h.told, own |-> h.own]
    BY <2>1
  <2>3. QED
    BY <1>1, <2>2 DEF h
<1> HIDE DEF h
<1>4. HandlerOK(c, h, window[c])
  BY <1>2 DEF h
<1>5. todo \in Left(h.event) /\ (h.todo \in Last => todo \in Last)
  BY DEF h
<1>6. HandlerOK(c, handler'[c], w)
  BY <1>3, <1>4, <1>5 DEF HandlerOK, Injects
<1>7. QED
  BY <1>1, <1>3, <1>6 DEF h

\* A call that is done leaves the handler sound.
LEMMA DoneOK ==
    ASSUME HookInv, NEW c \in Caller, handler[c].todo # <<>>, handler' = Done(c), NEW w, w.op # "record"
    PROVE  /\ HandlerMoves(c)
           /\ HandlerOK(c, handler'[c], w)
           /\ handler'[c].told = handler[c].told
<1>1. handler[c].event \in Handled /\ handler[c].todo \in Left(handler[c].event)
  BY Working
<1>2. Tail(handler[c].todo) \in Left(handler[c].event)
  BY <1>1, TailLeft
<1>3. handler[c].todo \in Last => Tail(handler[c].todo) \in Last
  BY Tails DEF Last
<1>4. LeftWith(c, Tail(handler[c].todo))
  BY DEF Done, LeftWith
<1>5. ~Injects(w, Tail(handler[c].todo))
  BY DEF Injects
<1>6. QED
  BY <1>2, <1>3, <1>4, <1>5, GoesOn

\* So does a call that raised.
LEMMA RestOK ==
    ASSUME HookInv, NEW c \in Caller, handler[c].todo # <<>>,
           handler' = [handler EXCEPT ![c].todo = Rest(handler[c])], NEW w, w.op # "record"
    PROVE  /\ HandlerMoves(c)
           /\ HandlerOK(c, handler'[c], w)
           /\ handler'[c].told = handler[c].told
<1>1. handler[c].event \in Handled /\ handler[c].todo \in Left(handler[c].event)
  BY Working
<1>2. Rest(handler[c]) \in Left(handler[c].event) /\ (handler[c].todo \in Last => Rest(handler[c]) \in Last)
  BY <1>1, RestLeft
<1>3. LeftWith(c, Rest(handler[c]))
  BY DEF LeftWith
<1>4. ~Injects(w, Rest(handler[c]))
  BY DEF Injects
<1>5. QED
  BY <1>2, <1>3, <1>4, GoesOn

\* A context that is given in this step to a prompt was not given before.
OnceNow ==
    given' # given /\ handler[given'.by].event = "prompt-context" =>
        ~\E m \in db.rows : /\ Marker(m)
                            /\ SessionOf[m] = Serves[given'.by]
                            /\ TextOf[m] = given'.text

\* A step keeps the invariant and does what the action properties say.
HookNow == HookInv' /\ OnceNow

\* So does one that begins a call, where a marker is of this request.
LEMMA SameHandler ==
    ASSUME HookInv, NEW c \in Caller, Framed(c), UNCHANGED <<handler, given>>,
           handler[c].todo # <<>>,
           handler[c].todo = <<"inject">> /\ window'[c].op = "record" =>
               /\ Marker(window'[c].about)
               /\ SessionOf[window'[c].about] = Serves[c]
               /\ TextOf[window'[c].about] = handler[c].text
    PROVE  HookNow
<1>1. HandlerOK(c, handler[c], window[c])
  BY DEF HookInv
<1>2. HandlerOK(c, handler'[c], window'[c])
  BY <1>1 DEF HandlerOK
<1>3. HandlerMoves(c)
  BY DEF HookInv, HandlerMoves
<1>4. HookInv'
  BY <1>2, <1>3, HandlerStep DEF HookInv
<1>5. QED
  BY <1>4 DEF HookNow, OnceNow, Framed

\* So does one that moves the handler of c and gives nothing.
LEMMA NewHandler ==
    ASSUME HookInv, NEW c \in Caller, Framed(c), HandlerMoves(c),
           HandlerOK(c, handler'[c], window'[c]),
           handler'[c].told = handler[c].told \/ ToldOK(db', window', handler'[c].told),
           given' = given
    PROVE  HookNow
<1>1. HookInv'
  BY HandlerStep DEF HookInv
<1>2. QED
  BY <1>1 DEF HookNow, OnceNow, Framed

\* A call of c ends that was under way, or did nothing.
LEMMA CallEnds ==
    ASSUME HookInv, NEW c \in Caller, Framed(c), window'[c].op # "record", handler[c].todo # <<>>,
           \/ handler' = Done(c)
           \/ handler' = [handler EXCEPT ![c].todo = Rest(handler[c])]
           \/ handler' = [handler EXCEPT ![c] = Idle],
           given' = given
    PROVE  HookNow
<1>1. CASE handler' = Done(c)
  <2>1. /\ HandlerMoves(c) /\ HandlerOK(c, handler'[c], window'[c])
        /\ handler'[c].told = handler[c].told
    BY <1>1, DoneOK
  <2>2. QED
    BY <2>1, NewHandler
<1>2. CASE handler' = [handler EXCEPT ![c].todo = Rest(handler[c])]
  <2>1. /\ HandlerMoves(c) /\ HandlerOK(c, handler'[c], window'[c])
        /\ handler'[c].told = handler[c].told
    BY <1>2, RestOK
  <2>2. QED
    BY <2>1, NewHandler
<1>3. CASE handler' = [handler EXCEPT ![c] = Idle]
  <2>1. HandlerMoves(c) /\ handler'[c] = Idle
    BY <1>3 DEF HookInv, HandlerMoves
  <2>2. HandlerOK(c, Idle, window'[c])
    BY DEF HandlerOK, Idle, Left, Last
  <2>3. ToldOK(db', window', Idle.told)
    BY DEF ToldOK, Idle
  <2>4. QED
    BY <2>1, <2>2, <2>3, NewHandler
<1>4. QED
  BY <1>1, <1>2, <1>3

\* A caller outside any call inserts nothing.
LEMMA OutsideCall ==
    ASSUME NEW c \in Caller, InCall(c, "outside")
    PROVE  window[c].op = "outside" /\ window[c].op # "record"
BY DEF InCall

\* Nor does one whose call has ended.
LEMMA EndsOutside ==
    Outside.op = "outside" /\ Outside.op # "record"
BY DEF Outside

\* Giving the context is the last call of its handler.
LEMMA OnlyInject ==
    ASSUME HookInv, NEW c \in Caller, handler[c].todo # <<>>, Head(handler[c].todo) = "inject"
    PROVE  handler[c].todo = <<"inject">>
BY Working, TailLeft

\* BeginRecord and EndRecord.
LEMMA RecordNow ==
    ASSUME HookInv, NEW c \in Caller, BeginRecord(c) \/ EndRecord(c)
    PROVE  HookNow
<1>0. MemInv /\ handler[c].todo # <<>> /\ Head(handler[c].todo) = "record"
  BY DEF HookInv, BeginRecord, EndRecord, ToDo
<1>1. CASE BeginRecord(c)
  <2>1. PICK o \in Observation : BuildRecord(c, o)
    BY <1>1 DEF BeginRecord
  <2>2. Framed(c)
    BY <1>0, <2>1, FramedBuild
  <2>3. UNCHANGED <<handler, given>>
    BY <1>1 DEF BeginRecord
  <2>4. QED
    BY <1>0, <2>2, <2>3, SameHandler, Heads
<1>2. CASE EndRecord(c)
  <2>1. Framed(c) /\ window'[c] = Outside
    BY <1>0, <1>2, FramedEnd DEF EndRecord
  <2>2. QED
    BY <1>0, <1>2, <2>1, CallEnds, EndsOutside DEF EndRecord
<1>3. QED
  BY <1>1, <1>2

\* BeginCapture, EndCapture and NothingRecovered.
LEMMA CaptureNow ==
    ASSUME HookInv, NEW c \in Caller, BeginCapture(c) \/ EndCapture(c) \/ NothingRecovered(c)
    PROVE  HookNow
<1>0. MemInv /\ handler[c].todo # <<>> /\ Head(handler[c].todo) = "capture"
  BY DEF HookInv, BeginCapture, EndCapture, NothingRecovered, ToDo
<1>1. CASE BeginCapture(c)
  <2>1. PICK o \in Observation : ReadTree(c, o)
    BY <1>1 DEF BeginCapture
  <2>2. Framed(c)
    BY <1>0, <2>1, FramedTree
  <2>3. UNCHANGED <<handler, given>>
    BY <1>1 DEF BeginCapture
  <2>4. QED
    BY <1>0, <2>2, <2>3, SameHandler, Heads
<1>2. CASE EndCapture(c)
  <2>1. Framed(c) /\ window'[c].op # "record"
    <3>1. CASE UpsertSnapshot(c)
      BY <1>0, <3>1, FramedEnd, EndsOutside
    <3>2. CASE InCall(c, "outside") /\ UNCHANGED passiveVars
      BY <1>0, <3>2, FramedIdle, OutsideCall
    <3>3. QED
      BY <1>2, <3>1, <3>2 DEF EndCapture
  <2>2. QED
    BY <1>0, <1>2, <2>1, CallEnds DEF EndCapture
<1>3. CASE NothingRecovered(c)
  <2>1. Framed(c) /\ window'[c].op # "record"
    BY <1>0, <1>3, FramedIdle, OutsideCall DEF NothingRecovered
  <2>2. QED
    BY <1>0, <1>3, <2>1, CallEnds DEF NothingRecovered
<1>4. QED
  BY <1>1, <1>2, <1>3

\* BeginCapsule and EndCapsule.
LEMMA CapsuleNow ==
    ASSUME HookInv, NEW c \in Caller, BeginCapsule(c) \/ EndCapsule(c)
    PROVE  HookNow
<1>0. MemInv /\ handler[c].todo # <<>> /\ Head(handler[c].todo) = "capsule"
  BY DEF HookInv, BeginCapsule, EndCapsule, ToDo
<1>1. CASE BeginCapsule(c)
  <2>1. Framed(c) /\ UNCHANGED <<handler, given>>
    BY <1>0, <1>1, FramedRead DEF BeginCapsule
  <2>2. QED
    BY <1>0, <2>1, SameHandler, Heads
<1>2. CASE EndCapsule(c)
  <2>1. Framed(c) /\ window'[c].op # "record"
    <3>1. CASE \E k \in Observation : RecordCapsule(c, k)
      BY <1>0, <3>1, FramedCapsule, EndsOutside
    <3>2. CASE AbandonCapsule(c)
      BY <1>0, <3>2, FramedGone, EndsOutside
    <3>3. CASE InCall(c, "outside") /\ UNCHANGED passiveVars
      BY <1>0, <3>3, FramedIdle, OutsideCall
    <3>4. QED
      BY <1>2, <3>1, <3>2, <3>3 DEF EndCapsule
  <2>2. QED
    BY <1>0, <1>2, <2>1, CallEnds DEF EndCapsule
<1>3. QED
  BY <1>1, <1>2

\* The steps that end a call without storing anything.
LEMMA LeaveNow ==
    ASSUME HookInv, NEW c \in Caller,
           Reset(c) \/ Suppressed(c) \/ NothingToInject(c) \/ Raise(c) \/ Killed(c)
    PROVE  HookNow
<1>0. MemInv /\ handler[c].todo # <<>>
  BY DEF HookInv, Reset, Suppressed, NothingToInject, Raise, Killed, ToDo
<1>1. CASE Reset(c)
  <2>1. Framed(c) /\ window'[c] = Outside
    BY <1>0, <1>1, FramedReset DEF Reset
  <2>2. QED
    BY <1>0, <1>1, <2>1, CallEnds, EndsOutside DEF Reset
<1>2. CASE Suppressed(c)
  <2>1. Framed(c) /\ window'[c].op # "record"
    BY <1>0, <1>2, FramedIdle, OutsideCall DEF Suppressed
  <2>2. QED
    BY <1>0, <1>2, <2>1, CallEnds DEF Suppressed
<1>3. CASE Raise(c) \/ Killed(c)
  <2>1. Framed(c) /\ window'[c].op # "record"
    <3>1. CASE Die(c)
      BY <1>0, <3>1, FramedGone, EndsOutside
    <3>2. CASE InCall(c, "outside") /\ UNCHANGED passiveVars
      BY <1>0, <3>2, FramedIdle, OutsideCall
    <3>3. QED
      BY <1>3, <3>1, <3>2 DEF Raise, Killed
  <2>2. QED
    BY <1>0, <1>3, <2>1, CallEnds DEF Raise, Killed
<1>4. CASE NothingToInject(c)
  <2>1. Framed(c) /\ window'[c] = window[c] /\ handler' = Done(c) /\ given' = given
    BY <1>0, <1>4, FramedIdle DEF NothingToInject
  <2>2. handler[c].todo = <<"inject">>
    BY <1>0, <1>4, OnlyInject DEF NothingToInject, ToDo
  <2> DEFINE rest == Tail(handler[c].todo)
  <2>3. rest \in Left(handler[c].event) /\ rest \in Last /\ rest # <<"inject">>
    BY <1>0, <2>2, Working, TailLeft, Tails DEF Last
  <2>6. LeftWith(c, rest)
    BY <2>1 DEF Done, LeftWith
  <2> HIDE DEF rest
  <2>7. /\ rest \in Left(handler[c].event) /\ (handler[c].todo \in Last => rest \in Last)
        /\ ~Injects(window'[c], rest)
    BY <2>3 DEF Injects
  <2>4. HandlerMoves(c) /\ HandlerOK(c, handler'[c], window'[c]) /\ handler'[c].told = handler[c].told
    BY <2>6, <2>7, GoesOn
  <2>5. QED
    BY <2>1, <2>4, NewHandler
<1>5. QED
  BY <1>1, <1>2, <1>3, <1>4

\* The handler of c notes what it stored, or is told of rows, as its call ends.
LEMMA OwnIs ==
    ASSUME HookInv, NEW c \in Caller, NEW own, handler' = [Done(c) EXCEPT ![c].own = own]
    PROVE  /\ HandlerMoves(c)
           /\ handler'[c] = [event |-> handler[c].event, text |-> handler[c].text,
                             todo |-> Tail(handler[c].todo), told |-> handler[c].told, own |-> own]
<1> DEFINE h == handler[c]
           rest == Tail(h.todo)
           d == Done(c)
<1>1. h = [event |-> h.event, text |-> h.text, todo |-> h.todo, told |-> h.told, own |-> h.own]
  BY DEF HookInv, HandlerOK
<1>2. /\ d = [b \in Caller |-> d[b]] /\ d[c] = [h EXCEPT !.todo = rest]
      /\ \A b \in Caller \ {c} : d[b] = handler[b]
  BY DEF Done, HookInv
<1>3. handler' = [d EXCEPT ![c].own = own]
  OBVIOUS
<1> HIDE DEF h, rest, d
<1>4. [h EXCEPT !.todo = rest] = [event |-> h.event, text |-> h.text, todo |-> rest, told |-> h.told, own |-> h.own]
  BY <1>1
<1>5. d[c] = [event |-> h.event, text |-> h.text, todo |-> rest, told |-> h.told, own |-> h.own]
  BY <1>2, <1>4
<1>6. /\ handler' = [b \in Caller |-> handler'[b]] /\ handler'[c] = [d[c] EXCEPT !.own = own]
      /\ \A b \in Caller \ {c} : handler'[b] = d[b]
  BY <1>2, <1>3
<1>7. handler'[c] = [event |-> h.event, text |-> h.text, todo |-> rest, told |-> h.told, own |-> own]
  <2> DEFINE x == d[c]
  <2>1. x = [event |-> h.event, text |-> h.text, todo |-> rest, told |-> h.told, own |-> h.own] /\ handler'[c] = [x EXCEPT !.own = own]
    BY <1>5, <1>6
  <2> HIDE DEF x
  <2>2. QED
    BY <2>1
<1>8. HandlerMoves(c)
  BY <1>2, <1>6 DEF HandlerMoves
<1>9. QED
  BY <1>7, <1>8 DEF h, rest

\* The handler that is told of rows as its call ends.
LEMMA ToldIs ==
    ASSUME HookInv, NEW c \in Caller, NEW told, handler' = [Done(c) EXCEPT ![c].told = told]
    PROVE  /\ HandlerMoves(c)
           /\ handler'[c] = [event |-> handler[c].event, text |-> handler[c].text,
                             todo |-> Tail(handler[c].todo), told |-> told, own |-> handler[c].own]
<1> DEFINE h == handler[c]
           rest == Tail(h.todo)
           d == Done(c)
<1>1. h = [event |-> h.event, text |-> h.text, todo |-> h.todo, told |-> h.told, own |-> h.own]
  BY DEF HookInv, HandlerOK
<1>2. /\ d = [b \in Caller |-> d[b]] /\ d[c] = [h EXCEPT !.todo = rest]
      /\ \A b \in Caller \ {c} : d[b] = handler[b]
  BY DEF Done, HookInv
<1>3. handler' = [d EXCEPT ![c].told = told]
  OBVIOUS
<1> HIDE DEF h, rest, d
<1>4. [h EXCEPT !.todo = rest] = [event |-> h.event, text |-> h.text, todo |-> rest, told |-> h.told, own |-> h.own]
  BY <1>1
<1>5. d[c] = [event |-> h.event, text |-> h.text, todo |-> rest, told |-> h.told, own |-> h.own]
  BY <1>2, <1>4
<1>6. /\ handler' = [b \in Caller |-> handler'[b]] /\ handler'[c] = [d[c] EXCEPT !.told = told]
      /\ \A b \in Caller \ {c} : handler'[b] = d[b]
  BY <1>2, <1>3
<1>7. handler'[c] = [event |-> h.event, text |-> h.text, todo |-> rest, told |-> told, own |-> h.own]
  <2> DEFINE x == d[c]
  <2>1. x = [event |-> h.event, text |-> h.text, todo |-> rest, told |-> h.told, own |-> h.own] /\ handler'[c] = [x EXCEPT !.told = told]
    BY <1>5, <1>6
  <2> HIDE DEF x
  <2>2. QED
    BY <2>1
<1>8. HandlerMoves(c)
  BY <1>2, <1>6 DEF HandlerMoves
<1>9. QED
  BY <1>7, <1>8 DEF h, rest

\* BeginUnique and EndUnique: what is stored of a prompt was not told.
LEMMA UniqueNow ==
    ASSUME HookInv, NEW c \in Caller, BeginUnique(c) \/ EndUnique(c)
    PROVE  HookNow
<1>0. MemInv /\ handler[c].todo # <<>> /\ Head(handler[c].todo) \in {"intent", "note"}
  BY DEF HookInv, BeginUnique, EndUnique, ToDo
<1>1. CASE BeginUnique(c)
  <2>1. PICK o \in Observation : BuildRecord(c, o)
    BY <1>1 DEF BeginUnique
  <2>2. Framed(c)
    BY <1>0, <2>1, FramedBuild
  <2>3. UNCHANGED <<handler, given>>
    BY <1>1 DEF BeginUnique
  <2>4. QED
    BY <1>0, <2>2, <2>3, SameHandler, Heads
<1>2. CASE EndUnique(c)
  <2>1. Framed(c) /\ window'[c] = Outside /\ Pending(window[c])
    BY <1>0, <1>2, FramedEnd DEF EndUnique
  <2> DEFINE own == IF AlreadyThere(db, window[c].about) THEN {} ELSE {window[c].about}
  <2>2. handler' = [Done(c) EXCEPT ![c].own = own] /\ given' = given
    BY <1>2 DEF EndUnique
  <2>3. own \cap handler[c].told = {}
    BY <2>1 DEF HookInv, ToldOK
  <2> HIDE DEF own
  <2>4. /\ HandlerMoves(c)
        /\ handler'[c] = [event |-> handler[c].event, text |-> handler[c].text,
                          todo |-> Tail(handler[c].todo), told |-> handler[c].told, own |-> own]
    BY <2>2, OwnIs
  <2>5. /\ handler[c].event \in Handled
        /\ Tail(handler[c].todo) \in Left(handler[c].event)
        /\ Tail(handler[c].todo) \in Last
    BY <1>0, Working, TailLeft
  <2>6. HandlerOK(c, handler'[c], window'[c])
    BY <2>1, <2>3, <2>4, <2>5, EndsOutside DEF HandlerOK
  <2>7. handler'[c].told = handler[c].told
    BY <2>4
  <2>8. QED
    BY <2>1, <2>2, <2>4, <2>6, <2>7, NewHandler
<1>3. QED
  BY <1>1, <1>2

\* Recover: nothing of the prompt is stored yet.
LEMMA RecoverNow ==
    ASSUME HookInv, NEW c \in Caller, Recover(c)
    PROVE  HookNow
<1>0. MemInv /\ handler[c].todo # <<>> /\ Head(handler[c].todo) = "read"
  BY DEF HookInv, Recover, ToDo
<1> DEFINE told == Newest(db, {o \in db.rows : Eligible(db, o)}, MaxItems)
<1>1. handler' = [Done(c) EXCEPT ![c].told = told] /\ given' = given /\ UNCHANGED passiveVars
  BY DEF Recover
<1>2. told \subseteq db.rows
  BY DEF Newest
<1> HIDE DEF told
<1>3. Framed(c) /\ window' = window /\ db' = db
  BY <1>0, <1>1, FramedIdle DEF passiveVars
<1>4. ToldOK(db, window, told)
  BY <1>0, <1>2, RowsTold
<1>5. /\ HandlerMoves(c)
      /\ handler'[c] = [event |-> handler[c].event, text |-> handler[c].text,
                        todo |-> Tail(handler[c].todo), told |-> told, own |-> handler[c].own]
  BY <1>1, ToldIs
<1>6. /\ handler[c].event \in Handled
      /\ Tail(handler[c].todo) \in Left(handler[c].event)
      /\ Tail(handler[c].todo) # <<"inject">>
      /\ handler[c].todo \notin Last
  BY <1>0, Working, TailLeft
<1>7. handler[c].own = {}
  BY <1>6 DEF HookInv, HandlerOK
<1>8. HandlerOK(c, handler'[c], window'[c])
  BY <1>5, <1>6, <1>7 DEF HandlerOK
<1>9. ToldOK(db', window', handler'[c].told)
  BY <1>3, <1>4, <1>5
<1>10. QED
  BY <1>1, <1>3, <1>5, <1>8, <1>9, NewHandler

\* What a handler gives was told to it, and is none of its own.
LEMMA GiveOK ==
    ASSUME HookInv, NEW c \in Caller, Give(c)
    PROVE  /\ given'.own \cap given'.rows = {}
           /\ given'.by = c /\ given'.text = handler[c].text
BY DEF Give, HookInv, HandlerOK

\* Show: never to a prompt.
LEMMA ShowNow ==
    ASSUME HookInv, NEW c \in Caller, Show(c)
    PROVE  HookNow
<1>0. MemInv /\ handler[c].todo # <<>> /\ Head(handler[c].todo) = "show" /\ Give(c)
  BY DEF HookInv, Show, ToDo
<1>1. Framed(c) /\ window'[c] = window[c] /\ handler' = Done(c)
  BY <1>0, FramedIdle DEF Show
<1>2. /\ handler[c].event # "prompt-context"
      /\ handler[c].event \in Handled
      /\ Tail(handler[c].todo) \in Left(handler[c].event)
      /\ handler[c].todo = <<"show">>
  BY <1>0, Working, TailLeft
<1> DEFINE rest == Tail(handler[c].todo)
<1>3. rest \in Left(handler[c].event) /\ (handler[c].todo \in Last => rest \in Last) /\ ~Injects(window'[c], rest)
  BY <1>2, Tails DEF Last, Injects
<1>4. LeftWith(c, rest)
  BY <1>1 DEF Done, LeftWith
<1> HIDE DEF rest
<1>5. HandlerMoves(c) /\ HandlerOK(c, handler'[c], window'[c]) /\ handler'[c].told = handler[c].told
  BY <1>3, <1>4, GoesOn
<1>6. given'.own \cap given'.rows = {} /\ given'.by = c
  BY <1>0, GiveOK
<1>7. HookInv'
  BY <1>1, <1>5, <1>6, HandlerStep
<1>8. QED
  BY <1>1, <1>2, <1>6, <1>7 DEF HookNow, OnceNow, Framed

\* BeginInject and EndInject: no other marker of this request was there.
LEMMA InjectNow ==
    ASSUME HookInv, NEW c \in Caller, BeginInject(c) \/ EndInject(c)
    PROVE  HookNow
<1>0. MemInv /\ handler[c].todo # <<>> /\ handler[c].todo = <<"inject">>
  BY OnlyInject DEF HookInv, BeginInject, EndInject, ToDo
<1>1. CASE BeginInject(c)
  <2>1. PICK o \in Observation : /\ OfSession(c, o) /\ Marker(o) /\ TextOf[o] = handler[c].text
                                 /\ BuildRecord(c, o)
    BY <1>1 DEF BeginInject
  <2>2. Framed(c) /\ window'[c].about = o
    BY <1>0, <2>1, FramedBuild
  <2>3. UNCHANGED <<handler, given>>
    BY <1>1 DEF BeginInject
  <2>4. QED
    BY <1>0, <2>1, <2>2, <2>3, SameHandler DEF OfSession
<1>2. CASE EndInject(c)
  <2>1. Framed(c) /\ window'[c] = Outside /\ Pending(window[c]) /\ handler' = Done(c) /\ window[c].op = "record"
    BY <1>0, <1>2, FramedEnd DEF EndInject, InsertUnique, Inserting, InCall
  <2> DEFINE o == window[c].about
  <2>2. /\ Marker(o) /\ SessionOf[o] = Serves[c] /\ TextOf[o] = handler[c].text
    BY <1>0, <2>1 DEF HookInv, HandlerOK
  <2>3. CASE AlreadyThere(db, o)
    <3>1. given' = given
      BY <1>2, <2>3 DEF EndInject
    <3>2. QED
      BY <1>0, <2>1, <3>1, CallEnds, EndsOutside
  <2>4. CASE ~AlreadyThere(db, o)
    <3>1. Give(c)
      BY <1>2, <2>4 DEF EndInject
    <3>2. given'.own \cap given'.rows = {} /\ given'.by = c /\ given'.text = handler[c].text
      BY <3>1, GiveOK
    <3>3. window'[c].op # "record"
      BY <2>1, EndsOutside
    <3>4. /\ HandlerMoves(c) /\ HandlerOK(c, handler'[c], window'[c])
          /\ handler'[c].told = handler[c].told
      BY <1>0, <2>1, <3>3, DoneOK
    <3>5. HookInv'
      BY <2>1, <3>2, <3>4, HandlerStep
    <3>6. ASSUME NEW m \in db.rows, Marker(m), SessionOf[m] = Serves[c], TextOf[m] = handler[c].text
          PROVE  FALSE
      <4>1. SameKey(o, m)
        BY <2>2, <3>6 DEF SameKey, Marker
      <4>2. QED
        BY <2>4, <4>1 DEF AlreadyThere
    <3>7. OnceNow
      BY <3>2, <3>6 DEF OnceNow
    <3>8. QED
      BY <2>1, <3>5, <3>7 DEF HookNow, Framed
  <2>5. QED
    BY <2>3, <2>4
<1>3. QED
  BY <1>1, <1>2

\* Begin: a handler with nothing told, and no marker first.
LEMMA BeginNow ==
    ASSUME HookInv, NEW c \in Caller, NEW event \in Handled, NEW t, Begin(c, event, t)
    PROVE  HookNow
<1>1. Framed(c)
  BY FramedIdle DEF HookInv, Begin
<1> DEFINE h == [event |-> event, text |-> t, todo |-> Calls(event), told |-> {}, own |-> {}]
<1>2. handler' = [handler EXCEPT ![c] = h] /\ given' = given
  BY DEF Begin
<1>3. h.event = event /\ h.text = t /\ h.todo = Calls(event) /\ h.told = {} /\ h.own = {}
  OBVIOUS
<1>4. HandlerOK(c, h, window'[c])
  BY <1>3, CallsLeft DEF HandlerOK
<1>5. ToldOK(db', window', h.told)
  BY <1>3 DEF ToldOK
<1> HIDE DEF h
<1>6. HandlerMoves(c) /\ handler'[c] = h
  BY <1>2 DEF HookInv, HandlerMoves
<1>7. QED
  BY <1>1, <1>2, <1>4, <1>5, <1>6, NewHandler

\* A step that leaves the tables, the calls and the handlers alone.
LEMMA AsideNow ==
    ASSUME HookInv, UNCHANGED <<db, index, window, now, copies, forgotten, handler, given>>
    PROVE  HookNow
<1>1. MemInv'
  BY EditStep DEF HookInv
<1>2. HookInv'
  BY <1>1 DEF HookInv
<1>3. QED
  BY <1>2 DEF HookNow, OnceNow

\* Every step of the handlers keeps the invariant and does what the action properties say.
LEMMA HookMoves ==
    ASSUME HookInv, [HookNext]_hookVars
    PROVE  HookNow
<1>1. CASE \E c \in Caller, event \in Handled, t \in Text \cup {None} : Begin(c, event, t)
  BY <1>1, BeginNow
<1>2. ASSUME NEW c \in Caller, HookCall(c) \/ EndCapture(c) PROVE HookNow
  BY <1>2, RecordNow, UniqueNow, CaptureNow, RecoverNow, ShowNow, InjectNow, CapsuleNow, LeaveNow
     DEF HookCall
<1>3. CASE Pause
  BY <1>3, AsideNow DEF Pause, passiveVars
<1>4. CASE \E t \in Tree : Edit(t) /\ UNCHANGED <<paused, handler, given, begun, lastTold>>
  BY <1>4, AsideNow DEF Edit
<1>5. CASE UNCHANGED hookVars
  BY <1>5, AsideNow DEF hookVars, passiveVars
<1>6. QED
  BY <1>1, <1>2, <1>3, <1>4, <1>5 DEF HookNext

\* The invariant holds at first.
LEMMA HookStart == HookInit => HookInv
<1> SUFFICES ASSUME HookInit PROVE HookInv
  OBVIOUS
<1>1. /\ MemInv /\ handler = [c \in Caller |-> Idle] /\ given = NothingGiven
      /\ window = [c \in Caller |-> Outside]
  BY MemInit DEF HookInit, PassiveInit
<1>2. ASSUME NEW c \in Caller PROVE HandlerOK(c, Idle, Outside)
  BY DEF HandlerOK, Idle, Outside, Left, Last
<1>3. ToldOK(db, window, Idle.told)
  BY DEF ToldOK, Idle
<1>4. given.own \cap given.rows = {}
  BY <1>1 DEF NothingGiven
<1>5. handler = [c \in Caller |-> handler[c]] /\ \A c \in Caller : handler[c] = Idle /\ window[c] = Outside
  BY <1>1
<1>6. QED
  BY <1>1, <1>2, <1>3, <1>4, <1>5 DEF HookInv

\* A handler makes its calls in their order, tells of rows that were there, and
\* keeps what it stored of its prompt apart from them (lifecycle.py, coding_mcp.py).
THEOREM HandlersSound == HookSpec => []HookInv
<1>1. HookInit => HookInv
  BY HookStart
<1>2. HookInv /\ [HookNext]_hookVars => HookInv'
  BY HookMoves DEF HookNow
<1>3. QED
  BY <1>1, <1>2, PTL DEF HookSpec

\* What a handler stores of a prompt it does not tell as history of that prompt.
THEOREM OwnPromptUntold == HookSpec => []OwnPromptNotHistory
<1>1. HookInv => OwnPromptNotHistory
  BY DEF HookInv, OwnPromptNotHistory
<1>2. QED
  BY <1>1, HandlersSound, PTL

\* The context of a request is given by one of the hooks that ask at once.
THEOREM OneContext == HookSpec => ContextGivenOnce
<1>1. HookInv /\ [HookNext]_hookVars
        => [given' # given /\ handler[given'.by].event = "prompt-context" =>
              ~\E m \in db.rows : /\ Marker(m)
                                  /\ SessionOf[m] = Serves[given'.by]
                                  /\ TextOf[m] = given'.text]_hookVars
  BY HookMoves DEF HookNow, OnceNow
<1>2. QED
  BY <1>1, HandlersSound, PTL DEF HookSpec, ContextGivenOnce

(* What is told of the working tree. *)

\* A call of a handler that ends no capture leaves the tree and its stored state alone.
LEMMA CallStays ==
    ASSUME NEW c \in Caller, HookCall(c) PROVE UNCHANGED <<snapshot, tree>>
<1>1. CASE BeginRecord(c) \/ EndRecord(c)
  BY <1>1 DEF BeginRecord, EndRecord, BuildRecord, InsertObservation
<1>2. CASE BeginUnique(c) \/ EndUnique(c) \/ BeginInject(c) \/ EndInject(c)
  BY <1>2 DEF BeginUnique, EndUnique, BeginInject, EndInject, BuildRecord, InsertUnique
<1>3. CASE BeginCapture(c) \/ Reset(c)
  BY <1>3 DEF BeginCapture, Reset, ReadTree, ResetMarker
<1>4. CASE BeginCapsule(c) \/ EndCapsule(c)
  BY <1>4 DEF BeginCapsule, EndCapsule, ReadSession, RecordCapsule, AbandonCapsule, passiveVars
<1>5. CASE Suppressed(c) \/ Recover(c) \/ NothingRecovered(c) \/ Show(c) \/ NothingToInject(c)
  BY <1>5 DEF Suppressed, Recover, NothingRecovered, Show, NothingToInject, passiveVars
<1>6. CASE Raise(c) \/ Killed(c)
  BY <1>6 DEF Raise, Killed, Die, passiveVars
<1>7. QED
  BY <1>1, <1>2, <1>3, <1>4, <1>5, <1>6 DEF HookCall

\* A capture that ends stores git's answer, and its row unless the answer is what was
\* stored before or a clean first one.
LEMMA CaptureTells ==
    ASSUME HookInv, NEW c \in Caller, UpsertSnapshot(c),
           lastTold' = IF window[c].about \in Given(db') THEN Answer(c) ELSE lastTold
    PROVE  /\ snapshot' = Answer(c) /\ tree' = tree /\ InCall(c, "capture")
           /\ lastTold' = IF Recorded(Answer(c)) THEN Answer(c) ELSE lastTold
<1> DEFINE o == window[c].about
<1>1. /\ InCall(c, "capture") /\ Pending(window[c]) /\ snapshot' = Answer(c) /\ tree' = tree
      /\ Commit(c, IF Recorded(Answer(c)) THEN InsertPruned(db, o) ELSE Unstamp(db, o), Outside, FALSE)
  BY DEF UpsertSnapshot, Answer, InCall, Pending
<1>2. db' = IF Recorded(Answer(c)) THEN InsertPruned(db, o) ELSE Unstamp(db, o)
  BY <1>1 DEF Commit
<1>3. MemInv /\ o \in Given(db)
  BY <1>1, OwnRow DEF HookInv, FreshIn
<1>4. /\ Given(InsertPruned(db, o)) = Given(db)
      /\ Given(Unstamp(db, o)) = Given(db) \ {o}
  BY <1>1, <1>3, OwnGiven
<1>5. o \in Given(db') <=> Recorded(Answer(c))
  BY <1>2, <1>3, <1>4
<1>6. QED
  BY <1>1, <1>5

\* What a step of the handlers does to the stored state.
LEMMA SnapshotMoves ==
    ASSUME HookInv, [HookNext]_hookVars
    PROVE  \/ UNCHANGED <<snapshot, lastTold>>
           \/ \E c \in Caller :
                 /\ snapshot' = Answer(c) /\ tree' = tree /\ InCall(c, "capture")
                 /\ lastTold' = IF Recorded(Answer(c)) THEN Answer(c) ELSE lastTold
<1>1. ASSUME NEW c \in Caller, EndCapture(c), ~UNCHANGED <<snapshot, lastTold>>
      PROVE  /\ snapshot' = Answer(c) /\ tree' = tree /\ InCall(c, "capture")
             /\ lastTold' = IF Recorded(Answer(c)) THEN Answer(c) ELSE lastTold
  <2>1. /\ UpsertSnapshot(c)
        /\ lastTold' = IF window[c].about \in Given(db') THEN Answer(c) ELSE lastTold
    BY <1>1 DEF EndCapture, passiveVars
  <2>2. QED
    BY <2>1, CaptureTells
<1>2. CASE \E c \in Caller, event \in Handled, t \in Text \cup {None} : Begin(c, event, t)
  BY <1>2 DEF Begin, passiveVars
<1>3. CASE \E c \in Caller : HookCall(c) /\ UNCHANGED <<begun, lastTold>>
  BY <1>3, CallStays
<1>4. CASE Pause \/ UNCHANGED hookVars
  BY <1>4 DEF Pause, hookVars, passiveVars
<1>5. CASE \E t \in Tree : Edit(t) /\ UNCHANGED <<paused, handler, given, begun, lastTold>>
  BY <1>5 DEF Edit
<1>6. QED
  BY <1>1, <1>2, <1>3, <1>4, <1>5 DEF HookNext

\* No change of the working tree is lost or told twice in a row, and the state that is
\* stored gets out of date by an edit or a late capture only, whichever hooks and
\* sidecars capture at once and wherever they are killed.
THEOREM ChangesFollowTree == HookSpec => ChangesTold
<1>1. HookInit => NoChangeLost
  BY DEF HookInit, PassiveInit, NoChangeLost
<1>2. ASSUME HookInv, NoChangeLost, [HookNext]_hookVars PROVE NoChangeLost'
  <2>1. CASE UNCHANGED <<snapshot, lastTold>>
    BY <1>2, <2>1 DEF NoChangeLost
  <2>2. ASSUME NEW c \in Caller, snapshot' = Answer(c),
               lastTold' = IF Recorded(Answer(c)) THEN Answer(c) ELSE lastTold
        PROVE  NoChangeLost'
    <3>1. CASE Recorded(Answer(c))
      BY <2>2, <3>1 DEF NoChangeLost
    <3>2. CASE ~Recorded(Answer(c))
      BY <1>2, <2>2, <3>2 DEF NoChangeLost, Recorded
    <3>3. QED
      BY <3>1, <3>2
  <2>3. QED
    BY <1>2, <2>1, <2>2, SnapshotMoves
<1>3. ASSUME HookInv, NoChangeLost, [HookNext]_hookVars
      PROVE  [/\ NoChangeLost'
              /\ snapshot = tree /\ tree' = tree
                    /\ (\A c \in Caller : InCall(c, "capture") => window[c].seen = {tree})
                 => snapshot' = tree]_hookVars
  BY <1>2, <1>3, SnapshotMoves DEF Answer
<1>4. QED
  BY <1>1, <1>2, <1>3, HandlersSound, PTL DEF HookSpec, ChangesTold

\* A handler that captures, reads or shows stores nothing but a change of the tree, and
\* gives its context only as it shows it.
UnhookedMove(c) ==
    /\ \A d \in Caller \ {c} : handler'[d] = handler[d]
    /\ handler'[c].todo = <<>> \/ handler'[c].event = handler[c].event
    /\ \A o \in db'.rows \ db.rows : EventOf[o] = "repository_change"
    /\ given' # given => given'.by = c /\ Head(handler[c].todo) = "show"

\* A handler whose calls still to make are changed keeps its event.
LEMMA TodoMoves ==
    ASSUME HookInv, NEW c \in Caller, NEW todo, LeftWith(c, todo)
    PROVE  /\ \A d \in Caller \ {c} : handler'[d] = handler[d]
           /\ handler'[c].event = handler[c].event
<1> DEFINE h == handler[c]
<1>1. /\ \A d \in Caller \ {c} : handler'[d] = handler[d]
      /\ handler'[c] = [h EXCEPT !.todo = todo]
  BY DEF HookInv, LeftWith
<1>2. h = [event |-> h.event, text |-> h.text, todo |-> h.todo, told |-> h.told, own |-> h.own]
  BY DEF HookInv, HandlerOK
<1> HIDE DEF h
<1>3. [h EXCEPT !.todo = todo] = [event |-> h.event, text |-> h.text, todo |-> todo, told |-> h.told, own |-> h.own]
  BY <1>2
<1>4. QED
  BY <1>1, <1>3 DEF h

\* That is what such a handler's calls do.
LEMMA UnhookedSteps ==
    ASSUME HookInv, NEW c \in Caller, HookCall(c) \/ EndCapture(c), handler[c].todo # <<>>,
           Head(handler[c].todo) \in {"capture", "read", "show"}
    PROVE  UnhookedMove(c)
<1>0. MemInv /\ HandlerOK(c, handler[c], window[c]) /\ handler = [d \in Caller |-> handler[d]]
  BY DEF HookInv
<1> DEFINE Quiet == /\ \A o \in db'.rows \ db.rows : EventOf[o] = "repository_change"
                    /\ given' = given
           Stays == /\ \A d \in Caller \ {c} : handler'[d] = handler[d]
                    /\ handler'[c].todo = <<>> \/ handler'[c].event = handler[c].event
<1>1. CASE BeginCapture(c)
  <2>1. PICK o \in Observation : ReadTree(c, o)
    BY <1>1 DEF BeginCapture
  <2>2. Moves(db, db', now, {o}, {})
    BY <1>0, <2>1, ReadTreeStep
  <2>3. Quiet /\ Stays
    BY <1>1, <2>2 DEF Moves, BeginCapture
  <2>4. QED
    BY <2>3 DEF UnhookedMove
<1>2. CASE EndCapture(c)
  <2>1. ASSUME UpsertSnapshot(c) PROVE \A o \in db'.rows \ db.rows : EventOf[o] = "repository_change"
    <3>1. Moves(db, db', now, {}, {window[c].about})
      BY <1>0, <2>1, UpsertStep
    <3>2. EventOf[window[c].about] = "repository_change"
      BY <1>0, <2>1 DEF UpsertSnapshot, InCall, MemInv, Waiting, WaitOK
    <3>3. \A o \in db'.rows \ db.rows : EventOf[o] = "repository_change"
      BY <3>1, <3>2 DEF Moves
    <3>4. QED
      BY <3>3
  <2>2. Quiet
    BY <1>2, <2>1 DEF EndCapture, passiveVars
  <2>3. Stays
    BY <1>2, TodoMoves DEF EndCapture, Done, LeftWith
  <2>4. QED
    BY <2>2, <2>3 DEF UnhookedMove
<1>3. CASE Recover(c) \/ NothingRecovered(c)
  <2>1. Quiet
    BY <1>3 DEF Recover, NothingRecovered, passiveVars
  <2>2. CASE Recover(c)
    <3>1. PICK told : handler' = [Done(c) EXCEPT ![c].told = told]
      BY <2>2 DEF Recover
    <3>2. /\ HandlerMoves(c)
          /\ handler'[c] = [event |-> handler[c].event, text |-> handler[c].text,
                            todo |-> Tail(handler[c].todo), told |-> told, own |-> handler[c].own]
      BY <3>1, ToldIs
    <3>3. Stays
      BY <3>2 DEF HandlerMoves
    <3>4. QED
      BY <2>1, <3>3 DEF UnhookedMove
  <2>3. CASE NothingRecovered(c)
    <3>1. Stays
      BY <2>3, TodoMoves DEF NothingRecovered, LeftWith
    <3>2. QED
      BY <2>1, <3>1 DEF UnhookedMove
  <2>4. QED
    BY <1>3, <2>2, <2>3
<1>4. CASE Show(c)
  <2>1. given'.by = c /\ Head(handler[c].todo) = "show" /\ db' = db
    BY <1>4 DEF Show, Give, ToDo, passiveVars
  <2>2. Stays
    BY <1>4, TodoMoves DEF Show, Done, LeftWith
  <2>3. QED
    BY <2>1, <2>2 DEF UnhookedMove
<1>5. CASE Raise(c) \/ Killed(c)
  <2>1. Quiet
    <3>1. CASE Die(c)
      <4>1. Moves(db, db', now, {}, {})
        BY <1>0, <3>1, DieStep
      <4>2. QED
        BY <1>5, <4>1 DEF Moves, Raise, Killed
    <3>2. CASE UNCHANGED passiveVars
      BY <1>5, <3>2 DEF Raise, Killed, passiveVars
    <3>3. QED
      BY <1>5, <3>1, <3>2 DEF Raise, Killed
  <2>2. Stays
    <3>1. CASE Raise(c)
      BY <3>1, TodoMoves DEF Raise, LeftWith
    <3>2. CASE Killed(c)
      BY <1>0, <3>2 DEF Killed, Idle
    <3>3. QED
      BY <1>5, <3>1, <3>2
  <2>3. QED
    BY <2>1, <2>2 DEF UnhookedMove
<1>6. QED
  BY <1>1, <1>2, <1>3, <1>4, <1>5
     DEF HookCall, BeginRecord, EndRecord, Suppressed, BeginUnique, EndUnique, Reset, BeginInject, EndInject,
         NothingToInject, BeginCapsule, EndCapsule, ToDo

\* While automatic behaviour is paused and no hook or tool is under way, none begins,
\* and nothing is stored or given but by what looks at no marker.
THEOREM QuietWhilePaused == HookSpec => PausedIsQuiet
<1>1. HookInv /\ [HookNext]_hookVars
        => [paused /\ paused' /\ (\A c \in Caller : handler[c].todo = <<>> \/ handler[c].event \in Unhooked) =>
              /\ \A c \in Caller : handler'[c].todo = <<>> \/ handler'[c].event \in Unhooked
              /\ \A o \in db'.rows \ db.rows : EventOf[o] = "repository_change"
              /\ given' # given => handler[given'.by].event = "client-sync"]_hookVars
  <2> DEFINE Alone == \A c \in Caller : handler[c].todo = <<>> \/ handler[c].event \in Unhooked
             Kept == /\ \A c \in Caller : handler'[c].todo = <<>> \/ handler'[c].event \in Unhooked
                     /\ \A o \in db'.rows \ db.rows : EventOf[o] = "repository_change"
                     /\ given' # given => handler[given'.by].event = "client-sync"
  <2> SUFFICES ASSUME HookInv, HookNext, paused, paused', Alone PROVE Kept
    OBVIOUS
  <2>1. CASE Pause
    BY <2>1 DEF Pause
  <2>2. CASE \E t \in Tree : Edit(t) /\ UNCHANGED <<paused, handler, given, begun, lastTold>>
    BY <2>2 DEF Edit
  <2>3. ASSUME NEW c \in Caller, NEW event \in Handled, NEW t, Begin(c, event, t) PROVE Kept
    <3>1. event \in Unhooked /\ db' = db /\ given' = given
      BY <2>3 DEF Begin, MayStart, passiveVars
    <3>2. /\ handler'[c].event = event
          /\ \A d \in Caller \ {c} : handler'[d] = handler[d]
      BY <2>3 DEF Begin, HookInv
    <3>3. QED
      BY <3>1, <3>2
  <2>4. ASSUME NEW c \in Caller, HookCall(c) \/ EndCapture(c) PROVE Kept
    <3>1. handler[c].todo # <<>> /\ handler[c].event \in Unhooked
      <4>1. handler[c].todo # <<>>
        BY <2>4 DEF HookCall, BeginRecord, EndRecord, Suppressed, BeginUnique, EndUnique, BeginCapture, EndCapture,
               Recover, NothingRecovered, Reset, Show, BeginInject, EndInject, NothingToInject,
               BeginCapsule, EndCapsule, Raise, Killed, ToDo
      <4>2. QED
        BY <4>1
    <3>2. /\ Head(handler[c].todo) \in {"capture", "read", "show"}
          /\ Head(handler[c].todo) = "show" => handler[c].event = "client-sync"
      <4>1. handler[c].todo \in Left(handler[c].event)
        BY <3>1, Working
      <4>2. CASE handler[c].event = "client-sync"
        <5>1. handler[c].todo \in {<<"capture", "read", "show">>, <<"read", "show">>, <<"show">>}
          BY <3>1, <4>1, <4>2 DEF Left
        <5>2. QED
          BY <4>2, <5>1, Heads
      <4>3. CASE handler[c].event = "observe"
        <5>1. handler[c].todo = <<"capture">>
          BY <3>1, <4>1, <4>3 DEF Left
        <5>2. QED
          BY <5>1, Heads
      <4>4. QED
        BY <3>1, <4>2, <4>3 DEF Unhooked
    <3>3. UnhookedMove(c)
      BY <2>4, <3>1, <3>2, UnhookedSteps
    <3>4. QED
      BY <3>1, <3>2, <3>3 DEF UnhookedMove
  <2>5. QED
    BY <2>1, <2>2, <2>3, <2>4 DEF HookNext
<1>2. QED
  BY <1>1, HandlersSound, PTL DEF HookSpec, PausedIsQuiet
=============================================================================
