----------------------------- MODULE MCHandoff -----------------------------
(* Small instances of Handoff.                                              *)
EXTENDS Handoff, TLC

CONSTANTS j1, j2, t1, t2, p1, p2, key, path, kind

OneProcess == [t \in Thread |-> p1]
EveryAgent == [t \in Thread |-> AgentCalls]
OneKey == [j \in Job |-> key]
OnePath == [j \in Job |-> path]
NoDeps == [j \in Job |-> {}]
OneType == [j \in Job |-> kind]
AnyType == [t \in Thread |-> {kind}]
NoLimit == [t \in Thread |-> [k \in {kind} |-> None]]
Once == [j \in Job |-> 1]
AtOnce == [j \in Job |-> 0]
OneUnit == [n \in 0..MaxClaims |-> 1]
Symmetry == Permutations(Thread)
=============================================================================
