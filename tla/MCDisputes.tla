----------------------------- MODULE MCDisputes -----------------------------
\* Two facts that may dispute or replace each other and a third built on the
\* first.
EXTENDS TypedMemory, TLC

CONSTANTS o1, f1, f2, g, s1, clean, h1, h2

RowIds == {o1}
Papers == {f1, f2, g}

MCEventOf == [o \in RowIds |-> "tool_result"]
MCSessionOf == [o \in RowIds |-> s1]
MCTextOf == [o \in RowIds |-> o]
MCKindOf == [a \in Papers |-> "fact"]
MCSourcesOf == (f1 :> {o1}) @@ (f2 :> {o1}) @@ (g :> {f1})
MCFromOf == (f1 :> 0) @@ (f2 :> 1) @@ (g :> 0)
MCClaimOf == [a \in Papers |-> a]
Roles == (h1 :> {"record", "propose", "review", "supersedes"}) @@ (h2 :> {"contradicts", "forget"})
=============================================================================
