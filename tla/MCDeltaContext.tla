--------------------------- MODULE MCDeltaContext ---------------------------
(* Small instances of DeltaContext.                                         *)
EXTENDS DeltaContext, TLC

CONSTANTS a, b, c

\* b waits for a.
BAfterA == [t \in Task |-> IF t = b THEN {a} ELSE {}]

\* One task of a page's worth of tokens next to small ones.
Sizes == [t \in Task |-> IF t = a THEN 3 ELSE 1]
=============================================================================
