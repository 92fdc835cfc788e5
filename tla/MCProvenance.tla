---------------------------- MODULE MCProvenance ----------------------------
\* One session with two tool results that say the same and a capsule, of which
\* two rows fit; an episode of the first, an experience from it, and two drafts
\* of one claim taken from the capsule.
EXTENDS TypedMemory, TLC

CONSTANTS r1, r2, k1, e, x, f, d, s1, clean, h1, h2

RowIds == {r1, r2, k1}
Papers == {e, x, f, d}

MCEventOf == [o \in RowIds |-> IF o = k1 THEN "session_capsule" ELSE "tool_result"]
MCSessionOf == [o \in RowIds |-> s1]
MCTextOf == [o \in RowIds |-> EventOf[o]]
MCKindOf == (e :> "episode") @@ (x :> "experience") @@ (f :> "fact") @@ (d :> "fact")
MCSourcesOf == (e :> {r1}) @@ (x :> {e}) @@ (f :> {k1}) @@ (d :> {k1})
MCFromOf == [a \in Papers |-> 0]
MCClaimOf == [a \in Papers |-> IF a = d THEN f ELSE a]
Roles == (h1 :> {"record", "capsule", "reindex", "propose", "review"})
         @@ (h2 :> {"mark", "forget", "maintain"})
=============================================================================
