---------------------------- MODULE MCLifecycle ----------------------------
\* One prompt of a hooked session that two hooks handle at once, one of which
\* also remembers and ends the session.
EXTENDS Lifecycle, TLC

CONSTANTS i1, t1, m1, m2, g1, g2, k1, z1, s, p, clean, dirty, h1, h2

RowIds == {i1, t1, m1, m2, g1, g2, k1, z1}

MCEventOf == [o \in Observation |->
    CASE o = i1         -> "user_intent"
      [] o \in {m1, m2} -> "context_injected"
      [] o \in {g1, g2} -> "repository_change"
      [] o = t1         -> "tool_result"
      [] o = k1         -> "session_capsule"
      [] OTHER          -> "session_note"]
MCSessionOf == [o \in Observation |-> s]
MCTextOf == [o \in Observation |-> IF o \in {i1, t1, m1, m2} THEN p ELSE None]
NoArtifact == [a \in {} |-> "fact"]
NoSources == [a \in {} |-> {}]
NoFrom == [a \in {} |-> 0]
Hooks == (h1 :> {"prompt-context", "observe", "client-sync"})
         @@ (h2 :> {"prompt-context", "session-prepare", "session-end", "mcp-remember"})
\* Two markers, and two changes, are alike.
Alike == Permutations({m1, m2}) \cup Permutations({g1, g2})
OneSession == [c \in {h1, h2} |-> s]
=============================================================================
