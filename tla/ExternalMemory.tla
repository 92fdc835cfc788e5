--------------------------- MODULE ExternalMemory ---------------------------
(***************************************************************************)
(* external_memory.py: an index outside of djobs that a product may inject *)
(* to compare with the native ranking.  Each call of the adapter runs in a *)
(* thread of its own, one at a time per session; a caller that has waited  *)
(* long enough goes on without it, the thread does not stop.  What comes   *)
(* back is an id and a hash, and is looked up again among the rows.        *)
(*                                                                         *)
(* The rows a call sees are those of the copy it opened; they change under *)
(* it, and the adapter may answer anything.                                *)
(***************************************************************************)
EXTENDS Naturals, FiniteSets

CONSTANTS
    Item,         \* ids of observations
    ShareKind,    \* per record: "family", or "private" to a checkout, session or agent
    Limit,        \* the results asked for
    MaxText       \* bound of the changes of a record's text

VARIABLES
    rows,     \* per record: its text, 0 if there is none
    outside,  \* per record: the text the adapter has, 0 if none
    threads,  \* the adapter calls in progress
    held,     \* the session's lock
    caller,   \* the session's caller: its operation and what it has read
    shown,    \* the last answer
    removed   \* records whose derived copy was last reported deleted

externalVars == <<rows, outside, threads, held, caller, shown, removed>>

ASSUME ShareConstants == \A i \in Item : ShareKind[i] \in {"family", "private"}

NoCaller == [op |-> "none"]
NoShown == [candidates |-> {}, of |-> [i \in Item |-> 0]]

-----------------------------------------------------------------------------
\* _family_exportable, on the rows of the copy.
Exportable(t) == {i \in Item : t[i] # 0 /\ ShareKind[i] = "family"}

\* _call takes the session's lock without waiting, or the adapter is busy.
Calls(t, c) ==
    /\ caller = NoCaller /\ ~held
    /\ held' = TRUE
    /\ threads' = threads \cup {t}
    /\ caller' = c

BeginIndex ==
    /\ Calls([op |-> "index", records |-> [i \in Exportable(rows) |-> rows[i]]], [op |-> "index"])
    /\ removed' = removed \ Exportable(rows)
    /\ UNCHANGED <<rows, outside, shown>>

BeginDelete(S) ==
    /\ Calls([op |-> "delete", records |-> S], [op |-> "delete"])
    /\ UNCHANGED <<rows, outside, shown, removed>>

BeginRetrieve ==
    /\ Calls([op |-> "retrieve"], [op |-> "retrieve", view |-> rows])
    /\ UNCHANGED <<rows, outside, shown, removed>>

WrongHeldOn == FALSE   \* BUG (DeletedStaysOut): the lock is let go with the caller

\* The lock is the thread's.
HeldOn == held

\* external_adapter_timeout: the thread goes on.
TimesOut ==
    /\ caller # NoCaller
    /\ caller' = NoCaller
    /\ held' = HeldOn
    /\ UNCHANGED <<rows, outside, threads, shown, removed>>

\* A thread ends; a late one has no reader.
Ends(t) ==
    /\ threads' = threads \ {t}
    /\ held' = FALSE
    /\ caller' = NoCaller
    /\ UNCHANGED rows

\* The adapter has done it, or only part of it.
IndexDone(t) ==
    /\ t.op = "index"
    /\ \E S \in SUBSET DOMAIN t.records :
          outside' = [i \in Item |-> IF i \in S THEN t.records[i] ELSE outside[i]]
    /\ Ends(t)
    /\ UNCHANGED <<shown, removed>>

DeleteDone(t) ==
    /\ t.op = "delete"
    /\ outside' = [i \in Item |-> IF i \in t.records THEN 0 ELSE outside[i]]
    /\ removed' = IF caller.op = "delete" THEN removed \cup t.records ELSE removed
    /\ Ends(t)
    /\ UNCHANGED shown

\* The rows of the ids that may leave and have the hash of the answer.
Revalidated(hits, view) == {i \in Exportable(view) : <<i, view[i]>> \in hits}

RetrieveDone(t) ==
    /\ t.op = "retrieve"
    /\ \/ /\ caller.op = "retrieve"
          /\ \E hits \in SUBSET (Item \X (0..MaxText)), S \in SUBSET Item :
              /\ Cardinality(hits) <= 2
              /\ S \subseteq Revalidated(hits, caller.view) /\ Cardinality(S) <= Limit
              /\ shown' = [candidates |-> S, of |-> caller.view]
       \/ caller.op # "retrieve" /\ UNCHANGED shown
    /\ Ends(t)
    /\ UNCHANGED <<outside, removed>>

\* Memory goes on: a record is captured, changes, is forgotten.
Changes(i) ==
    /\ \E text \in 0..MaxText : text # rows[i] /\ rows' = [rows EXCEPT ![i] = text]
    /\ UNCHANGED <<outside, threads, held, caller, shown, removed>>

-----------------------------------------------------------------------------
ExternalInit ==
    /\ rows = [i \in Item |-> 0] /\ outside = [i \in Item |-> 0]
    /\ threads = {} /\ held = FALSE /\ caller = NoCaller
    /\ shown = NoShown /\ removed = {}

ExternalNext ==
    \/ BeginIndex \/ BeginRetrieve \/ TimesOut
    \/ \E S \in SUBSET Item \ {{}} : BeginDelete(S)
    \/ \E t \in threads : IndexDone(t) \/ DeleteDone(t) \/ RetrieveDone(t)
    \/ \E i \in Item : Changes(i)

ExternalSpec == ExternalInit /\ [][ExternalNext]_externalVars

-----------------------------------------------------------------------------
\* A copy whose deletion was reported does not come back with an index call that
\* had timed out before: only an index that was begun later brings it back.
DeletedStaysOut == \A i \in removed : outside[i] = 0

\* What is shown as an external candidate is a row of the family as it was read,
\* whatever the adapter answers, and what is private never leaves ("A family
\* namespace never receives checkout/session/agent-private text",
\* external_memory.py:36).
OnlyRevalidated ==
    /\ shown.candidates \subseteq Exportable(shown.of)
    /\ \A i \in Item : outside[i] # 0 => ShareKind[i] = "family"

\* What leaves and what comes back is what the rows allow.
CopiesAsAllowed == OnlyRevalidated /\ DeletedStaysOut
=============================================================================
