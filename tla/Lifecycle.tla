------------------------------ MODULE Lifecycle ------------------------------
(***************************************************************************)
(* The handlers around a coding session: the lifecycle hooks of a host     *)
(* (lifecycle.py, started by hook_entrypoint.py) and the memory tools of   *)
(* the MCP server (coding_mcp.py, mcp_adoption.py), over PassiveMemory.    *)
(*                                                                         *)
(* A handler is a process of its own that makes its calls one after the    *)
(* other; hosts run several at once, for the same prompt too.  A call that *)
(* raises is swallowed and the host goes on coding.  Between two calls     *)
(* anything may happen, a pause of automatic behaviour included.           *)
(***************************************************************************)
EXTENDS PassiveMemory, Sequences

CONSTANTS
    Serves,    \* per caller: the session it is started for
    Text,      \* what prompts say
    MaxItems,  \* observations a recovery returns at most
    MaxBegun   \* bound: handlers started

VARIABLES
    paused,    \* the marker file next to the database
    handler,   \* per caller: the handler it runs, and the calls still to make
    given,     \* history: the last context a host was given
    begun,     \* how many handlers were started
    lastTold   \* history: the state of the tree the latest stored change tells

hookVars == <<passiveVars, paused, handler, given, begun, lastTold>>

Idle == [event |-> "none", text |-> None, todo |-> <<>>,
         told |-> {}, own |-> {}]

NothingGiven == [by |-> None, text |-> None, rows |-> {}, own |-> {}]

Handled == {"session-start", "session-prepare", "prompt-context", "post", "pre-compact",
            "session-end", "user-prompt", "mcp-sync", "mcp-remember", "observe", "client-sync"}

\* The sidecar for hosts without hooks, and a program that calls
\* ProjectMemory.sync_workspace: these look at no pause marker.
Unhooked == {"observe", "client-sync"}

\* Those that are about a text.
Prompted == {"prompt-context", "user-prompt", "mcp-sync", "mcp-remember"}

\* The calls of a handler, in their order.
WrongCalls(event) ==        \* BUG (OwnPromptNotHistory): the prompt is stored before it is read
    IF event \in {"prompt-context", "mcp-sync"} THEN <<"intent", "capture", "read", "inject">>
    ELSE <<"record">>

Calls(event) ==
    CASE event \in {"session-start", "client-sync"} -> <<"capture", "read", "show">>
      [] event = "observe"         -> <<"capture">>
      [] event = "session-prepare" -> <<"reset", "capture">>
      [] event = "prompt-context"  -> <<"capture", "read", "intent", "inject">>
      [] event = "pre-compact"     -> <<"record", "capture", "capsule">>
      [] event = "session-end"     -> <<"capture", "capsule", "record">>
      [] event = "user-prompt"     -> <<"intent">>
      [] event = "mcp-sync"        -> <<"capture", "read", "intent", "show">>
      [] event = "mcp-remember"    -> <<"note">>
      [] OTHER                     -> <<"record">>

\* What the handler goes on with when a call of it raises: prompt_context is
\* made of handlers that each swallow their own errors.
Rest(h) ==
    CASE h.event \in {"prompt-context", "mcp-sync"} /\ Head(h.todo) = "capture"
            -> Tail(Tail(h.todo))
      [] h.event \in {"prompt-context", "mcp-sync"} /\ Head(h.todo) \in {"read", "intent"}
            -> Tail(h.todo)
      [] OTHER -> <<>>

HookTypeOK ==
    /\ PassiveTypeOK
    /\ paused \in BOOLEAN
    /\ \A c \in Caller :
        /\ handler[c].event \in Handled \cup {"none"}
        /\ handler[c].told \subseteq {o \in Observation : ~Marker(o)}
        /\ handler[c].todo = <<>> => InCall(c, "outside")

ToDo(c, call) == handler[c].todo # <<>> /\ Head(handler[c].todo) = call

Done(c) == [handler EXCEPT ![c].todo = Tail(@)]

-----------------------------------------------------------------------------
(* Pausing: djobs pause and unpause *)

Pause ==
    /\ paused' = ~paused
    /\ UNCHANGED <<passiveVars, handler, given, begun, lastTold>>

\* automatic_memory_paused.
WrongMayStart == TRUE       \* BUG (PausedIsQuiet): the marker is not looked at

MayStart == ~paused

\* Every hook and tool looks at the marker first; what is Unhooked does not.

Begin(c, event, t) ==
    /\ event \in Makes[c]
    /\ begun < MaxBegun
    /\ (t = None) = (event \notin Prompted)
    /\ event \in Unhooked \/ MayStart
    /\ handler[c].todo = <<>>
    /\ handler' = [handler EXCEPT ![c] =
            [event |-> event, text |-> t, todo |-> Calls(event),
             told |-> {}, own |-> {}]]
    /\ begun' = begun + 1
    /\ UNCHANGED <<passiveVars, paused, given, lastTold>>

-----------------------------------------------------------------------------
(* The calls *)

OfSession(c, o) == SessionOf[o] = Serves[c]

\* record_observation: a tool's result, or that the session is compacted or ends.
BeginRecord(c) ==
    /\ ToDo(c, "record")
    /\ \E o \in Observation :
        /\ OfSession(c, o)
        /\ EventOf[o] = IF handler[c].event = "post" THEN "tool_result" ELSE "session_note"
        /\ BuildRecord(c, o)
    /\ UNCHANGED <<paused, handler, given>>

EndRecord(c) ==
    /\ ToDo(c, "record")
    /\ InsertObservation(c)
    /\ handler' = Done(c)
    /\ UNCHANGED <<paused, given>>

\* user_prompt_submit, remember_current_request and remember_agent_memory look
\* at the marker again; a prompt may ask not to be stored.
Suppressed(c) ==
    /\ ToDo(c, "intent") \/ ToDo(c, "note")
    /\ InCall(c, "outside")
    /\ handler' = Done(c)
    /\ UNCHANGED <<passiveVars, paused, given>>

BeginUnique(c) ==
    /\ \/ ToDo(c, "intent") /\ MayStart
       \/ ToDo(c, "note")
    /\ \E o \in Observation :
        /\ OfSession(c, o)
        /\ EventOf[o] = IF ToDo(c, "intent") THEN "user_intent" ELSE "tool_result"
        /\ TextOf[o] = handler[c].text
        /\ BuildRecord(c, o)
    /\ UNCHANGED <<paused, handler, given>>

EndUnique(c) ==
    LET o == window[c].about
    IN  /\ ToDo(c, "intent") \/ ToDo(c, "note")
        /\ InsertUnique(c)
        /\ handler' = [Done(c) EXCEPT ![c].own = IF AlreadyThere(db, o) THEN {} ELSE {o}]
        /\ UNCHANGED <<paused, given>>

BeginCapture(c) ==
    /\ ToDo(c, "capture")
    /\ handler[c].event = "prompt-context" => MayStart
    /\ \E o \in Observation : OfSession(c, o) /\ ReadTree(c, o)
    /\ UNCHANGED <<paused, handler, given>>

\* What git answered.
Answer(c) == CHOOSE t \in window[c].seen : TRUE

\* Also where git has no answer, and nothing is captured.
EndCapture(c) ==
    /\ ToDo(c, "capture")
    /\ \/ /\ UpsertSnapshot(c)
          /\ lastTold' = IF window[c].about \in Given(db') THEN Answer(c) ELSE lastTold
       \/ InCall(c, "outside") /\ UNCHANGED <<passiveVars, lastTold>>
    /\ handler' = Done(c)
    /\ UNCHANGED <<paused, given>>

\* sync_workspace: the newest rows there are; a query ranks among them.
Recover(c) ==
    /\ ToDo(c, "read")
    /\ handler' = [Done(c) EXCEPT ![c].told =
            Newest(db, {o \in db.rows : Eligible(db, o)}, MaxItems)]
    /\ UNCHANGED <<passiveVars, paused, given>>

\* session_start looks at the marker again inside prompt_context.
NothingRecovered(c) ==
    /\ ToDo(c, "capture")
    /\ InCall(c, "outside")
    /\ handler[c].event = "prompt-context"
    /\ paused
    /\ handler' = [handler EXCEPT ![c].todo = Rest(handler[c])]
    /\ UNCHANGED <<passiveVars, paused, given>>

Reset(c) ==
    /\ ToDo(c, "reset")
    /\ ResetMarker(c, Serves[c])
    /\ handler' = Done(c)
    /\ UNCHANGED <<paused, given>>

Give(c) == given' = [by |-> c, text |-> handler[c].text,
                     rows |-> handler[c].told, own |-> handler[c].own]

\* session_start and the sync tool answer with what they recovered.
Show(c) ==
    /\ ToDo(c, "show")
    /\ Give(c)
    /\ handler' = Done(c)
    /\ UNCHANGED <<passiveVars, paused>>

\* prompt_context: a context that is not empty is given to the first claimant
\* of the marker for this request.
BeginInject(c) ==
    /\ ToDo(c, "inject")
    /\ handler[c].told # {}
    /\ \E o \in Observation :
        /\ OfSession(c, o)
        /\ Marker(o)
        /\ TextOf[o] = handler[c].text
        /\ BuildRecord(c, o)
    /\ UNCHANGED <<paused, handler, given>>

EndInject(c) ==
    /\ ToDo(c, "inject")
    /\ InsertUnique(c)
    /\ IF AlreadyThere(db, window[c].about) THEN UNCHANGED given ELSE Give(c)
    /\ handler' = Done(c)
    /\ UNCHANGED paused

NothingToInject(c) ==
    /\ ToDo(c, "inject")
    /\ handler[c].told = {}
    /\ handler' = Done(c)
    /\ UNCHANGED <<passiveVars, paused, given>>

BeginCapsule(c) ==
    /\ ToDo(c, "capsule")
    /\ ReadSession(c, Serves[c])
    /\ UNCHANGED <<paused, handler, given>>

\* Written, abandoned since a row changed, or nothing to summarise.
EndCapsule(c) ==
    /\ ToDo(c, "capsule")
    /\ \/ \E k \in Observation : RecordCapsule(c, k)
       \/ AbandonCapsule(c)
       \/ /\ InCall(c, "outside")
          /\ ~\E o \in SessionRows(Serves[c]) : Eligible(db, o)
          /\ UNCHANGED passiveVars
    /\ handler' = Done(c)
    /\ UNCHANGED <<paused, given>>

\* A call raises: the database is locked, the disk is full, pruning refuses.
Raise(c) ==
    /\ handler[c].todo # <<>>
    /\ Die(c) \/ (InCall(c, "outside") /\ UNCHANGED passiveVars)
    /\ handler' = [handler EXCEPT ![c].todo = Rest(handler[c])]
    /\ UNCHANGED <<paused, given>>

\* The host's timeout kills the process.
Killed(c) ==
    /\ handler[c].todo # <<>>
    /\ Die(c) \/ (InCall(c, "outside") /\ UNCHANGED passiveVars)
    /\ handler' = [handler EXCEPT ![c] = Idle]
    /\ UNCHANGED <<paused, given>>

HookInit ==
    /\ PassiveInit
    /\ paused = FALSE
    /\ handler = [c \in Caller |-> Idle]
    /\ given = NothingGiven
    /\ begun = 0
    /\ lastTold = None

HookCall(c) ==
    \/ BeginRecord(c) \/ EndRecord(c)
    \/ Suppressed(c) \/ BeginUnique(c) \/ EndUnique(c)
    \/ BeginCapture(c)
    \/ Recover(c) \/ NothingRecovered(c) \/ Reset(c) \/ Show(c)
    \/ BeginInject(c) \/ EndInject(c) \/ NothingToInject(c)
    \/ BeginCapsule(c) \/ EndCapsule(c)
    \/ Raise(c) \/ Killed(c)

HookNext ==
    \/ \E c \in Caller, event \in Handled, t \in Text \cup {None} : Begin(c, event, t)
    \/ \E c \in Caller : HookCall(c) /\ UNCHANGED <<begun, lastTold>>
    \/ \E c \in Caller : EndCapture(c) /\ UNCHANGED begun
    \/ Pause
    \/ \E t \in Tree : Edit(t) /\ UNCHANGED <<paused, handler, given, begun, lastTold>>

HookSpec == HookInit /\ [][HookNext]_hookVars

-----------------------------------------------------------------------------
(* Properties *)

\* However many hooks ask at once, the context of one request of a session is
\* given by one of them, until its marker is reset or pruned
\* (lifecycle.py:298, observations.py:382).
ContextGivenOnce ==
    [][given' # given /\ handler[given'.by].event = "prompt-context" =>
          ~\E m \in db.rows : /\ Marker(m)
                              /\ SessionOf[m] = Serves[given'.by]
                              /\ TextOf[m] = given'.text]_hookVars

\* What a handler stores of a prompt it does not tell as history of the same
\* prompt (lifecycle.py:290, coding_mcp.py:294).
OwnPromptNotHistory == given.own \cap given.rows = {}

\* Once the hooks and tools under way have ended, automatic behaviour is quiet
\* while it is paused (docs/USER_GUIDE.md:101): no row is stored and no context is
\* given, but for the changes of the tree and the answers of what is Unhooked.
PausedIsQuiet ==
    [][paused /\ paused' /\ (\A c \in Caller : handler[c].todo = <<>> \/ handler[c].event \in Unhooked) =>
          /\ \A c \in Caller : handler'[c].todo = <<>> \/ handler'[c].event \in Unhooked
          /\ \A o \in db'.rows \ db.rows : EventOf[o] = "repository_change"
          /\ given' # given => handler[given'.by].event = "client-sync"]_hookVars

\* The stored state of the checkout is what the latest stored change tells, or a clean
\* first one.
NoChangeLost == snapshot = lastTold \/ (lastTold = None /\ snapshot = CleanTree)

\* However captures race, are killed or are refused, no change of the tree is lost, and
\* none is told twice in a row.  And once the tree as it is was stored, only a capture
\* that asked git before the latest edit can store another while the tree stays
\* (observations.py:882).
ChangesTold ==
    [][/\ NoChangeLost'
       /\ snapshot = tree /\ tree' = tree
             /\ (\A c \in Caller : InCall(c, "capture") => window[c].seen = {tree})
          => snapshot' = tree]_hookVars
=============================================================================
