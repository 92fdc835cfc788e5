----------------------------- MODULE LeaseQueue -----------------------------
(***************************************************************************)
(* What a caller of QueueService relies on, without rows, clocks, events   *)
(* or calls in progress: a job is open, held by one worker, parked until   *)
(* a retry, closed or archived.  It changes hands only by being open in    *)
(* between, two holders never share a resource, and closed is final except *)
(* for archiving.                                                          *)
(***************************************************************************)
CONSTANTS Job, Worker, None, ResourceOf

VARIABLES phase, holder

lqVars == <<phase, holder>>

Phase == {"new", "open", "held", "parked", "closed", "archived"}

LQTypeOK == /\ phase \in [Job -> Phase]
            /\ holder \in [Job -> Worker \cup {None}]

Move(js, to) == phase' = [j \in Job |-> IF j \in js THEN to[j] ELSE phase[j]]

Drop(js) == holder' = [j \in Job |-> IF j \in js THEN None ELSE holder[j]]

Submit(j) == /\ phase[j] = "new"
             /\ phase' = [phase EXCEPT ![j] = "open"]
             /\ UNCHANGED holder

Grant(j, w) ==
    /\ phase[j] = "open"
    /\ ResourceOf[j] # None =>
         \A k \in Job : phase[k] = "held" => ResourceOf[k] # ResourceOf[j]
    /\ phase' = [phase EXCEPT ![j] = "held"]
    /\ holder' = [holder EXCEPT ![j] = w]

\* Some held jobs go back at once: one by a release or a retry, all expired
\* ones by a recovery.
Yield(js) ==
    /\ js # {}
    /\ \A j \in js : phase[j] = "held"
    /\ \E to \in [js -> {"open", "parked"}] : Move(js, to)
    /\ Drop(js)

Resume(js) ==
    /\ js # {}
    /\ \A j \in js : phase[j] = "parked"
    /\ Move(js, [j \in js |-> "open"])
    /\ UNCHANGED holder

Close(j) ==
    /\ phase[j] \in {"open", "held"}
    /\ Move({j}, [k \in {j} |-> "closed"])
    /\ Drop({j})

Archive(j) ==
    /\ phase[j] \in {"open", "held", "parked", "closed"}
    /\ Move({j}, [k \in {j} |-> "archived"])
    /\ Drop({j})

LQInit == /\ phase = [j \in Job |-> "new"]
          /\ holder = [j \in Job |-> None]

LQNext ==
    \/ \E j \in Job : Submit(j) \/ Close(j) \/ Archive(j)
    \/ \E j \in Job, w \in Worker : Grant(j, w)
    \/ \E js \in SUBSET Job : Yield(js) \/ Resume(js)

LQSpec == LQInit /\ [][LQNext]_lqVars
=============================================================================
