----------------------------- MODULE JobStates ------------------------------
(* Job statuses and their transitions (core/states.py), shared by every     *)
(* module that moves a job.                                                 *)

\* "absent" is no JobStatus: it says that the row does not exist yet.
Status == {"absent", "pending", "running", "succeeded", "failed",
           "retry_scheduled", "dead_lettered", "archived"}

ValidTransitions ==
    {<<"pending", "running">>, <<"pending", "succeeded">>,
     <<"pending", "failed">>, <<"running", "succeeded">>,
     <<"running", "failed">>, <<"running", "retry_scheduled">>,
     <<"running", "dead_lettered">>, <<"running", "pending">>,
     <<"retry_scheduled", "pending">>}
    \cup {<<s, "archived">> : s \in {"pending", "running", "retry_scheduled",
                                     "failed", "dead_lettered", "succeeded"}}

\* The statuses covered by the partial unique index on idempotency_key, which
\* are also the incomplete ones every resume tool lists.
ActiveStatuses == {"pending", "running", "retry_scheduled"}
=============================================================================
