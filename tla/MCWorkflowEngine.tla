-------------------------- MODULE MCWorkflowEngine --------------------------
(* One step of each kind of recovery: skipped, retried, rolled back by a   *)
(* strategy of the client's (retried without it) and aborted.  Beside it,  *)
(* as behaviours of their own, the parts around the engines.               *)
EXTENDS WorkflowEngine, WorkflowParts

MCTypes == [k \in 1..4 |-> CASE k = 1 -> "Reboot" [] k = 2 -> "Connect" [] k = 3 -> "Flash" [] k = 4 -> "Verify"]
MCCustom == [t \in {"Flash"} |-> "Rollback"]

MCPolicies ==
    [kind : {"Default"}, maxRetries : {-1, 0, 2}, maxRollbacks : {0, 1}, canRollback : BOOLEAN]
    \cup [kind : {"Rollback"}, maxRetries : {0}, maxRollbacks : {0, 1}, canRollback : {TRUE}]
    \cup [kind : {"Forever", "Abort"}, maxRetries : {0}, maxRollbacks : {0}, canRollback : {FALSE}]

MCContexts ==
    [session : {"none", "bare", "device"}, boot : BOOLEAN, package : BOOLEAN, tools : BOOLEAN,
     loaders : {"none", "empty", "some"}, partitions : {<<>>, <<"p1", "p2">>}]

MCFilters ==
    [types : {{}, {"Flash"}}, success : {{}, {TRUE}}, from : {0, 2}, to : {0, 3}, id : {NoValue, 1}, maxResults : {0, 1}]

MCInit == Init /\ WInit /\ (part # "none" => ~cont /\ ~custom)

MCNext ==
    \/ part = "none" /\ Next /\ UNCHANGED wvars
    \/ WNext /\ UNCHANGED vars

\* The steps of a run happen in order and success means all of them; and what
\* builds, carries out, counts and reports workflows and jobs is exact.
WorkflowIsWhole == StepsAreWhole /\ PartsAreExact

MCSpec == MCInit /\ [][MCNext]_<<vars, wvars>> /\ WF_vars(Runner) /\ WF_vars(setPaused \/ setState \/ endRollback)
==============================================================================
