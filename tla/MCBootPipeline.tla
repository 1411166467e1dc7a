--------------------------- MODULE MCBootPipeline ---------------------------
(* Three working stages instead of eleven: the longest default rollback is *)
(* two stages, so three leave room for one that crosses a completed stage. *)
(* The last configuration rolls back ahead, to Ready and Cancelled too.    *)
EXTENDS BootPipeline, TLC

Exhausts(n, a) == [kind |-> "rule", maxRetries |-> n, onExhausted |-> a]
NoRule == [kind |-> "none", maxRetries |-> 0, onExhausted |-> "Abort"]
Custom == [kind |-> "custom", maxRetries |-> 0, onExhausted |-> "Abort"]

Base == [handlers       |-> {1, 2, 3},
         enableRecovery |-> TRUE,
         hasStrategy    |-> TRUE,
         rules          |-> [s \in 0..6 |-> NoRule],
         defaultAction  |-> "Abort",
         rollbackMap    |-> <<>>]

MCConfigs ==
    {Base,
     [Base EXCEPT !.enableRecovery = FALSE],
     [Base EXCEPT !.hasStrategy = FALSE, !.handlers = {3}],
     [Base EXCEPT !.rules = [s \in 0..6 |-> Custom], !.handlers = 0..3],
     [Base EXCEPT !.rules = [s \in 0..6 |-> Exhausts(1, "Rollback")]],
     [Base EXCEPT !.rules = [s \in 0..6 |-> Exhausts(0, "RestartStage")], !.handlers = {1, 3}],
     [Base EXCEPT !.rules = [s \in 0..6 |-> Custom], !.rollbackMap = 3 :> 1],
     [Base EXCEPT !.rules = [s \in 0..6 |-> Custom], !.handlers = {1, 2, 3, 4, 6},
                  !.rollbackMap = 1 :> 3 @@ 2 :> 4 @@ 3 :> 6]}
==============================================================================
