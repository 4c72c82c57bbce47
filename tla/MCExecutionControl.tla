------------------------- MODULE MCExecutionControl -------------------------
(* Execution control of one account on small instances.                    *)
EXTENDS ExecutionControl, TLC

(* Execution ids are uuids that the code only compares for equality.       *)
Symmetry == Permutations(Ids)

(* One result of a trade, to which failures and terminations are added.    *)
OneOutcome == {"SUCCEEDED"}

(* Who asks for tickets: everybody, or no supplement plan, or only plans.  *)
AllAsks  == Requests
NoSteps  == {<<"REBALANCE", "request">>, <<"CLEAR_POSITIONS", "request">>}
OnlyRebalance == {<<"REBALANCE", "request">>}
WithSteps == {<<"REBALANCE", "request">>, <<"REBALANCE", "step">>}
=============================================================================
