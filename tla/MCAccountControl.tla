-------------------------- MODULE MCAccountControl --------------------------
(* Two orders a day at most, one call a minute, one query a day.           *)
EXTENDS AccountControl, TLC

TwoOps == {"place", "query"}
OrdersFirst == ("place" :> 0) @@ ("query" :> 1)
Limits ==
    {[ops |-> {"place"}, span |-> "day", limit |-> 2, waits |-> FALSE],
     [ops |-> {"place", "query"}, span |-> "minute", limit |-> 1, waits |-> TRUE],
     [ops |-> {"query"}, span |-> "day", limit |-> 1, waits |-> FALSE]}
Plans ==
    {<<"run", "order", "run">>, <<"catalog", "run">>}
=============================================================================
