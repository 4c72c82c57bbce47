-------------------------- MODULE MCWorkerBackend --------------------------
EXTENDS WorkerBackend, TLC

CONSTANTS T1, T2, T3

Run == <<"prepare", "execute">>
Three(x, y, z) == (T1 :> x) @@ (T2 :> y) @@ (T3 :> z)

(* A run next to what else may happen to its worker: a page that reads,    *)
(* order commands, a synchronisation, another run, the end of the service; *)
(* a run that computes its targets, and one whose function failed; a       *)
(* rebuilt connection; an order command next to a page, and order commands *)
(* that wait for each other.                                               *)
RunPlans ==
    {Three(Run, <<"read">>, <<>>),
     Three(Run, <<"order", "order">>, <<>>),
     Three(Run, <<"drop">>, <<>>),
     Three(Run, Run, <<>>),
     Three(Run, <<"shutdown">>, <<>>),
     Three(<<"compute">> \o Run, <<>>, <<>>),
     Three(<<"compute", "drop">>, <<"read">>, <<>>),
     Three(<<"prepare">>, <<"drop", "prepare">>, <<>>),
     Three(<<"prepare">>, <<"read">>, <<"order">>),
     Three(<<"prepare">>, <<"order", "order">>, <<"order">>)}
=============================================================================
