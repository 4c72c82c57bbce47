------------------------ MODULE MCAccountRuntimeSync ------------------------
(* The runtime of one account on small instances.                          *)
EXTENDS AccountRuntimeSync

CONSTANT daily

(* One expression and the empty one.                                       *)
TwoCrons == {daily, NoJob}
=============================================================================
