------------------------ MODULE MCNotificationOutbox ------------------------
(* The outbox of one account on small instances.                           *)
EXTENDS NotificationOutbox

CONSTANTS e1, e2

(* An event of an execution or a supplement group and a control warning.   *)
TwoEvents  == {e1, e2}
OneWarning == {e2}
=============================================================================
