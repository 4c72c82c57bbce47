--------------------------- MODULE RequestLedger ---------------------------
(***************************************************************************)
(* What the worker backend promises of the requests of an account: each is *)
(* carried out at most once, a request is reported as answered or stopped  *)
(* only when that is what became of it, and nothing is done for a request  *)
(* any more once it was reported as failed.  Whoever hears that a request  *)
(* is unconfirmed does not know: it may still be carried out.              *)
(***************************************************************************)
EXTENDS Integers

CONSTANT Requests

VARIABLES
    starts,     \* how often a worker started on each request
    done,       \* <<request, how>> of the requests that were carried out
    outcome     \* what the asker was told, "none" before

vars == <<starts, done, outcome>>

Ways == {"answered", "terminated"}
Told == Ways \cup {"done", "failed", "mismatch", "refused", "unconfirmed"}

Init ==
    /\ starts = [r \in Requests |-> 0]
    /\ done = {}
    /\ outcome = [r \in Requests |-> "none"]

(* A request with an answer of another one is still on its way, and so may *)
(* be one that nobody waits for any longer.                                *)
Open(r) == outcome[r] \in {"none", "mismatch", "unconfirmed"}

Start(r) ==
    /\ Open(r) /\ starts[r] = 0
    /\ starts' = [starts EXCEPT ![r] = 1]
    /\ UNCHANGED <<done, outcome>>

CarryOut(r, how) ==
    /\ Open(r) /\ starts[r] = 1 /\ \A d \in done : d[1] # r
    /\ done' = done \cup {<<r, how>>}
    /\ UNCHANGED <<starts, outcome>>

Report(r, how) ==
    /\ outcome[r] = "none"
    /\ how \in Ways => <<r, how>> \in done
    /\ outcome' = [outcome EXCEPT ![r] = how]
    /\ UNCHANGED <<starts, done>>

Next ==
    \E r \in Requests :
        \/ Start(r)
        \/ \E how \in Ways : CarryOut(r, how)
        \/ \E how \in Told : Report(r, how)

Spec == Init /\ [][Next]_vars

=============================================================================
