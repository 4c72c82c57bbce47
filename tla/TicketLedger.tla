---------------------------- MODULE TicketLedger ----------------------------
(***************************************************************************)
(* What the execution control plane promises about one trading account,    *)
(* without its registry, lock, dispatcher and tasks: a ledger of tickets   *)
(* in which at most one waits and at most one runs, and a channel that is  *)
(* used by one execution or one refresh at a time.  Each action is one     *)
(* change of a row of execution_intent or of the refresh slot.             *)
(***************************************************************************)
CONSTANTS Ids

VARIABLES
  status,   \* Ids -> status of the row, "NONE" while it does not exist
  refresh   \* "none", or the refresh that occupies the account

Running  == {"RUNNING", "TERMINATING"}
Terminal == {"SUCCEEDED", "FAILED", "SKIPPED", "PARTIAL", "TERMINATED"}

Move(x, from, to) ==
  /\ status[x] = from
  /\ status' = [status EXCEPT ![x] = to]
  /\ UNCHANGED refresh

ChannelFree == refresh = "none" /\ \A y \in Ids : status[y] \notin Running

Init == status = [x \in Ids |-> "NONE"] /\ refresh = "none"

Admit(x) ==
  /\ \A y \in Ids : status[y] # "QUEUED"
  /\ Move(x, "NONE", "QUEUED")

Start(x) == ChannelFree /\ Move(x, "QUEUED", "RUNNING")

RequestStop(x) == Move(x, "RUNNING", "TERMINATING")

Withdraw(x) == \E s \in {"TERMINATED", "FAILED"} : Move(x, "QUEUED", s)

(* The task that was still working out its target reports its failure on a *)
(* ticket that was withdrawn a moment ago.                                 *)
Amend(x) == Move(x, "TERMINATED", "FAILED")

Close(x) == \E r \in Running, s \in Terminal : Move(x, r, s)

BeginRefresh ==
  /\ ChannelFree
  /\ refresh' \in {"asset", "target"}
  /\ UNCHANGED status

EndRefresh == refresh # "none" /\ refresh' = "none" /\ UNCHANGED status

Next ==
  \/ \E x \in Ids : \/ Admit(x) \/ Start(x) \/ RequestStop(x)
                    \/ Withdraw(x) \/ Amend(x) \/ Close(x)
  \/ BeginRefresh \/ EndRefresh

Spec == Init /\ [][Next]_<<status, refresh>>

(* One execution runs, one ticket waits, and no refresh shares the channel *)
(* with a running execution.                                               *)
OneAtATime ==
  /\ \A x, y \in Ids : status[x] \in Running /\ status[y] \in Running => x = y
  /\ \A x, y \in Ids : status[x] = "QUEUED" /\ status[y] = "QUEUED" => x = y
  /\ refresh # "none" => \A x \in Ids : status[x] \notin Running
=============================================================================
