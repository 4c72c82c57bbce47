------------------------- MODULE NotificationOutbox -------------------------
(***************************************************************************)
(* The notification outbox of ONE account                                  *)
(* (src/axile/server/execution/notification_outbox.py).  Events are rows   *)
(* of notification_event, written in the transaction of what they report;  *)
(* a runner per account commits "calling", calls the user's function and   *)
(* commits the result.  A server that dies during a call never learns how  *)
(* it ended.  Runners are keyed by account, so one account is enough.      *)
(*                                                                         *)
(* An action is a run of code between two awaits or one statement that     *)
(* SQLite commits.  Event ids are unique, so an event is enqueued once.    *)
(***************************************************************************)
EXTENDS Naturals

CONSTANTS
  Events,        \* ids of the events that can be enqueued
  NoEvent,       \* no event
  Warnings,      \* the account-control warnings, which the monitor wakes for
  MaxInterrupts, \* bound: exceptions that interrupt the runner
  MaxCrashes     \* bound: how often the server process may die

ASSUME OutboxAssumption ==
  /\ NoEvent \notin Events
  /\ Warnings \subseteq Events
  /\ MaxInterrupts \in Nat /\ MaxCrashes \in Nat

VARIABLES
  status,     \* notification_event.status, "none" before the row exists
  seq,        \* notification_event.sequence, 0 before the row exists
  last,       \* the highest sequence given so far
  calls,      \* how often the function has been called for the event
  waking,     \* events committed by coroutines that still have to wake
  runner,     \* _tasks[account]: "off" or where it is
  event,      \* the event in the hands of the runner
  rerun,      \* the account is in _rerun
  soon,       \* a wake handed to call_soon
  phase,      \* "up", or the stage of start-up recovery
  unsure,     \* events that recovery found in "calling"
  due,        \* events that recovery found pending
  interrupts, \* exceptions so far
  crashes     \* crashes so far

dbVars == <<status, seq, last>>
runVars == <<runner, event, rerun, soon>>
lifeVars == <<phase, unsure, due, interrupts, crashes>>
outboxVars == <<dbVars, calls, waking, runVars, lifeVars>>

Final   == {"succeeded", "failed", "unknown"}
Pending == {e \in Events : status[e] = "pending"}
Oldest  == {e \in Pending : \A f \in Pending : seq[e] <= seq[f]}

(* wake_notifications: ignored while recovering; a wake that meets a       *)
(* runner makes it run again.                                              *)
Wake ==
  IF phase = "recovering" THEN UNCHANGED <<runner, rerun>>
  ELSE /\ runner' = IF runner = "off" THEN "load" ELSE runner
       /\ rerun'  = (rerun \/ runner # "off")

-----------------------------------------------------------------------------
(* The transactions that add events: execution ends, cancelled supplement  *)
(* groups (both also during recovery) and control warnings.                *)
Enqueue(e) ==
  /\ status[e] = "none"
  /\ status' = [status EXCEPT ![e] = "pending"]
  /\ seq' = [seq EXCEPT ![e] = last + 1]
  /\ last' = last + 1
  /\ waking' = IF e \in Warnings THEN waking ELSE waking \cup {e}
  /\ UNCHANGED <<calls, runVars, lifeVars>>

(* The wake after the commit.                                              *)
WakeUp(e) ==
  /\ e \in waking
  /\ waking' = waking \ {e}
  /\ Wake
  /\ UNCHANGED <<dbVars, calls, event, soon, lifeVars>>

(* wake_pending_quota_warnings, in every round of the monitor.             *)
PollWarnings ==
  /\ \E e \in Warnings :
        /\ status[e] = "pending" /\ e \notin waking
        /\ waking' = waking \cup {e}
  /\ UNCHANGED <<dbVars, calls, runVars, lifeVars>>

-----------------------------------------------------------------------------
(* _dispatch.                                                              *)

(* Mutants: the events are taken in any order; the row is not committed as *)
(* calling.                                                                *)
RunTakeAny ==
  /\ runner = "load"
  /\ \E e \in Pending :
        event' = e /\ status' = [status EXCEPT ![e] = "calling"]
  /\ runner' = "call"
  /\ UNCHANGED <<seq, last, calls, waking, rerun, soon, lifeVars>>
RunTakeInMemory ==
  /\ runner = "load"
  /\ event' \in Oldest
  /\ runner' = "call"
  /\ UNCHANGED <<dbVars, calls, waking, rerun, soon, lifeVars>>

RunTake ==
  /\ runner = "load"
  /\ \E e \in Oldest :
        event' = e /\ status' = [status EXCEPT ![e] = "calling"]
  /\ runner' = "call"
  /\ UNCHANGED <<seq, last, calls, waking, rerun, soon, lifeVars>>

(* Nothing is pending: the session is closed before the runner ends.       *)
RunIdle ==
  /\ runner = "load" /\ Pending = {}
  /\ runner' = "leave"
  /\ UNCHANGED <<dbVars, calls, waking, event, rerun, soon, lifeVars>>

RunCall ==
  /\ runner = "call"
  /\ calls' = [calls EXCEPT ![event] = @ + 1]
  /\ runner' = "store"
  /\ UNCHANGED <<dbVars, waking, event, rerun, soon, lifeVars>>

(* An account without a notification function has nothing to call.         *)
RunSkip ==
  /\ runner = "call" /\ event \notin Warnings
  /\ runner' = "store"
  /\ UNCHANGED <<dbVars, calls, waking, event, rerun, soon, lifeVars>>

(* The result is written whatever the row says by now.                     *)
RunStore ==
  /\ runner = "store"
  /\ \E s \in {"succeeded", "failed"} :
        status' = [status EXCEPT ![event] = s]
  /\ runner' = "load" /\ event' = NoEvent
  /\ UNCHANGED <<seq, last, calls, waking, rerun, soon, lifeVars>>

(* An exception, of the database for instance, ends the runner where it is.*)
RunFault ==
  /\ runner \in {"load", "call", "store"}
  /\ interrupts < MaxInterrupts
  /\ interrupts' = interrupts + 1
  /\ runner' = "leave" /\ event' = NoEvent
  /\ UNCHANGED <<dbVars, calls, waking, rerun, soon>>
  /\ UNCHANGED <<phase, unsure, due, crashes>>

(* The finally clause.                                                     *)
(* Mutant: wakes that met the runner are forgotten.                        *)
RunLeaveDeaf ==
  /\ runner = "leave"
  /\ runner' = "off"
  /\ rerun' = FALSE
  /\ UNCHANGED <<dbVars, calls, waking, event, soon, lifeVars>>

RunLeave ==
  /\ runner = "leave"
  /\ runner' = "off"
  /\ soon' = (soon \/ rerun)
  /\ rerun' = FALSE
  /\ UNCHANGED <<dbVars, calls, waking, event, lifeVars>>

RunAgain ==
  /\ soon
  /\ soon' = FALSE
  /\ Wake
  /\ UNCHANGED <<dbVars, calls, waking, event, lifeVars>>

-----------------------------------------------------------------------------
(* The death of the server and its start (app.py, recover_notifications).  *)
Crash ==
  /\ crashes < MaxCrashes
  /\ crashes' = crashes + 1
  /\ phase' = "recovering"
  /\ unsure' = {} /\ due' = {} /\ waking' = {}
  /\ runner' = "off" /\ event' = NoEvent /\ rerun' = FALSE /\ soon' = FALSE
  /\ UNCHANGED <<dbVars, calls, interrupts>>

(* Tickets are recovered, and may run, before the outbox is.               *)
RecoverTickets ==
  /\ phase = "recovering"
  /\ phase' = "scan"
  /\ UNCHANGED <<dbVars, calls, waking, runVars, unsure, due, interrupts, crashes>>

RecoverScan ==
  /\ phase = "scan"
  /\ phase' = "settle"
  /\ unsure' = {e \in Events : status[e] = "calling"}
  /\ due' = Pending
  /\ UNCHANGED <<dbVars, calls, waking, runVars, interrupts, crashes>>

RecoverUnknown ==
  /\ phase = "settle"
  /\ phase' = "up" /\ unsure' = {} /\ due' = {}
  /\ waking' = waking \cup due
  /\ status' = [e \in Events |-> IF e \in unsure THEN "unknown" ELSE status[e]]
  /\ UNCHANGED <<seq, last, calls, runVars, interrupts, crashes>>

-----------------------------------------------------------------------------
OutboxInit ==
  /\ status = [e \in Events |-> "none"] /\ seq = [e \in Events |-> 0]
  /\ last = 0
  /\ calls = [e \in Events |-> 0] /\ waking = {}
  /\ runner = "off" /\ event = NoEvent /\ rerun = FALSE /\ soon = FALSE
  /\ phase = "up" /\ unsure = {} /\ due = {}
  /\ interrupts = 0 /\ crashes = 0

Running ==
  RunTake \/ RunIdle \/ RunCall \/ RunSkip \/ RunStore \/ RunLeave \/ RunAgain
Recovering == RecoverTickets \/ RecoverScan \/ RecoverUnknown

OutboxNext ==
  \/ \E e \in Events : Enqueue(e) \/ WakeUp(e)
  \/ PollWarnings \/ Running \/ RunFault \/ Crash \/ Recovering

OutboxSpec == OutboxInit /\ [][OutboxNext]_outboxVars

(* The event loop runs what is ready, the function has a time limit, and   *)
(* the monitor polls.  Nothing is assumed of events, faults and crashes.   *)
OutboxFairness ==
  /\ WF_outboxVars(Running) /\ WF_outboxVars(Recovering)
  /\ WF_outboxVars(PollWarnings)
  /\ \A e \in Events : WF_outboxVars(WakeUp(e))

OutboxFairSpec == OutboxSpec /\ OutboxFairness

-----------------------------------------------------------------------------
(* What must hold.                                                         *)
OutboxTypeOK ==
  /\ status \in [Events -> Final \cup {"none", "pending", "calling"}]
  /\ seq \in [Events -> Nat] /\ calls \in [Events -> Nat]
  /\ last \in Nat
  /\ waking \subseteq Events
  /\ runner \in {"off", "load", "call", "store", "leave"}
  /\ event \in Events \cup {NoEvent}
  /\ rerun \in BOOLEAN /\ soon \in BOOLEAN
  /\ phase \in {"up", "recovering", "scan", "settle"}
  /\ unsure \subseteq Events /\ due \subseteq Events
  /\ interrupts \in Nat /\ crashes \in Nat

(* No notification is sent twice, whatever crashes and faults come between *)
(* the commit of "calling", the call and its result.                       *)
AtMostOnce == \A e \in Events : calls[e] <= 1

(* The user hears of an account's events in the order in which they were   *)
(* persisted: when one is called, every earlier one has had its turn.      *)
InOrder ==
  [][\A e, f \in Events :
       calls'[e] > calls[e] /\ seq[f] < seq[e] =>
         status[f] # "pending"]_outboxVars

(* As long as no runner fails, every event comes to a known or an unknown  *)
(* end: the one whose wake met a runner that was about to leave, the one   *)
(* that a crash cut off from its wake, and the one whose call was cut off. *)
EveryEventEnds ==
  \A e \in Events :
    status[e] \in {"pending", "calling"} ~>
      status[e] \in Final \/ interrupts > 0
=============================================================================
