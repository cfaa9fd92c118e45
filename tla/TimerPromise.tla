---------------------------- MODULE TimerPromise ----------------------------
(***************************************************************************)
(* What rex::thread::QueueTimerOnce, QueueTimerRecurring and               *)
(* TimerQueueWaitItem::Disarm promise their callers, without rings, lists  *)
(* or compare-exchanges: callbacks run one at a time; a one-shot timer     *)
(* runs at most once; a timer that is off stays off; Disarm returns to a   *)
(* caller only when the timer is off.                                      *)
(***************************************************************************)
CONSTANTS
  Timers,     \* the timers that may be queued
  Recurring   \* those that come back after their callback

VARIABLES
  status,     \* what the timer does
  returned    \* timers a Disarm has returned for

vars == <<status, returned>>

\* "stopping": its callback runs and has disarmed its own timer.
Busy == {"running", "stopping"}

Init ==
  /\ status = [i \in Timers |-> "new"]
  /\ returned = {}

Move(i, from, to) ==
  /\ status[i] \in from
  /\ status' = [status EXCEPT ![i] = to]
  /\ UNCHANGED returned

Queue(i)  == Move(i, {"new"}, "armed")
Start(i)  == (\A j \in Timers : status[j] \notin Busy) /\ Move(i, {"armed"}, "running")
Again(i)  == i \in Recurring /\ Move(i, {"running"}, "armed")
Finish(i) == (i \in Recurring => status[i] = "stopping") /\ Move(i, Busy, "off")
SelfStop(i) == Move(i, {"running"}, "stopping")

\* The disarming of an armed timer and the return of the call are one step.
Stop(i) ==
  /\ status[i] \in {"armed", "off"}
  /\ status' = [status EXCEPT ![i] = "off"]
  /\ returned' = returned \cup {i}

Next == \E i \in Timers :
  Queue(i) \/ Start(i) \/ Again(i) \/ Finish(i) \/ SelfStop(i) \/ Stop(i)

Spec == Init /\ [][Next]_vars
=============================================================================
