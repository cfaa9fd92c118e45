------------------------------ MODULE TimerQueue ------------------------------
(***************************************************************************)
(* rex::thread::TimerQueue (rexglue-sdk/src/core/timer_queue.cpp): the     *)
(* host timers of the emulator.  Any thread queues a wait item through a   *)
(* claim ring; one dispatch thread moves the items into a list sorted by   *)
(* due time and runs their callbacks; any thread, a callback included, may *)
(* disarm an item.                                                         *)
(*                                                                         *)
(* Time is relative: due[i] is the time left before item i is due, it      *)
(* falls with every Tick and stops at -MaxLag (items later than that are   *)
(* not told apart).  The sorted list is a set whose front is any item with *)
(* a minimal due time.  The ring of disruptorplus is its published and     *)
(* unconsumed entries, two counters and the claim barrier.                 *)
(*                                                                         *)
(* An operator named Bad... is a faulty variant of the definition after    *)
(* it: the properties are tested against these, and Next uses none.        *)
(***************************************************************************)
EXTENDS Integers, FiniteSets

CONSTANTS
  Items,        \* wait items the public API queues, each at most once
  Kick,         \* the disarmed item ~TimerQueue queues
  None,         \* no item
  Clients,      \* application threads
  Dispatch,     \* the thread of TimerThreadMain
  kWaitCount,   \* capacity of the ring
  Interval,     \* [Items -> Nat]: 0 for a one-shot item
  Dues,         \* relative due times a caller may ask for, past ones included
  MaxLag,       \* bound: lateness saturates here
  CallbackOps   \* what callbacks do: "queue", "other", "self", "selfAgain"

All     == Items \cup {Kick}
Threads == Clients \cup {Dispatch}

ASSUME TimerQueueAssumption ==
  /\ Kick \notin Items /\ None \notin All
  /\ Dispatch \notin Clients
  /\ kWaitCount \in Nat \ {0}
  /\ Interval \in [Items -> Nat]
  /\ Dues \subseteq Int
  /\ MaxLag \in Nat
  /\ CallbackOps \subseteq {"queue", "other", "self", "selfAgain"}

VARIABLES
  state,          \* TimerQueueWaitItem::state_
  due,            \* TimerQueueWaitItem::due_, relative to now
  queued,         \* items QueueTimer has been called with
  claimed,        \* next sequence claim_one hands out
  ring,           \* published, unconsumed entries of buffer_
  consumed_,      \* next sequence the dispatch thread consumes
  wait_queue_,    \* the sorted list of active timers
  requeue,        \* wait_items, the recurring items of the current pass
  cur,            \* wait_item, the item the dispatch thread holds
  dpc,            \* where TimerThreadMain stands
  pc,             \* where each thread stands in QueueTimer, Disarm or ~TimerQueue
  arg,            \* the item of that call
  seq,            \* the sequence claimed by that call
  dispatch_stop_, \* the stop flag
  cancelled       \* history: items a Disarm has returned for

vars == <<state, due, queued, claimed, ring, consumed_, wait_queue_, requeue,
          cur, dpc, pc, arg, seq, dispatch_stop_, cancelled>>

itemVars  == <<state, due, queued>>
ringVars  == <<claimed, ring, consumed_>>
listVars  == <<wait_queue_, requeue, cur, dpc>>
callVars  == <<pc, arg, seq>>
otherVars == <<dispatch_stop_, cancelled>>

State     == {"Idle", "InCallback", "SelfDisarmed", "Disarmed"}
Running   == {"InCallback", "SelfDisarmed"}
MaxOf(a, b) == IF a >= b THEN a ELSE b
IntervalOf(i) == IF i \in Items THEN Interval[i] ELSE 0

InRing(i)  == \E e \in ring : e.item = i
Queuing(i) == \E t \in Threads : pc[t] = "claim" /\ arg[t] = i
\* Some shared_ptr still holds the item: weak_ptr::lock() succeeds.
Alive(i)   == InRing(i) \/ Queuing(i) \/ i \in wait_queue_ \cup requeue \/ cur = i

Init ==
  /\ state = [i \in All |-> IF i = Kick THEN "Disarmed" ELSE "Idle"]
  /\ due = [i \in All |-> 0]
  /\ queued = {}
  /\ claimed = 0 /\ ring = {} /\ consumed_ = 0
  /\ wait_queue_ = {} /\ requeue = {} /\ cur = None /\ dpc = "head"
  /\ pc = [t \in Threads |-> "idle"]
  /\ arg = [t \in Threads |-> None]
  /\ seq = [t \in Threads |-> 0]
  /\ dispatch_stop_ = FALSE
  /\ cancelled = {}

-----------------------------------------------------------------------------
(* QueueTimer and Disarm, called by a client or by a running callback.     *)

\* The queue is a static object: no client starts a call once its destructor
\* runs.  A callback runs on the dispatch thread.
MayCall(t) ==
  /\ pc[t] = "idle"
  /\ IF t = Dispatch THEN dpc = "callback" ELSE ~dispatch_stop_

\* claim_one hands out the next sequence, then waits for its slot.
BadClaim(t, i) ==
  /\ queued' = queued \cup {i}
  /\ seq' = [seq EXCEPT ![t] = claimed - 1]
  /\ claimed' = claimed + 1
  /\ arg' = [arg EXCEPT ![t] = i]
  /\ pc' = [pc EXCEPT ![t] = "claim"]
Claim(t, i) ==
  /\ queued' = queued \cup {i}
  /\ seq' = [seq EXCEPT ![t] = claimed]
  /\ claimed' = claimed + 1
  /\ arg' = [arg EXCEPT ![t] = i]
  /\ pc' = [pc EXCEPT ![t] = "claim"]

\* "Mitigate callback flooding": due_ = max(now - interval, due).
ClampDue(i, d) == MaxOf(-IntervalOf(i), d)

QueueTimer(t, i) ==
  /\ MayCall(t)
  /\ i \in Items \ queued
  /\ t = Dispatch => "queue" \in CallbackOps
  /\ \E d \in Dues : due' = [due EXCEPT ![i] = ClampDue(i, d)]
  /\ Claim(t, i)
  /\ UNCHANGED <<state, ring, consumed_, listVars, otherVars>>

\* The call is over: its locals are gone.
Leave(t, where) ==
  /\ pc' = [pc EXCEPT ![t] = where]
  /\ arg' = [arg EXCEPT ![t] = None]
  /\ seq' = [seq EXCEPT ![t] = 0]

\* The slot of seq[t] is free when the entry kWaitCount before it is consumed.
SlotFree(s) == s - consumed_ < kWaitCount

Publish(t) ==
  /\ pc[t] = "claim"
  /\ SlotFree(seq[t])
  /\ ring' = ring \cup {[seq |-> seq[t], item |-> arg[t]]}
  /\ Leave(t, IF arg[t] = Kick THEN "join" ELSE "idle")
  /\ UNCHANGED <<itemVars, claimed, consumed_, listVars, otherVars>>

DisarmReturns(t, i) ==
  /\ Leave(t, "idle")
  /\ cancelled' = cancelled \cup {i}

\* What a callback may disarm: itself, itself again, another item.
CallbackMayDisarm(i) ==
  \/ i # cur /\ "other" \in CallbackOps
  \/ i = cur /\ state[i] = "InCallback" /\ "self" \in CallbackOps
  \/ i = cur /\ state[i] = "SelfDisarmed" /\ "selfAgain" \in CallbackOps

\* Callers hold the weak_ptr QueueTimer returned; an expired one is a no-op.
Disarm(t, i) ==
  /\ MayCall(t)
  /\ i \in queued \cap Items /\ ~Queuing(i)
  /\ t = Dispatch => CallbackMayDisarm(i)
  /\ IF Alive(i)
     THEN /\ pc' = [pc EXCEPT ![t] = IF t = Dispatch THEN "selfcas" ELSE "cas"]
          /\ arg' = [arg EXCEPT ![t] = i]
          /\ UNCHANGED <<seq, cancelled>>
     ELSE DisarmReturns(t, i)
  /\ UNCHANGED <<itemVars, ringVars, listVars, dispatch_stop_>>

\* "Special case for calling from a callback itself".
DisarmSelfCas(t) ==
  /\ pc[t] = "selfcas"
  /\ \/ /\ state[arg[t]] = "InCallback"
        /\ state' = [state EXCEPT ![arg[t]] = "SelfDisarmed"]
        /\ Leave(t, "idle")
     \/ /\ state[arg[t]] # "InCallback"
        /\ pc' = [pc EXCEPT ![t] = "cas"]
        /\ UNCHANGED <<state, arg, seq>>
  /\ UNCHANGED <<due, queued, ringVars, listVars, otherVars>>

\* Disarm waits while the callback runs, self-disarmed or not.
BadMustWait(s) == s = "InCallback"
MustWait(s) == s \in Running

\* The weak compare-exchange; a spurious failure only repeats it.
DisarmCas(t) ==
  /\ pc[t] = "cas"
  /\ \/ /\ ~MustWait(state[arg[t]])
        /\ state' = [state EXCEPT ![arg[t]] = "Disarmed"]
        /\ DisarmReturns(t, arg[t])
     \/ /\ MustWait(state[arg[t]])
        /\ pc' = [pc EXCEPT ![t] = "spin"]
        /\ UNCHANGED <<state, arg, seq, cancelled>>
  /\ UNCHANGED <<due, queued, ringVars, listVars, dispatch_stop_>>

DisarmSpin(t) ==
  /\ pc[t] = "spin"
  /\ ~MustWait(state[arg[t]])
  /\ pc' = [pc EXCEPT ![t] = "cas"]
  /\ UNCHANGED <<itemVars, ringVars, listVars, arg, seq, otherVars>>

-----------------------------------------------------------------------------
(* ~TimerQueue.                                                            *)

BadStopDispatch(t) ==
  /\ ~dispatch_stop_
  /\ \A c \in Clients : pc[c] = "idle"
  /\ dispatch_stop_' = TRUE
  /\ pc' = [pc EXCEPT ![t] = "join"]
  /\ UNCHANGED <<itemVars, ringVars, listVars, arg, seq, cancelled>>
StopDispatch(t) ==
  /\ ~dispatch_stop_
  /\ \A c \in Clients : pc[c] = "idle"
  /\ dispatch_stop_' = TRUE
  /\ pc' = [pc EXCEPT ![t] = "kick"]
  /\ UNCHANGED <<itemVars, ringVars, listVars, arg, seq, cancelled>>

QueueKick(t) ==
  /\ pc[t] = "kick"
  /\ Claim(t, Kick)
  /\ UNCHANGED <<state, due, ring, consumed_, listVars, otherVars>>

Join(t) ==
  /\ pc[t] = "join" /\ dpc = "exited"
  /\ pc' = [pc EXCEPT ![t] = "done"]
  /\ UNCHANGED <<itemVars, ringVars, listVars, arg, seq, otherVars>>

-----------------------------------------------------------------------------
(* TimerThreadMain.                                                        *)

IsDue(i) == due[i] <= 0
Front(i) == i \in wait_queue_ /\ \A j \in wait_queue_ : due[i] <= due[j]
Published(s) == \E e \in ring : e.seq = s

LoopHead ==
  /\ dpc = "head"
  /\ dpc' = IF dispatch_stop_ THEN "exited" ELSE "wait"
  /\ UNCHANGED <<itemVars, ringVars, wait_queue_, requeue, cur, callVars, otherVars>>

\* wait_until_published returns the last entry published without a gap.
Available(a) ==
  /\ \A s \in consumed_ .. a : Published(s)
  /\ ~Published(a + 1)

Collect ==
  /\ dpc = "wait"
  /\ Published(consumed_)
  /\ \E a \in consumed_ .. claimed :
       /\ Available(a)
       /\ wait_queue_' = wait_queue_ \cup {e.item : e \in {f \in ring : f.seq <= a}}
       /\ ring' = {e \in ring : e.seq > a}
       /\ consumed_' = a + 1
  /\ dpc' = "check"
  /\ UNCHANGED <<itemVars, claimed, requeue, cur, callVars, otherVars>>

WaitTimeout ==
  /\ dpc = "wait"
  /\ ~Published(consumed_)
  /\ \E i \in wait_queue_ : IsDue(i)
  /\ dpc' = "check"
  /\ UNCHANGED <<itemVars, ringVars, wait_queue_, requeue, cur, callVars, otherVars>>

PopDue(i) ==
  /\ dpc = "check"
  /\ Front(i) /\ IsDue(i)
  /\ wait_queue_' = wait_queue_ \ {i}
  /\ cur' = i
  /\ dpc' = "cas"
  /\ UNCHANGED <<itemVars, ringVars, requeue, callVars, otherVars>>

BadMerged == requeue
Merged == wait_queue_ \cup requeue

EndPass ==
  /\ dpc = "check"
  /\ \A i \in wait_queue_ : ~IsDue(i)
  /\ wait_queue_' = Merged
  /\ requeue' = {}
  /\ dpc' = "head"
  /\ UNCHANGED <<itemVars, ringVars, cur, callVars, otherVars>>

Invoke ==
  /\ dpc = "cas"
  /\ state[cur] = "Idle"
  /\ state' = [state EXCEPT ![cur] = "InCallback"]
  /\ dpc' = "callback"
  /\ UNCHANGED <<due, queued, ringVars, wait_queue_, requeue, cur, callVars, otherVars>>

\* The exchange failed: the item is dropped (and asserted to be disarmed).
Skip ==
  /\ dpc = "cas"
  /\ state[cur] # "Idle"
  /\ cur' = None
  /\ dpc' = "check"
  /\ UNCHANGED <<itemVars, ringVars, wait_queue_, requeue, callVars, otherVars>>

\* A recurring item comes back unless its callback disarmed it.
BadComesBack(i) == IntervalOf(i) # 0
ComesBack(i) == IntervalOf(i) # 0 /\ state[i] # "SelfDisarmed"

CallbackReturns ==
  /\ dpc = "callback" /\ pc[Dispatch] = "idle"
  /\ dpc' = IF ComesBack(cur) THEN "rearm" ELSE "retire"
  /\ UNCHANGED <<itemVars, ringVars, wait_queue_, requeue, cur, callVars, otherVars>>

BadRearm ==
  /\ dpc = "rearm"
  /\ due' = [due EXCEPT ![cur] = @ + IntervalOf(cur)]
  /\ state' = [state EXCEPT ![cur] = "Idle"]
  /\ wait_queue_' = wait_queue_ \cup {cur}
  /\ cur' = None
  /\ dpc' = "check"
  /\ UNCHANGED <<queued, ringVars, requeue, callVars, otherVars>>
Rearm ==
  /\ dpc = "rearm"
  /\ due' = [due EXCEPT ![cur] = @ + IntervalOf(cur)]
  /\ state' = [state EXCEPT ![cur] = "Idle"]
  /\ requeue' = requeue \cup {cur}
  /\ cur' = None
  /\ dpc' = "check"
  /\ UNCHANGED <<queued, ringVars, wait_queue_, callVars, otherVars>>

BadRetire ==
  /\ dpc = "retire"
  /\ cur' = None
  /\ dpc' = "check"
  /\ UNCHANGED <<itemVars, ringVars, wait_queue_, requeue, callVars, otherVars>>
Retire ==
  /\ dpc = "retire"
  /\ state' = [state EXCEPT ![cur] = "Disarmed"]
  /\ cur' = None
  /\ dpc' = "check"
  /\ UNCHANGED <<due, queued, ringVars, wait_queue_, requeue, callVars, otherVars>>

-----------------------------------------------------------------------------
Tick ==
  /\ \E i \in All : Alive(i) /\ due[i] > -MaxLag
  /\ due' = [i \in All |-> IF Alive(i) THEN MaxOf(due[i] - 1, -MaxLag) ELSE due[i]]
  /\ UNCHANGED <<state, queued, ringVars, listVars, callVars, otherVars>>

DispatchStep ==
  LoopHead \/ Collect \/ WaitTimeout \/ (\E i \in All : PopDue(i)) \/ EndPass
    \/ Invoke \/ Skip \/ CallbackReturns \/ Rearm \/ Retire

\* What a thread does once inside a call.
CallStep(t) ==
  Publish(t) \/ DisarmSelfCas(t) \/ DisarmCas(t) \/ DisarmSpin(t)

DestructorStep(t) == QueueKick(t) \/ Join(t)

\* The process is over when the destructor has returned.
Terminated == (\E t \in Clients : pc[t] = "done") /\ UNCHANGED vars

Next ==
  \/ \E t \in Threads, i \in Items : QueueTimer(t, i) \/ Disarm(t, i)
  \/ \E t \in Threads : CallStep(t)
  \/ \E t \in Clients : StopDispatch(t) \/ DestructorStep(t)
  \/ DispatchStep
  \/ Tick
  \/ Terminated

Spec == Init /\ [][Next]_vars

\* Every thread that can run runs, and every callback returns: the only one in
\* the repository is PosixCondition<Timer>::CompletionRoutine, which signals and
\* calls a short host function.
Fairness ==
  /\ WF_vars(DispatchStep)
  /\ SF_vars(CallbackReturns)
  /\ \A t \in Threads : WF_vars(CallStep(t))
  /\ \A t \in Clients : WF_vars(DestructorStep(t))

FairSpec == Spec /\ Fairness

-----------------------------------------------------------------------------
(* Properties.                                                             *)

Entry == [seq : Nat, item : All]

TypeOK ==
  /\ state \in [All -> State]
  /\ due \in [All -> Int]
  /\ queued \subseteq All
  /\ claimed \in Nat /\ ring \subseteq Entry /\ consumed_ \in Nat
  /\ wait_queue_ \subseteq All /\ requeue \subseteq All
  /\ cur \in All \cup {None}
  /\ dpc \in {"head", "wait", "check", "cas", "callback", "rearm", "retire", "exited"}
  /\ pc \in [Threads -> {"idle", "claim", "selfcas", "cas", "spin", "kick", "join", "done"}]
  /\ arg \in [Threads -> All \cup {None}]
  /\ seq \in [Threads -> Nat]
  /\ dispatch_stop_ \in BOOLEAN
  /\ cancelled \subseteq Items

\* The comment in TimerQueueWaitItem::Disarm: no callback is running, and none
\* will, once Disarm has returned (to a caller that is not that callback).
NoCallbackAfterDisarm ==
  \A i \in cancelled :
    state[i] = "Disarmed" /\ ~(cur = i /\ dpc \in {"callback", "rearm", "retire"})

\* The assertion of TimerThreadMain: an item whose exchange fails is disarmed,
\* "kInCallback is illegal here".
CasFailureMeansDisarmed ==
  dpc = "cas" => state[cur] \in {"Idle", "Disarmed"}

\* An armed timer is never lost between the ring, the sorted list and the list
\* of the current pass: while it is armed a shared_ptr of the queue holds it, so
\* that Disarm through the weak_ptr reaches it.
ArmedIsAlive ==
  \A i \in queued : state[i] # "Disarmed" => Alive(i)

\* No slot of the ring is written while it holds an entry the dispatch thread
\* has not moved out, and no entry is skipped by consumption.
RingNeverOverrun ==
  /\ \A e \in ring : consumed_ <= e.seq /\ e.seq < consumed_ + kWaitCount
  /\ \A e, f \in ring : e.seq = f.seq => e = f
  /\ \A t \in Threads : pc[t] = "claim" => consumed_ <= seq[t]

\* The way of an item from the ring through the lists and the exchanges back to
\* where Disarm can find it: nothing overwrites it, drops it or runs it twice.
ItemsAreTracked == RingNeverOverrun /\ ArmedIsAlive /\ CasFailureMeansDisarmed

\* A due armed timer is fired or disarmed unless the queue stops, however late the
\* recurring timers run: each pass ends, and the ring is read between passes.
DueTimerRuns ==
  \A i \in Items :
    (i \in queued /\ state[i] = "Idle" /\ due[i] <= 0)
      ~> (state[i] # "Idle" \/ dispatch_stop_)

\* Disarm of a one-shot item returns, on whatever thread it is called.
DisarmTerminates ==
  \A t \in Threads, i \in Items :
    (pc[t] \in {"selfcas", "cas", "spin"} /\ arg[t] = i /\ Interval[i] = 0)
      ~> (pc[t] = "idle")

\* ~TimerQueue returns: the kick wakes the dispatch thread, which sees the flag.
DestructorReturns ==
  dispatch_stop_ ~> \E t \in Clients : pc[t] = "done"

\* The state of an item, once it is queued, read as the status of a timer.
ShownAs(s) ==
  CASE s = "Idle"         -> "armed"
    [] s = "InCallback"   -> "running"
    [] s = "SelfDisarmed" -> "stopping"
    [] s = "Disarmed"     -> "off"
Status(i) == IF i \in queued THEN ShownAs(state[i]) ELSE "new"

\* The queue keeps what its interface promises: the rings, the lists and the
\* exchanges of timer_queue.cpp implement TimerPromise.
Promise == INSTANCE TimerPromise WITH
  Timers <- Items,
  Recurring <- {i \in Items : Interval[i] # 0},
  status <- [i \in Items |-> Status(i)],
  returned <- cancelled

PromiseSpec == Promise!Spec
=============================================================================
