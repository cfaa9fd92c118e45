-------------------------- MODULE TimerQueueProofs --------------------------
(***************************************************************************)
(* Proofs about TimerQueue, for any items, threads, intervals, due times   *)
(* and ring capacity.  Everything rests on one inductive invariant, IInv:  *)
(* the types, where the dispatch thread stands with respect to the running *)
(* states (CallbackInv), who holds an item (HolderInv, ArmedIsAlive) and   *)
(* the sequences of the ring (SeqInv).                                     *)
(***************************************************************************)
EXTENDS TimerQueue, TLAPS

USE DEF All, Threads

\* A running state belongs to the item the dispatch thread holds, between the
\* exchange that took it and the store that ends the callback.
CallbackInv ==
  /\ dpc \in {"cas", "callback", "rearm", "retire"} <=> cur # None
  /\ \A i \in All : state[i] \in Running
                      => cur = i /\ dpc \in {"callback", "rearm", "retire"}
  /\ dpc \in {"callback", "rearm", "retire"} => state[cur] \in Running
  /\ dpc = "rearm" => state[cur] = "InCallback" /\ IntervalOf(cur) # 0
  /\ dpc = "retire" => state[cur] = "SelfDisarmed" \/ IntervalOf(cur) = 0
  /\ pc[Dispatch] # "idle" => dpc = "callback"
  /\ \A t \in Threads : pc[t] = "selfcas" => t = Dispatch

\* Whatever holds an item got it from QueueTimer; a thread in Disarm has an item
\* that was queued; a returned Disarm left its item disarmed.
HolderInv ==
  /\ \A i \in All : Alive(i) => i \in queued
  /\ \A t \in Threads : pc[t] \in {"selfcas", "cas", "spin"} => arg[t] \in Items \cap queued
  /\ \A t \in Threads : pc[t] = "claim" => arg[t] \in queued
  /\ \A i \in cancelled : i \in queued /\ state[i] = "Disarmed"
  /\ \A i \in Items \ queued : state[i] = "Idle"
  /\ state[Kick] = "Disarmed"

\* Sequences are handed out once, and only published ones are consumed.
SeqInv ==
  /\ \A e \in ring : e.seq < claimed
  /\ \A t \in Threads : pc[t] = "claim" => seq[t] < claimed
  /\ \A t \in Threads, e \in ring : pc[t] = "claim" => seq[t] # e.seq
  /\ \A t, u \in Threads : pc[t] = "claim" /\ pc[u] = "claim" /\ seq[t] = seq[u] => t = u
  /\ consumed_ <= claimed

IInv == TypeOK /\ CallbackInv /\ HolderInv /\ ArmedIsAlive /\ SeqInv /\ RingNeverOverrun

-----------------------------------------------------------------------------
\* TypeOK is preserved by every step.
LEMMA TypeStep == IInv /\ [Next]_vars => TypeOK'
<1> SUFFICES ASSUME IInv, [Next]_vars PROVE TypeOK'
  OBVIOUS
<1> USE TimerQueueAssumption DEF IInv, TypeOK, CallbackInv, HolderInv, State, Running, Entry, IntervalOf, itemVars, ringVars, listVars, callVars, otherVars
<1>1. ASSUME NEW t \in Threads, NEW i \in Items, QueueTimer(t, i) PROVE TypeOK'
  BY <1>1 DEF QueueTimer, Claim, MayCall, ClampDue, MaxOf
<1>2. ASSUME NEW t \in Threads, NEW i \in Items, Disarm(t, i) PROVE TypeOK'
  BY <1>2 DEF Disarm, MayCall, DisarmReturns, Leave
<1>3. ASSUME NEW t \in Threads, Publish(t) PROVE TypeOK'
  BY <1>3 DEF Publish, Leave, SlotFree
<1>4. ASSUME NEW t \in Threads, DisarmSelfCas(t) PROVE TypeOK'
  BY <1>4 DEF DisarmSelfCas, Leave
<1>5. ASSUME NEW t \in Threads, DisarmCas(t) PROVE TypeOK'
  BY <1>5 DEF DisarmCas, DisarmReturns, Leave, MustWait
<1>6. ASSUME NEW t \in Threads, DisarmSpin(t) PROVE TypeOK'
  BY <1>6 DEF DisarmSpin, MustWait
<1>7. ASSUME NEW t \in Clients, StopDispatch(t) PROVE TypeOK'
  BY <1>7 DEF StopDispatch
<1>8. ASSUME NEW t \in Clients, QueueKick(t) PROVE TypeOK'
  BY <1>8 DEF QueueKick, Claim
<1>9. ASSUME NEW t \in Clients, Join(t) PROVE TypeOK'
  BY <1>9 DEF Join
<1>10. CASE LoopHead
  BY <1>10 DEF LoopHead
<1>11. CASE Collect
  BY <1>11 DEF Collect, Available, Published
<1>12. CASE WaitTimeout
  BY <1>12 DEF WaitTimeout
<1>13. ASSUME NEW i \in All, PopDue(i) PROVE TypeOK'
  BY <1>13 DEF PopDue, Front, IsDue
<1>14. CASE EndPass
  BY <1>14 DEF EndPass, Merged, IsDue
<1>15. CASE Invoke
  BY <1>15 DEF Invoke
<1>16. CASE Skip
  BY <1>16 DEF Skip
<1>17. CASE CallbackReturns
  BY <1>17 DEF CallbackReturns, ComesBack
<1>18. CASE Rearm
  BY <1>18 DEF Rearm
<1>19. CASE Retire
  BY <1>19 DEF Retire
<1>20. CASE Tick
  BY <1>20 DEF Tick, MaxOf
<1>21. CASE UNCHANGED vars
  BY <1>21 DEF vars, itemVars, ringVars, listVars, callVars, otherVars
<1> QED
  BY <1>1, <1>2, <1>3, <1>4, <1>5, <1>6, <1>7, <1>8, <1>9, <1>10, <1>11, <1>12, <1>13, <1>14, <1>15, <1>16, <1>17, <1>18, <1>19, <1>20, <1>21 DEF Next, CallStep, DestructorStep, DispatchStep, Terminated

\* CallbackInv: only the dispatch thread enters and leaves the running states.
LEMMA CallbackStep == IInv /\ [Next]_vars => CallbackInv'
<1> SUFFICES ASSUME IInv, [Next]_vars PROVE CallbackInv'
  OBVIOUS
<1> USE TimerQueueAssumption DEF IInv, TypeOK, CallbackInv, HolderInv, Running, IntervalOf, itemVars, ringVars, listVars, callVars, otherVars
<1>1. ASSUME NEW t \in Threads, NEW i \in Items, QueueTimer(t, i) PROVE CallbackInv'
  BY <1>1 DEF QueueTimer, Claim, MayCall, ClampDue, MaxOf
<1>2. ASSUME NEW t \in Threads, NEW i \in Items, Disarm(t, i) PROVE CallbackInv'
  BY <1>2 DEF Disarm, MayCall, DisarmReturns, Leave
<1>3. ASSUME NEW t \in Threads, Publish(t) PROVE CallbackInv'
  BY <1>3 DEF Publish, Leave, SlotFree
<1>4. ASSUME NEW t \in Threads, DisarmSelfCas(t) PROVE CallbackInv'
  BY <1>4 DEF DisarmSelfCas, Leave
<1>5. ASSUME NEW t \in Threads, DisarmCas(t) PROVE CallbackInv'
  BY <1>5 DEF DisarmCas, DisarmReturns, Leave, MustWait
<1>6. ASSUME NEW t \in Threads, DisarmSpin(t) PROVE CallbackInv'
  BY <1>6 DEF DisarmSpin, MustWait
<1>7. ASSUME NEW t \in Clients, StopDispatch(t) PROVE CallbackInv'
  BY <1>7 DEF StopDispatch
<1>8. ASSUME NEW t \in Clients, QueueKick(t) PROVE CallbackInv'
  BY <1>8 DEF QueueKick, Claim
<1>9. ASSUME NEW t \in Clients, Join(t) PROVE CallbackInv'
  BY <1>9 DEF Join
<1>10. CASE LoopHead
  BY <1>10 DEF LoopHead
<1>11. CASE Collect
  BY <1>11 DEF Collect, Available, Published
<1>12. CASE WaitTimeout
  BY <1>12 DEF WaitTimeout
<1>13. ASSUME NEW i \in All, PopDue(i) PROVE CallbackInv'
  BY <1>13 DEF PopDue, Front, IsDue
<1>14. CASE EndPass
  BY <1>14 DEF EndPass, Merged, IsDue
<1>15. CASE Invoke
  BY <1>15 DEF Invoke
<1>16. CASE Skip
  BY <1>16 DEF Skip
<1>17. CASE CallbackReturns
  BY <1>17 DEF CallbackReturns, ComesBack
<1>18. CASE Rearm
  BY <1>18 DEF Rearm
<1>19. CASE Retire
  BY <1>19 DEF Retire
<1>20. CASE Tick
  BY <1>20 DEF Tick, MaxOf
<1>21. CASE UNCHANGED vars
  BY <1>21 DEF vars, itemVars, ringVars, listVars, callVars, otherVars
<1> QED
  BY <1>1, <1>2, <1>3, <1>4, <1>5, <1>6, <1>7, <1>8, <1>9, <1>10, <1>11, <1>12, <1>13, <1>14, <1>15, <1>16, <1>17, <1>18, <1>19, <1>20, <1>21 DEF Next, CallStep, DestructorStep, DispatchStep, Terminated

\* HolderInv: items come from QueueTimer, and a disarmed item stays disarmed.
LEMMA HolderStep == IInv /\ [Next]_vars => HolderInv'
<1> SUFFICES ASSUME IInv, [Next]_vars PROVE HolderInv'
  OBVIOUS
<1> USE TimerQueueAssumption DEF IInv, TypeOK, CallbackInv, HolderInv, ArmedIsAlive, State, Running, Alive, InRing, Queuing, itemVars, ringVars, listVars, callVars, otherVars
<1>1. ASSUME NEW t \in Threads, NEW i \in Items, QueueTimer(t, i) PROVE HolderInv'
  BY <1>1 DEF QueueTimer, Claim, MayCall, ClampDue, MaxOf
<1>2. ASSUME NEW t \in Threads, NEW i \in Items, Disarm(t, i) PROVE HolderInv'
  BY <1>2 DEF Disarm, MayCall, DisarmReturns, Leave
<1>3. ASSUME NEW t \in Threads, Publish(t) PROVE HolderInv'
  BY <1>3 DEF Publish, Leave, SlotFree
<1>4. ASSUME NEW t \in Threads, DisarmSelfCas(t) PROVE HolderInv'
  BY <1>4 DEF DisarmSelfCas, Leave
<1>5. ASSUME NEW t \in Threads, DisarmCas(t) PROVE HolderInv'
  BY <1>5 DEF DisarmCas, DisarmReturns, Leave, MustWait
<1>6. ASSUME NEW t \in Threads, DisarmSpin(t) PROVE HolderInv'
  BY <1>6 DEF DisarmSpin, MustWait
<1>7. ASSUME NEW t \in Clients, StopDispatch(t) PROVE HolderInv'
  BY <1>7 DEF StopDispatch
<1>8. ASSUME NEW t \in Clients, QueueKick(t) PROVE HolderInv'
  BY <1>8 DEF QueueKick, Claim
<1>9. ASSUME NEW t \in Clients, Join(t) PROVE HolderInv'
  BY <1>9 DEF Join
<1>10. CASE LoopHead
  BY <1>10 DEF LoopHead
<1>11. CASE Collect
  BY <1>11 DEF Collect, Available, Published
<1>12. CASE WaitTimeout
  BY <1>12 DEF WaitTimeout
<1>13. ASSUME NEW i \in All, PopDue(i) PROVE HolderInv'
  BY <1>13 DEF PopDue, Front, IsDue
<1>14. CASE EndPass
  BY <1>14 DEF EndPass, Merged, IsDue
<1>15. CASE Invoke
  BY <1>15 DEF Invoke
<1>16. CASE Skip
  BY <1>16 DEF Skip
<1>17. CASE CallbackReturns
  BY <1>17 DEF CallbackReturns, ComesBack
<1>18. CASE Rearm
  BY <1>18 DEF Rearm
<1>19. CASE Retire
  BY <1>19 DEF Retire
<1>20. CASE Tick
  BY <1>20 DEF Tick, MaxOf
<1>21. CASE UNCHANGED vars
  BY <1>21 DEF vars, itemVars, ringVars, listVars, callVars, otherVars
<1> QED
  BY <1>1, <1>2, <1>3, <1>4, <1>5, <1>6, <1>7, <1>8, <1>9, <1>10, <1>11, <1>12, <1>13, <1>14, <1>15, <1>16, <1>17, <1>18, <1>19, <1>20, <1>21 DEF Next, CallStep, DestructorStep, DispatchStep, Terminated

\* An armed item moves between its holders and is never dropped by the last one.
LEMMA AliveStep == IInv /\ [Next]_vars => ArmedIsAlive'
<1> SUFFICES ASSUME IInv, [Next]_vars PROVE ArmedIsAlive'
  OBVIOUS
<1> USE TimerQueueAssumption DEF IInv, TypeOK, CallbackInv, HolderInv, ArmedIsAlive, State, Running, Alive, InRing, Queuing, itemVars, ringVars, listVars, callVars, otherVars
<1>1. ASSUME NEW t \in Threads, NEW i \in Items, QueueTimer(t, i) PROVE ArmedIsAlive'
  BY <1>1 DEF QueueTimer, Claim, MayCall, ClampDue, MaxOf
<1>2. ASSUME NEW t \in Threads, NEW i \in Items, Disarm(t, i) PROVE ArmedIsAlive'
  BY <1>2 DEF Disarm, MayCall, DisarmReturns, Leave
<1>3. ASSUME NEW t \in Threads, Publish(t) PROVE ArmedIsAlive'
  \* The item of the call moves from the caller to the ring.
  <2>1. [seq |-> seq[t], item |-> arg[t]] \in ring' /\ ring \subseteq ring'
    BY <1>3 DEF Publish
  <2>2. \E e \in ring' : e.item = arg[t]
    <3>1. [seq |-> seq[t], item |-> arg[t]].item = arg[t]
      OBVIOUS
    <3> QED  BY <2>1, <3>1
  <2>3. ASSUME NEW i \in queued, state[i] # "Disarmed" PROVE Alive(i)'
    <3>1. CASE i = arg[t]
      <4>1. InRing(i)'
        BY <2>2, <3>1 DEF InRing
      <4> QED  BY <4>1 DEF Alive
    <3>2. CASE i # arg[t]
      BY <1>3, <2>1, <2>3, <3>2 DEF Publish, Leave
    <3> QED  BY <3>1, <3>2
  <2> QED  BY <1>3, <2>3 DEF Publish
<1>4. ASSUME NEW t \in Threads, DisarmSelfCas(t) PROVE ArmedIsAlive'
  BY <1>4 DEF DisarmSelfCas, Leave
<1>5. ASSUME NEW t \in Threads, DisarmCas(t) PROVE ArmedIsAlive'
  BY <1>5 DEF DisarmCas, DisarmReturns, Leave, MustWait
<1>6. ASSUME NEW t \in Threads, DisarmSpin(t) PROVE ArmedIsAlive'
  BY <1>6 DEF DisarmSpin, MustWait
<1>7. ASSUME NEW t \in Clients, StopDispatch(t) PROVE ArmedIsAlive'
  BY <1>7 DEF StopDispatch
<1>8. ASSUME NEW t \in Clients, QueueKick(t) PROVE ArmedIsAlive'
  BY <1>8 DEF QueueKick, Claim
<1>9. ASSUME NEW t \in Clients, Join(t) PROVE ArmedIsAlive'
  BY <1>9 DEF Join
<1>10. CASE LoopHead
  BY <1>10 DEF LoopHead
<1>11. CASE Collect
  \* The items consumed from the ring are exactly those the list receives.
  <2>1. PICK a \in Int :
          /\ wait_queue_' = wait_queue_ \cup {e.item : e \in {f \in ring : f.seq <= a}}
          /\ ring' = {e \in ring : e.seq > a}
    BY <1>11 DEF Collect
  <2>2. ASSUME NEW i \in queued, InRing(i) PROVE InRing(i)' \/ i \in wait_queue_'
    <3>1. PICK e \in ring : e.item = i
      BY <2>2 DEF InRing
    <3>2. e.seq <= a \/ e.seq > a
      BY DEF Entry
    <3> QED  BY <2>1, <3>1, <3>2 DEF InRing
  <2> QED  BY <1>11, <2>2 DEF Collect
<1>12. CASE WaitTimeout
  BY <1>12 DEF WaitTimeout
<1>13. ASSUME NEW i \in All, PopDue(i) PROVE ArmedIsAlive'
  BY <1>13 DEF PopDue, Front, IsDue
<1>14. CASE EndPass
  BY <1>14 DEF EndPass, Merged, IsDue
<1>15. CASE Invoke
  BY <1>15 DEF Invoke
<1>16. CASE Skip
  BY <1>16 DEF Skip
<1>17. CASE CallbackReturns
  BY <1>17 DEF CallbackReturns, ComesBack
<1>18. CASE Rearm
  BY <1>18 DEF Rearm
<1>19. CASE Retire
  BY <1>19 DEF Retire
<1>20. CASE Tick
  BY <1>20 DEF Tick, MaxOf
<1>21. CASE UNCHANGED vars
  BY <1>21 DEF vars, itemVars, ringVars, listVars, callVars, otherVars
<1> QED
  BY <1>1, <1>2, <1>3, <1>4, <1>5, <1>6, <1>7, <1>8, <1>9, <1>10, <1>11, <1>12, <1>13, <1>14, <1>15, <1>16, <1>17, <1>18, <1>19, <1>20, <1>21 DEF Next, CallStep, DestructorStep, DispatchStep, Terminated

\* Claimed sequences stay distinct; consumption stops at the first gap.
LEMMA SeqStep == IInv /\ [Next]_vars => SeqInv'
<1> SUFFICES ASSUME IInv, [Next]_vars PROVE SeqInv'
  OBVIOUS
<1> USE TimerQueueAssumption DEF IInv, TypeOK, SeqInv, RingNeverOverrun, Entry, itemVars, ringVars, listVars, callVars, otherVars
<1>1. ASSUME NEW t \in Threads, NEW i \in Items, QueueTimer(t, i) PROVE SeqInv'
  BY <1>1 DEF QueueTimer, Claim, MayCall, ClampDue, MaxOf
<1>2. ASSUME NEW t \in Threads, NEW i \in Items, Disarm(t, i) PROVE SeqInv'
  BY <1>2 DEF Disarm, MayCall, DisarmReturns, Leave
<1>3. ASSUME NEW t \in Threads, Publish(t) PROVE SeqInv'
  BY <1>3 DEF Publish, Leave, SlotFree
<1>4. ASSUME NEW t \in Threads, DisarmSelfCas(t) PROVE SeqInv'
  BY <1>4 DEF DisarmSelfCas, Leave
<1>5. ASSUME NEW t \in Threads, DisarmCas(t) PROVE SeqInv'
  BY <1>5 DEF DisarmCas, DisarmReturns, Leave, MustWait
<1>6. ASSUME NEW t \in Threads, DisarmSpin(t) PROVE SeqInv'
  BY <1>6 DEF DisarmSpin, MustWait
<1>7. ASSUME NEW t \in Clients, StopDispatch(t) PROVE SeqInv'
  BY <1>7 DEF StopDispatch
<1>8. ASSUME NEW t \in Clients, QueueKick(t) PROVE SeqInv'
  BY <1>8 DEF QueueKick, Claim
<1>9. ASSUME NEW t \in Clients, Join(t) PROVE SeqInv'
  BY <1>9 DEF Join
<1>10. CASE LoopHead
  BY <1>10 DEF LoopHead
<1>11. CASE Collect
  BY <1>11 DEF Collect, Available, Published
<1>12. CASE WaitTimeout
  BY <1>12 DEF WaitTimeout
<1>13. ASSUME NEW i \in All, PopDue(i) PROVE SeqInv'
  BY <1>13 DEF PopDue, Front, IsDue
<1>14. CASE EndPass
  BY <1>14 DEF EndPass, Merged, IsDue
<1>15. CASE Invoke
  BY <1>15 DEF Invoke
<1>16. CASE Skip
  BY <1>16 DEF Skip
<1>17. CASE CallbackReturns
  BY <1>17 DEF CallbackReturns, ComesBack
<1>18. CASE Rearm
  BY <1>18 DEF Rearm
<1>19. CASE Retire
  BY <1>19 DEF Retire
<1>20. CASE Tick
  BY <1>20 DEF Tick, MaxOf
<1>21. CASE UNCHANGED vars
  BY <1>21 DEF vars, itemVars, ringVars, listVars, callVars, otherVars
<1> QED
  BY <1>1, <1>2, <1>3, <1>4, <1>5, <1>6, <1>7, <1>8, <1>9, <1>10, <1>11, <1>12, <1>13, <1>14, <1>15, <1>16, <1>17, <1>18, <1>19, <1>20, <1>21 DEF Next, CallStep, DestructorStep, DispatchStep, Terminated

\* A slot is written only when the entry that used it has been consumed.
LEMMA RingStep == IInv /\ [Next]_vars => RingNeverOverrun'
<1> SUFFICES ASSUME IInv, [Next]_vars PROVE RingNeverOverrun'
  OBVIOUS
<1> USE TimerQueueAssumption DEF IInv, TypeOK, SeqInv, RingNeverOverrun, Entry, itemVars, ringVars, listVars, callVars, otherVars
<1>1. ASSUME NEW t \in Threads, NEW i \in Items, QueueTimer(t, i) PROVE RingNeverOverrun'
  BY <1>1 DEF QueueTimer, Claim, MayCall, ClampDue, MaxOf
<1>2. ASSUME NEW t \in Threads, NEW i \in Items, Disarm(t, i) PROVE RingNeverOverrun'
  BY <1>2 DEF Disarm, MayCall, DisarmReturns, Leave
<1>3. ASSUME NEW t \in Threads, Publish(t) PROVE RingNeverOverrun'
  BY <1>3 DEF Publish, Leave, SlotFree
<1>4. ASSUME NEW t \in Threads, DisarmSelfCas(t) PROVE RingNeverOverrun'
  BY <1>4 DEF DisarmSelfCas, Leave
<1>5. ASSUME NEW t \in Threads, DisarmCas(t) PROVE RingNeverOverrun'
  BY <1>5 DEF DisarmCas, DisarmReturns, Leave, MustWait
<1>6. ASSUME NEW t \in Threads, DisarmSpin(t) PROVE RingNeverOverrun'
  BY <1>6 DEF DisarmSpin, MustWait
<1>7. ASSUME NEW t \in Clients, StopDispatch(t) PROVE RingNeverOverrun'
  BY <1>7 DEF StopDispatch
<1>8. ASSUME NEW t \in Clients, QueueKick(t) PROVE RingNeverOverrun'
  BY <1>8 DEF QueueKick, Claim
<1>9. ASSUME NEW t \in Clients, Join(t) PROVE RingNeverOverrun'
  BY <1>9 DEF Join
<1>10. CASE LoopHead
  BY <1>10 DEF LoopHead
<1>11. CASE Collect
  BY <1>11 DEF Collect, Available, Published
<1>12. CASE WaitTimeout
  BY <1>12 DEF WaitTimeout
<1>13. ASSUME NEW i \in All, PopDue(i) PROVE RingNeverOverrun'
  BY <1>13 DEF PopDue, Front, IsDue
<1>14. CASE EndPass
  BY <1>14 DEF EndPass, Merged, IsDue
<1>15. CASE Invoke
  BY <1>15 DEF Invoke
<1>16. CASE Skip
  BY <1>16 DEF Skip
<1>17. CASE CallbackReturns
  BY <1>17 DEF CallbackReturns, ComesBack
<1>18. CASE Rearm
  BY <1>18 DEF Rearm
<1>19. CASE Retire
  BY <1>19 DEF Retire
<1>20. CASE Tick
  BY <1>20 DEF Tick, MaxOf
<1>21. CASE UNCHANGED vars
  BY <1>21 DEF vars, itemVars, ringVars, listVars, callVars, otherVars
<1> QED
  BY <1>1, <1>2, <1>3, <1>4, <1>5, <1>6, <1>7, <1>8, <1>9, <1>10, <1>11, <1>12, <1>13, <1>14, <1>15, <1>16, <1>17, <1>18, <1>19, <1>20, <1>21 DEF Next, CallStep, DestructorStep, DispatchStep, Terminated

-----------------------------------------------------------------------------
(* The invariant and what follows from it.                                 *)

\* The initial states satisfy the invariant.
LEMMA InitIInv == Init => IInv
<1> SUFFICES ASSUME Init PROVE IInv
  OBVIOUS
<1> USE TimerQueueAssumption DEF Init
<1>1. TypeOK
  <2>1. state \in [All -> State] /\ due \in [All -> Int]
    BY DEF State
  <2>2. pc \in [Threads -> {"idle", "claim", "selfcas", "cas", "spin", "kick", "join", "done"}]
    OBVIOUS
  <2>3. arg \in [Threads -> All \cup {None}] /\ seq \in [Threads -> Nat]
    OBVIOUS
  <2> QED  BY <2>1, <2>2, <2>3 DEF TypeOK
<1>2. CallbackInv
  BY DEF CallbackInv, Running
<1>3. HolderInv /\ ArmedIsAlive
  BY DEF HolderInv, ArmedIsAlive, Alive, InRing, Queuing
<1>4. SeqInv /\ RingNeverOverrun
  BY DEF SeqInv, RingNeverOverrun
<1> QED  BY <1>1, <1>2, <1>3, <1>4 DEF IInv

\* IInv is an invariant of TimerQueue.
THEOREM Invariance == Spec => []IInv
<1>1. IInv /\ [Next]_vars => IInv'
  BY TypeStep, CallbackStep, HolderStep, AliveStep, SeqStep, RingStep DEF IInv
<1> QED  BY InitIInv, <1>1, PTL DEF Spec

\* The variables keep their types.
THEOREM TypeCorrect == Spec => []TypeOK
<1>1. IInv => TypeOK
  BY DEF IInv
<1> QED  BY Invariance, <1>1, PTL

\* Once Disarm has returned to a caller, the callback neither runs nor will run:
\* the guarantee callers of TimerQueueWaitItem::Disarm rely on to free its data.
THEOREM DisarmGuarantee == Spec => []NoCallbackAfterDisarm
<1>1. IInv => NoCallbackAfterDisarm
  BY DEF IInv, TypeOK, CallbackInv, HolderInv, NoCallbackAfterDisarm, Running
<1> QED  BY Invariance, <1>1, PTL

\* The assertion in TimerThreadMain never fails.
THEOREM AssertionHolds == Spec => []CasFailureMeansDisarmed
<1>1. IInv => CasFailureMeansDisarmed
  BY TimerQueueAssumption
     DEF IInv, TypeOK, CallbackInv, CasFailureMeansDisarmed, Running, State
<1> QED  BY Invariance, <1>1, PTL

\* No armed timer is lost by the queue.
THEOREM NoTimerLost == Spec => []ArmedIsAlive
<1>1. IInv => ArmedIsAlive
  BY DEF IInv
<1> QED  BY Invariance, <1>1, PTL

\* The ring never overwrites an unconsumed entry, whatever its capacity.
THEOREM RingSafe == Spec => []RingNeverOverrun
<1>1. IInv => RingNeverOverrun
  BY DEF IInv
<1> QED  BY Invariance, <1>1, PTL

\* From the ring through the lists to the exchanges no armed timer gets lost.
THEOREM ItemsTracked == Spec => []ItemsAreTracked
<1>1. RingNeverOverrun /\ ArmedIsAlive /\ CasFailureMeansDisarmed => ItemsAreTracked
  BY DEF ItemsAreTracked
<1> QED  BY RingSafe, NoTimerLost, AssertionHolds, <1>1, PTL

-----------------------------------------------------------------------------
(* TimerQueue implements TimerPromise.                                     *)

\* An item whose status alone changes makes a move of the promise.
LEMMA Moves ==
  ASSUME NEW i \in Items, NEW from, NEW to,
         Status(i) \in from, Status(i)' = to,
         \A j \in Items \ {i} : Status(j)' = Status(j), UNCHANGED cancelled
  PROVE  Promise!Move(i, from, to)
BY DEF Promise!Move

\* A queued item whose state alone is stored makes the corresponding move.
LEMMA StatusMoves ==
  ASSUME TypeOK, NEW i \in Items \cap queued, NEW s \in State, NEW from,
         state' = [state EXCEPT ![i] = s], UNCHANGED <<queued, cancelled>>,
         ShownAs(state[i]) \in from
  PROVE  Promise!Move(i, from, ShownAs(s))
<1>1. \A j \in Items \ {i} : Status(j)' = Status(j)
  BY DEF Status, TypeOK
<1>2. Status(i) \in from /\ Status(i)' = ShownAs(s)
  BY DEF Status, TypeOK
<1> QED  BY <1>1, <1>2, Moves

\* A step of the queue is a step of the promise or changes nothing it shows.
LEMMA StepRefines == IInv /\ [Next]_vars => [Promise!Next]_(Promise!vars)
<1> SUFFICES ASSUME IInv, [Next]_vars PROVE [Promise!Next]_(Promise!vars)
  OBVIOUS
<1> USE TimerQueueAssumption
    DEF IInv, TypeOK, itemVars, ringVars, listVars, callVars, otherVars
<1> DEFINE Shown == <<[i \in Items |-> Status(i)], cancelled>>
<1>0. ASSUME UNCHANGED <<state, queued, cancelled>> PROVE UNCHANGED Shown
  BY <1>0 DEF Status
<1>1. ASSUME NEW t \in Threads, NEW i \in Items, QueueTimer(t, i) PROVE Promise!Queue(i)
  <2>1. Status(i) = "new" /\ Status(i)' = "armed"
    BY <1>1 DEF QueueTimer, Claim, HolderInv, Status, ShownAs
  <2>2. \A j \in Items \ {i} : Status(j)' = Status(j)
    BY <1>1 DEF QueueTimer, Claim, Status
  <2>3. UNCHANGED cancelled
    BY <1>1 DEF QueueTimer
  <2> QED  BY <2>1, <2>2, <2>3, Moves DEF Promise!Queue
<1>2. ASSUME NEW t \in Threads, NEW i \in Items, Disarm(t, i)
      PROVE Promise!Stop(i) \/ UNCHANGED Shown
  <2>1. CASE Alive(i)
    BY <1>0, <1>2, <2>1 DEF Disarm
  <2>2. CASE ~Alive(i)
    \* The weak_ptr has expired: the item was disarmed before it was dropped.
    <3>1. Status(i) = "off"
      BY <1>2, <2>2 DEF Disarm, ArmedIsAlive, Status, ShownAs
    <3>2. UNCHANGED <<state, queued>> /\ cancelled' = cancelled \cup {i}
      BY <1>2, <2>2 DEF Disarm, DisarmReturns
    <3>3. [j \in Items |-> Status(j)]' = [j \in Items |-> Status(j)]
      BY <3>2 DEF Status
    <3> QED
      BY <3>1, <3>2, <3>3 DEF Promise!Stop
  <2> QED  BY <2>1, <2>2
<1>3. ASSUME NEW t \in Threads, DisarmSelfCas(t)
      PROVE (\E i \in Items : Promise!SelfStop(i)) \/ UNCHANGED Shown
  <2>1. arg[t] \in Items \cap queued
    BY <1>3 DEF DisarmSelfCas, HolderInv
  <2>2. CASE state[arg[t]] = "InCallback"
    <3>1. Promise!Move(arg[t], {"running"}, "stopping")
      BY <1>3, <2>1, <2>2, StatusMoves DEF DisarmSelfCas, State, ShownAs
    <3> QED  BY <2>1, <3>1 DEF Promise!SelfStop
  <2>3. CASE state[arg[t]] # "InCallback"
    BY <1>0, <1>3, <2>3 DEF DisarmSelfCas
  <2> QED  BY <2>2, <2>3
<1>4. ASSUME NEW t \in Threads, DisarmCas(t)
      PROVE (\E i \in Items : Promise!Stop(i)) \/ UNCHANGED Shown
  <2>1. arg[t] \in Items \cap queued
    BY <1>4 DEF DisarmCas, HolderInv
  <2>2. CASE MustWait(state[arg[t]])
    BY <1>0, <1>4, <2>2 DEF DisarmCas
  <2>3. CASE ~MustWait(state[arg[t]])
    <3>0. PICK i \in Items \cap queued : i = arg[t]
      BY <2>1
    <3>1. Status(i) \in {"armed", "off"} /\ Status(i)' = "off"
      BY <1>4, <3>0, <2>3 DEF DisarmCas, MustWait, State, Running, Status, ShownAs
    <3>2. \A j \in Items \ {i} : Status(j)' = Status(j)
      BY <1>4, <3>0, <2>3 DEF DisarmCas, Status
    <3>3. cancelled' = cancelled \cup {i}
      BY <1>4, <3>0, <2>3 DEF DisarmCas, DisarmReturns
    <3>4. Promise!Stop(i)
      BY <3>1, <3>2, <3>3 DEF Promise!Stop
    <3> QED  BY <3>4
  <2> QED  BY <2>2, <2>3
<1>5. ASSUME Invoke PROVE \E i \in Items : Promise!Start(i)
  <2>1. cur \in Items \cap queued
    BY <1>5 DEF Invoke, CallbackInv, HolderInv, Alive
  <2>2. \A j \in Items : Status(j) \notin {"running", "stopping"}
    BY <1>5 DEF Invoke, CallbackInv, Status, ShownAs, State, Running
  <2>3. Promise!Move(cur, {"armed"}, "running")
    BY <1>5, <2>1, StatusMoves DEF Invoke, State, ShownAs
  <2> QED  BY <2>1, <2>2, <2>3 DEF Promise!Start, Promise!Busy
<1>6. ASSUME Rearm PROVE \E i \in Items : Promise!Again(i)
  <2>1. cur \in Items \cap queued
    BY <1>6 DEF Rearm, CallbackInv, HolderInv, Alive
  <2>2. Promise!Move(cur, {"running"}, "armed")
    BY <1>6, <2>1, StatusMoves DEF Rearm, CallbackInv, State, ShownAs
  <2>3. Interval[cur] # 0
    BY <1>6, <2>1 DEF Rearm, CallbackInv, IntervalOf
  <2> QED  BY <2>1, <2>2, <2>3 DEF Promise!Again
<1>7. ASSUME Retire PROVE \E i \in Items : Promise!Finish(i)
  <2>1. cur \in Items \cap queued
    BY <1>7 DEF Retire, CallbackInv, HolderInv, Alive, Running
  <2>2. Promise!Move(cur, {"running", "stopping"}, "off")
    BY <1>7, <2>1, StatusMoves DEF Retire, CallbackInv, Running, State, ShownAs
  <2>3. Interval[cur] # 0 => Status(cur) = "stopping"
    BY <1>7, <2>1 DEF Retire, CallbackInv, IntervalOf, Status, ShownAs
  <2> QED  BY <2>1, <2>2, <2>3 DEF Promise!Finish, Promise!Busy
\* Every other action leaves the states, the queued and the cancelled items alone.
<1>8. ASSUME \/ \E t \in Threads : Publish(t) \/ DisarmSpin(t)
             \/ \E t \in Clients : StopDispatch(t) \/ Join(t)
             \/ LoopHead \/ Collect \/ WaitTimeout \/ EndPass \/ Skip
             \/ CallbackReturns \/ Tick \/ (\E i \in All : PopDue(i)) \/ UNCHANGED vars
      PROVE UNCHANGED Shown
  BY <1>0, <1>8
     DEF Publish, DisarmSpin, StopDispatch, Join, LoopHead, Collect, WaitTimeout,
         EndPass, Skip, CallbackReturns, Tick, PopDue, vars
<1>9. ASSUME NEW t \in Clients, QueueKick(t) PROVE UNCHANGED Shown
  <2>1. \A i \in Items : Status(i)' = Status(i)
    BY <1>9 DEF QueueKick, Claim, Status
  <2> QED  BY <1>9, <2>1 DEF QueueKick
<1> QED
  BY <1>1, <1>2, <1>3, <1>4, <1>5, <1>6, <1>7, <1>8, <1>9
     DEF Next, CallStep, DestructorStep, DispatchStep, Terminated,
         Promise!Next, Promise!vars

\* The queue keeps the promise of its interface: one callback at a time, a
\* one-shot timer at most once, nothing after Disarm.
THEOREM QueueKeepsPromise == Spec => PromiseSpec
<1>1. Init => Promise!Init
  BY DEF Init, Promise!Init, Status
<1> QED  BY <1>1, StepRefines, Invariance, PTL DEF Spec, PromiseSpec, Promise!Spec
=============================================================================
