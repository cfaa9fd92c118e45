------------------------------ MODULE HostThreads ------------------------------
(***************************************************************************)
(* Guest threads on host threads: the wait objects and the waits of        *)
(* src/core/threading_posix.cpp, and the suspension of                     *)
(* src/system/xthread.cpp on top of them.                                  *)
(*                                                                         *)
(* Each object has a mutex and a condition; a wait for several objects     *)
(* try-locks them all and polls.  A thread is suspended by a signal whose  *)
(* handler waits for a semaphore, wherever the thread is, also while it    *)
(* holds the mutex of an object.                                           *)
(*                                                                         *)
(* Each thread makes the calls of a program, one after the other; the      *)
(* kernel exports that turn guest calls into these are external.  Critical *)
(* sections of state_mutex_ and callback_mutex_ are one step; so is what a *)
(* thread does under an object's mutex once it has it.  The conditions     *)
(* state_signal_ and suspend_cv_ are notified by all who change what they  *)
(* stand for, and are guards here.  Pulse is a set and a reset.            *)
(* Terminate, timers (see TimerQueue) and destruction are left out.        *)
(*                                                                         *)
(* Operators named Bad... are faulty variants the properties are tested    *)
(* against; Next uses none.                                                *)
(***************************************************************************)
EXTENDS Integers, Sequences, FiniteSets

CONSTANTS
  Threads,   \* guest threads
  Main,      \* the one that runs at the start
  Things,    \* events, semaphores and mutants
  Kind,      \* of each of them: "auto", "manual", "semaphore", "mutant"
  MaxCount,  \* maximum_count_ of the semaphores
  Programs,  \* what the threads do: functions of Threads to sequences of calls
             \* [op, on, all, limit, alert]
  Wrap,      \* 256 in the code: the guest's suspension count is a byte
  None

Objects == Things \cup Threads
Is(o, kind) == o \in Things /\ Kind[o] = kind

\* The classes' interfaces: Event::Set and Reset, Semaphore and Mutant::Release,
\* XThread::Resume.
WellTyped(c) ==
  /\ c.on \in Seq(Objects) /\ c.on # <<>>
  /\ c.op \in {"set", "reset"} => Is(c.on[1], "auto") \/ Is(c.on[1], "manual")
  /\ c.op = "release" => Is(c.on[1], "semaphore") \/ Is(c.on[1], "mutant")
  /\ c.op = "resume" => c.on[1] \in Threads

ASSUME HostThreadsAssumption ==
  /\ Main \in Threads /\ None \notin Objects /\ Things \cap Threads = {}
  /\ Kind \in [Things -> {"auto", "manual", "semaphore", "mutant"}]
  /\ MaxCount \in Nat /\ Wrap \in Nat \ {0, 1}
  /\ \A p \in Programs : \A t \in Threads : \A i \in 1 .. Len(p[t]) : WellTyped(p[t][i])

VARIABLES
  prog, ip, pc,      \* program, next call, where the thread stands in it
  late,              \* the condition's wait has run out of time
  locked,            \* WaitMultiple: how many objects it has locked
  lock,              \* mutex_ of each object: its holder
  count,             \* signal_, count_ or signaled_ of each object
  owner,             \* of the mutants
  user_callbacks,    \* queued for each thread
  state, suspend_count, sem, \* of the host thread; posts on suspend_sem_
  sigs, handling,    \* suspend signals not handled; the thread is in the handler
  guest_count,       \* suspend_count of the guest's thread object
  previous,          \* local of XThread::Resume
  gave, took,        \* history: units signalled and taken
  holds              \* history: what each thread believes it holds of the mutants

callVars == <<prog, ip, pc, late, locked>>
objVars  == <<lock, count, owner, gave, took, holds>>
hostVars == <<state, suspend_count, sem>>
sigVars  == <<sigs, handling>>
guestVars == <<guest_count, previous>>
vars     == <<callVars, objVars, user_callbacks, hostVars, sigVars, guestVars>>

Init ==
  /\ prog \in Programs
  /\ ip = [t \in Threads |-> 1]
  /\ pc = [t \in Threads |-> IF t = Main THEN "call" ELSE "unborn"]
  /\ late = [t \in Threads |-> FALSE] /\ locked = [t \in Threads |-> 0]
  /\ lock = [o \in Objects |-> None] /\ count = [o \in Objects |-> 0]
  /\ owner = [o \in Things |-> None]
  /\ user_callbacks = [t \in Threads |-> 0]
  /\ state = [t \in Threads |-> IF t = Main THEN "running" ELSE "uninitialized"]
  /\ suspend_count = [t \in Threads |-> 0] /\ sem = [t \in Threads |-> 0]
  /\ sigs = [t \in Threads |-> 0] /\ handling = [t \in Threads |-> FALSE]
  /\ guest_count = [t \in Threads |-> 0] /\ previous = [t \in Threads |-> 0]
  /\ gave = [o \in Objects |-> 0] /\ took = [o \in Objects |-> 0]
  /\ holds = [o \in Things |-> [t \in Threads |-> 0]]

-----------------------------------------------------------------------------
Call(t)     == prog[t][ip[t]]
Calls(t,ops) == pc[t] = "call" /\ ip[t] <= Len(prog[t]) /\ Call(t).op \in ops
Target(t)   == Call(t).on[1]

Goto(t, label) == pc' = [pc EXCEPT ![t] = label] /\ UNCHANGED <<prog, ip, late, locked>>

\* The call returns, and the threads in `woken' leave their condition.
ReturnAnd(t, woken) ==
  /\ ip' = [ip EXCEPT ![t] = @ + 1]
  /\ pc' = [u \in Threads |-> IF u = t THEN "call" ELSE IF u \in woken THEN "lock" ELSE pc[u]]
  /\ late' = [late EXCEPT ![t] = FALSE] /\ locked' = [locked EXCEPT ![t] = 0]
  /\ UNCHANGED prog
Return(t) == ReturnAnd(t, {})

\* Who sleeps on the condition of an object.
Sleepers(o) == {u \in Threads : pc[u] = "sleep" /\ Target(u) = o}

Notified(o) == Sleepers(o)

Unlocked(os) == lock' = [o \in Objects |-> IF o \in os THEN None ELSE lock[o]]

-----------------------------------------------------------------------------
(* Waiting.                                                                *)

Signaled(t, o) == IF Is(o, "mutant") THEN count[o] = 0 \/ owner[o] = t ELSE count[o] > 0

\* A wait on a thread joins it.
MayTake(o) == o \in Threads => pc[o] = "gone"

BadLeft(o) == IF Is(o, "semaphore") THEN count[o] - 1 ELSE count[o]
Left(o)    == CASE Is(o, "auto") -> 0 [] Is(o, "semaphore") -> count[o] - 1 [] OTHER -> count[o]

\* post_execution of some objects.
Take(t, os) ==
  /\ \A o \in os : MayTake(o)
  /\ count' = [o \in Objects |-> IF o \notin os THEN count[o]
                                 ELSE IF Is(o, "mutant") THEN count[o] + 1 ELSE Left(o)]
  /\ owner' = [o \in Things |-> IF o \in os /\ Is(o, "mutant") THEN t ELSE owner[o]]
  /\ took' = [o \in Objects |-> IF o \in os THEN took[o] + 1 ELSE took[o]]
  /\ holds' = [o \in Things |-> [u \in Threads |-> holds[o][u] + IF u = t /\ o \in os /\ Is(o, "mutant") THEN 1 ELSE 0]]
  /\ UNCHANGED gave

\* An alertable wait is made of short ones, so that callbacks are seen.
BadSliced(t) == Call(t).limit
Sliced(t)    == Call(t).limit \/ Call(t).alert

OthersUnchanged == UNCHANGED <<hostVars, sigVars, guestVars>>

\* Wait and WaitMultiple, once for each slice.
Wait(t) ==
  /\ Calls(t, {"wait"})
  /\ Call(t).alert => user_callbacks[t] = 0
  /\ Goto(t, IF Len(Call(t).on) = 1 THEN "lock" ELSE "trylock")
  /\ UNCHANGED <<objVars, user_callbacks>> /\ OthersUnchanged

UserCallback(t) ==
  /\ Calls(t, {"wait"}) /\ Call(t).alert /\ user_callbacks[t] > 0
  /\ user_callbacks' = [user_callbacks EXCEPT ![t] = @ - 1]
  /\ Return(t)
  /\ UNCHANGED objVars /\ OthersUnchanged

\* The slice is over.
NextSlice(t) == /\ pc' = [pc EXCEPT ![t] = "call"] /\ late' = [late EXCEPT ![t] = FALSE]
                /\ locked' = [locked EXCEPT ![t] = 0]
                /\ UNCHANGED <<prog, ip>>
TimedOut(t) == IF Call(t).alert THEN NextSlice(t) ELSE Return(t)

\* The deadline of an alertable wait.
Deadline(t) ==
  /\ Calls(t, {"wait"}) /\ Call(t).alert /\ Call(t).limit /\ user_callbacks[t] = 0
  /\ Return(t)
  /\ UNCHANGED <<objVars, user_callbacks>> /\ OthersUnchanged

\* A mutex is taken: to wait for one object, to signal it, or to end.
Mine(t) == IF pc[t] = "exit" THEN t ELSE Target(t)

Lock(t) ==
  /\ pc[t] \in {"lock", "exit"} /\ lock[Mine(t)] = None
  /\ lock' = [lock EXCEPT ![Mine(t)] = t]
  /\ Goto(t, IF pc[t] = "exit" THEN "last" ELSE "locked")
  /\ UNCHANGED <<count, owner, gave, took, holds, user_callbacks>> /\ OthersUnchanged

WaitOne(t) ==
  /\ pc[t] = "locked" /\ Call(t).op = "wait"
  /\ LET o == Target(t)
     IN \/ /\ Signaled(t, o) /\ Take(t, {o})
           /\ ReturnAnd(t, IF Is(o, "semaphore") THEN Notified(o) ELSE {})
        \/ /\ ~Signaled(t, o)
           /\ IF late[t] THEN TimedOut(t) ELSE Goto(t, "sleep")
           /\ UNCHANGED <<count, owner, gave, took, holds>>
  /\ Unlocked({Target(t)})
  /\ UNCHANGED user_callbacks /\ OthersUnchanged

SleepTimeout(t) ==
  /\ pc[t] = "sleep" /\ Sliced(t)
  /\ late' = [late EXCEPT ![t] = TRUE] /\ pc' = [pc EXCEPT ![t] = "lock"]
  /\ UNCHANGED <<prog, ip, locked, objVars, user_callbacks>> /\ OthersUnchanged

\* WaitMultiple: every object is locked without waiting, or none.
Wanted(t)  == {Call(t).on[i] : i \in DOMAIN Call(t).on}
Held(t)    == {Call(t).on[i] : i \in 1 .. locked[t]}
NextOne(t) == Call(t).on[locked[t] + 1]

BadDropped(t) == {}
Dropped(t)    == Held(t)

BadTryLock(t) ==
  /\ pc[t] = "trylock" /\ locked[t] < Len(Call(t).on)
  /\ lock[NextOne(t)] = None
  /\ lock' = [lock EXCEPT ![NextOne(t)] = t] /\ locked' = [locked EXCEPT ![t] = @ + 1]
  /\ UNCHANGED <<prog, ip, pc, late, count, owner, gave, took, holds, user_callbacks>> /\ OthersUnchanged
TryLock(t) ==
  /\ pc[t] = "trylock" /\ locked[t] < Len(Call(t).on)
  /\ IF lock[NextOne(t)] = None
     THEN lock' = [lock EXCEPT ![NextOne(t)] = t] /\ locked' = [locked EXCEPT ![t] = @ + 1]
     ELSE Unlocked(Dropped(t)) /\ locked' = [locked EXCEPT ![t] = 0]
  /\ UNCHANGED <<prog, ip, pc, late, count, owner, gave, took, holds, user_callbacks>> /\ OthersUnchanged

Met(t)   == IF Call(t).all THEN \A o \in Wanted(t) : Signaled(t, o) ELSE \E o \in Wanted(t) : Signaled(t, o)
Firsts(t) == {i \in DOMAIN Call(t).on : /\ Signaled(t, Call(t).on[i])
                                        /\ \A j \in 1 .. i - 1 : ~Signaled(t, Call(t).on[j])}
Choices(t) == IF Call(t).all THEN {Wanted(t)} ELSE {{Call(t).on[i]} : i \in Firsts(t)}

WaitMultiple(t) ==
  /\ pc[t] = "trylock" /\ locked[t] = Len(Call(t).on)
  /\ \/ Met(t) /\ \E os \in Choices(t) :
          /\ Take(t, os)
          /\ ReturnAnd(t, UNION {Notified(o) : o \in {p \in os : Is(p, "semaphore")}})
     \/ /\ ~Met(t)
        /\ pc' = [pc EXCEPT ![t] = "clock"] /\ locked' = [locked EXCEPT ![t] = 0]
        /\ UNCHANGED <<prog, ip, late, count, owner, gave, took, holds>>
  /\ Unlocked(Wanted(t))
  /\ UNCHANGED user_callbacks /\ OthersUnchanged

\* The clock is read only after the objects were all locked; then a millisecond.
PollAgain(t) ==
  /\ pc[t] = "clock"
  /\ Goto(t, "trylock")
  /\ UNCHANGED <<objVars, user_callbacks>> /\ OthersUnchanged

PollTimeout(t) ==
  /\ pc[t] = "clock" /\ Sliced(t)
  /\ TimedOut(t)
  /\ UNCHANGED <<objVars, user_callbacks>> /\ OthersUnchanged

-----------------------------------------------------------------------------
(* Signalling.                                                             *)

\* Set, Reset and Semaphore::Release take the mutex first; a mutant's Release
\* looks at the owner before it does.
Signal(t) ==
  /\ Calls(t, {"set", "reset", "release"})
  /\ IF Is(Target(t), "mutant") /\ ~(owner[Target(t)] = t /\ count[Target(t)] > 0)
     THEN Return(t) ELSE Goto(t, "lock")
  /\ UNCHANGED <<objVars, user_callbacks>> /\ OthersUnchanged

Released(o) == IF Is(o, "mutant") THEN count[o] - 1 ELSE count[o] + 1

SetOrReset(t) ==
  /\ pc[t] = "locked" /\ Call(t).op \in {"set", "reset"}
  /\ count' = [count EXCEPT ![Target(t)] = IF Call(t).op = "set" THEN 1 ELSE 0]
  /\ gave' = [gave EXCEPT ![Target(t)] = IF Call(t).op = "set" THEN @ + 1 ELSE @]
  /\ ReturnAnd(t, IF Call(t).op = "set" THEN Notified(Target(t)) ELSE {})
  /\ Unlocked({Target(t)})
  /\ UNCHANGED <<owner, took, holds, user_callbacks>> /\ OthersUnchanged

Release(t) ==
  /\ pc[t] = "locked" /\ Call(t).op = "release"
  /\ LET o == Target(t) full == Is(o, "semaphore") /\ count[o] = MaxCount
     IN /\ count' = [count EXCEPT ![o] = IF full THEN @ ELSE Released(o)]
        /\ gave' = [gave EXCEPT ![o] = IF full THEN @ ELSE @ + 1]
        /\ holds' = [holds EXCEPT ![o][t] = IF Is(o, "mutant") THEN @ - 1 ELSE @]
        /\ ReturnAnd(t, IF ~full /\ (Is(o, "semaphore") \/ Released(o) = 0) THEN Notified(o) ELSE {})
        /\ Unlocked({o})
  /\ UNCHANGED <<owner, took, user_callbacks>> /\ OthersUnchanged

QueueUserCallback(t) ==
  /\ Calls(t, {"callback"}) /\ state[Target(t)] # "uninitialized"
  /\ user_callbacks' = [user_callbacks EXCEPT ![Target(t)] = @ + 1]
  /\ Return(t)
  /\ UNCHANGED objVars /\ OthersUnchanged

-----------------------------------------------------------------------------
(* A thread's life.  Every host thread is created suspended.               *)

Create(t) ==
  /\ Calls(t, {"create", "create_suspended"}) /\ pc[Target(t)] = "unborn"
  /\ pc' = [pc EXCEPT ![t] = "wait_started", ![Target(t)] = "start"]
  /\ guest_count' = [guest_count EXCEPT ![Target(t)] = IF Call(t).op = "create" THEN 0 ELSE 1]
  /\ UNCHANGED <<prog, ip, late, locked, objVars, user_callbacks, hostVars, sigVars, previous>>

\* ThreadStartRoutine tells that it has started and arms the count in one step.
Start(t) ==
  /\ pc[t] = "start"
  /\ state' = [state EXCEPT ![t] = "suspended"]
  /\ suspend_count' = [suspend_count EXCEPT ![t] = 1]
  /\ Goto(t, "held")
  /\ UNCHANGED <<objVars, user_callbacks, sem, sigVars, guestVars>>

Run(t) ==
  /\ pc[t] = "held" /\ suspend_count[t] = 0
  /\ Goto(t, "call")
  /\ UNCHANGED <<objVars, user_callbacks>> /\ OthersUnchanged

\* The host's Resume; the post is for the handler, also when the thread does not
\* wait there.
BadPosts(u) == FALSE
Posts(u)    == suspend_count[u] = 1 /\ state[u] = "suspended"

HostResume(u) ==
  /\ state[u] # "uninitialized"
  /\ suspend_count' = [suspend_count EXCEPT ![u] = IF @ = 0 THEN 0 ELSE @ - 1]
  /\ state' = [state EXCEPT ![u] = IF Posts(u) THEN "running" ELSE @]
  /\ sem' = [sem EXCEPT ![u] = IF Posts(u) THEN @ + 1 ELSE @]

Created(t) ==
  /\ pc[t] = "wait_started" /\ state[Target(t)] # "uninitialized"
  /\ IF Call(t).op = "create" THEN HostResume(Target(t)) ELSE UNCHANGED hostVars
  /\ Return(t)
  /\ UNCHANGED <<objVars, user_callbacks, sigVars, guestVars>>

Finish(t) ==
  /\ pc[t] = "call" /\ ip[t] > Len(prog[t])
  /\ state' = [state EXCEPT ![t] = "finished"]
  /\ Goto(t, "exit")
  /\ UNCHANGED <<objVars, user_callbacks, suspend_count, sem, sigVars, guestVars>>

SignalEnd(t) ==
  /\ pc[t] = "last"
  /\ count' = [count EXCEPT ![t] = 1]
  /\ pc' = [u \in Threads |-> IF u = t THEN "leave" ELSE IF u \in Notified(t) THEN "lock" ELSE pc[u]]
  /\ Unlocked({t})
  /\ UNCHANGED <<prog, ip, late, locked, owner, gave, took, holds, user_callbacks>> /\ OthersUnchanged

Leave(t) ==
  /\ pc[t] = "leave"
  /\ Goto(t, "gone")
  /\ UNCHANGED <<objVars, user_callbacks>> /\ OthersUnchanged

-----------------------------------------------------------------------------
(* Suspension.                                                             *)

\* XThread::Suspend: the guest's count, a look at it, the host's count, the signal.
Suspend(t) ==
  /\ Calls(t, {"suspend"})
  /\ guest_count' = [guest_count EXCEPT ![Target(t)] = (@ + 1) % Wrap]
  /\ Goto(t, "suspend_check")
  /\ UNCHANGED <<objVars, user_callbacks, hostVars, sigVars, previous>>

SuspendCheck(t) ==
  /\ pc[t] = "suspend_check"
  /\ IF guest_count[Target(t)] = 0 THEN Return(t) ELSE Goto(t, "suspend_host")
  /\ UNCHANGED <<objVars, user_callbacks>> /\ OthersUnchanged

HostSuspend(t) ==
  /\ pc[t] = "suspend_host" /\ state[Target(t)] # "uninitialized"
  /\ state' = [state EXCEPT ![Target(t)] = "suspended"]
  /\ suspend_count' = [suspend_count EXCEPT ![Target(t)] = @ + 1]
  /\ Goto(t, "suspend_kill")
  /\ UNCHANGED <<objVars, user_callbacks, sem, sigVars, guestVars>>

SendSignal(t) ==
  /\ pc[t] = "suspend_kill"
  /\ sigs' = [sigs EXCEPT ![Target(t)] = IF pc[Target(t)] = "gone" THEN @ ELSE @ + 1]
  /\ Return(t)
  /\ UNCHANGED <<objVars, user_callbacks, hostVars, handling, guestVars>>

\* Whose suspend_mutex_ is held.
Resuming(u) == \E t \in Threads : pc[t] \in {"resume_count", "resume_check"} /\ Target(t) = u

\* XThread::Resume: it looks at the guest's count, counts down and looks again, under a
\* mutex that Suspend does not take, and calls the host's when it finds zero.
Resume(t) ==
  /\ Calls(t, {"resume"}) /\ ~Resuming(Target(t))
  /\ previous' = [previous EXCEPT ![t] = guest_count[Target(t)]]
  /\ Goto(t, "resume_count")
  /\ UNCHANGED <<objVars, user_callbacks, hostVars, sigVars, guest_count>>

\* The count is not atomic here: what is written comes from the first look or from another.
ResumeCount(t) ==
  /\ pc[t] = "resume_count"
  /\ IF previous[t] = 0
     THEN UNCHANGED guest_count
     ELSE \E old \in {previous[t], guest_count[Target(t)]} :
            guest_count' = [guest_count EXCEPT ![Target(t)] = (old + Wrap - 1) % Wrap]
  /\ previous' = [previous EXCEPT ![t] = 0]
  /\ Goto(t, "resume_check")
  /\ UNCHANGED <<objVars, user_callbacks, hostVars, sigVars>>

ResumeCheck(t) ==
  /\ pc[t] = "resume_check"
  /\ IF guest_count[Target(t)] = 0 THEN Goto(t, "resume_host") ELSE Return(t)
  /\ UNCHANGED <<objVars, user_callbacks>> /\ OthersUnchanged

ResumeHost(t) ==
  /\ pc[t] = "resume_host"
  /\ HostResume(Target(t))
  /\ Return(t)
  /\ UNCHANGED <<objVars, user_callbacks, sigVars, guestVars>>

SelfSuspend(t) ==
  /\ Calls(t, {"self_suspend"}) /\ ~Resuming(t)
  /\ guest_count' = [guest_count EXCEPT ![t] = (@ + 1) % Wrap]
  /\ Goto(t, "self_suspended")
  /\ UNCHANGED <<objVars, user_callbacks, hostVars, sigVars, previous>>

SelfResumed(t) ==
  /\ pc[t] = "self_suspended" /\ guest_count[t] = 0 /\ ~Resuming(t)
  /\ Return(t)
  /\ UNCHANGED <<objVars, user_callbacks>> /\ OthersUnchanged

\* The handler: it waits for a post, and until then the thread does nothing.
Interrupted(t) ==
  /\ sigs[t] > 0 /\ ~handling[t] /\ pc[t] # "gone"
  /\ sigs' = [sigs EXCEPT ![t] = @ - 1]
  /\ handling' = [handling EXCEPT ![t] = TRUE]
  /\ UNCHANGED <<callVars, objVars, user_callbacks, hostVars, guestVars>>

HandlerReturns(t) ==
  /\ handling[t] /\ sem[t] > 0
  /\ sem' = [sem EXCEPT ![t] = @ - 1]
  /\ handling' = [handling EXCEPT ![t] = FALSE]
  /\ UNCHANGED <<callVars, objVars, user_callbacks, state, suspend_count, sigs, guestVars>>

-----------------------------------------------------------------------------
TimeOut(t) == ~handling[t] /\ (SleepTimeout(t) \/ PollTimeout(t) \/ Deadline(t))

Locking(t) == ~handling[t] /\ Lock(t)

Step(t) ==
  /\ ~handling[t]
  /\ \/ Wait(t) \/ UserCallback(t) \/ WaitOne(t) \/ TryLock(t) \/ WaitMultiple(t) \/ PollAgain(t)
     \/ Signal(t) \/ SetOrReset(t) \/ Release(t) \/ QueueUserCallback(t)
     \/ Create(t) \/ Start(t) \/ Run(t) \/ Created(t) \/ Finish(t) \/ SignalEnd(t) \/ Leave(t)
     \/ Suspend(t) \/ SuspendCheck(t) \/ HostSuspend(t) \/ SendSignal(t)
     \/ Resume(t) \/ ResumeCount(t) \/ ResumeCheck(t) \/ ResumeHost(t) \/ SelfSuspend(t) \/ SelfResumed(t)

Handler(t) == Interrupted(t) \/ HandlerReturns(t)

Next == \E t \in Threads : Step(t) \/ Locking(t) \/ TimeOut(t) \/ Handler(t)

Spec == Init /\ [][Next]_vars

\* A thread that can run runs, a mutex that is free again and again is given to who
\* waits for it, and the time limits come.
Fairness ==
  \A t \in Threads : /\ WF_vars(Step(t)) /\ WF_vars(Handler(t))
                     /\ SF_vars(Locking(t)) /\ SF_vars(TimeOut(t))

FairSpec == Spec /\ Fairness
-----------------------------------------------------------------------------
\* The variables keep their types, and who holds the mutex of an object is at a
\* place where the code holds it.
TypeOK ==
  /\ lock \in [Objects -> Threads \cup {None}] /\ owner \in [Things -> Threads \cup {None}]
  /\ \A o \in Objects : count[o] \in 0 .. IF Is(o, "semaphore") THEN MaxCount
                                          ELSE IF Is(o, "mutant") THEN took[o] ELSE 1
  /\ state \in [Threads -> {"uninitialized", "running", "suspended", "finished"}]
  /\ suspend_count \in [Threads -> Nat] /\ sem \in [Threads -> Nat] /\ sigs \in [Threads -> Nat]
  /\ guest_count \in [Threads -> 0 .. Wrap - 1] /\ previous \in [Threads -> 0 .. Wrap - 1]
  /\ \A t \in Threads :
       /\ {o \in Objects : lock[o] = t} = CASE pc[t] = "locked" -> {Target(t)}
                                            [] pc[t] = "last" -> {t}
                                            [] pc[t] = "trylock" -> Held(t)
                                            [] OTHER -> {}
       /\ late[t] => pc[t] \in {"lock", "locked"}

\* No unit is taken that was not given: an auto-reset event lets one waiter through
\* for each Set at most, and a semaphore's count is what is left of its releases.
UnitsConserved ==
  \A o \in Things : /\ Is(o, "auto") => took[o] + count[o] <= gave[o]
                    /\ Is(o, "semaphore") => count[o] = gave[o] - took[o]

\* A mutant has one owner at a time, as long as it has been waited for more often
\* than released.
MutexExclusion ==
  \A o \in Things : \A t, u \in Threads : holds[o][t] > 0 /\ holds[o][u] > 0 => t = u

\* No thread sleeps on an object that is signalled for it, unless its mutex is taken.
NoLostWakeup ==
  \A t \in Threads : pc[t] = "sleep" /\ lock[Target(t)] = None => ~Signaled(t, Target(t))

\* What a wait takes is what a signal gave, no more and no less.
WaitsAreExact == UnitsConserved /\ MutexExclusion /\ NoLostWakeup

\* Whoever holds the mutexes of objects lets go of them: waits for the same objects
\* in opposite orders, threads suspended with a mutex in hand and joins under a
\* mutex included.
Holding(t)       == \E o \in Objects : lock[o] = t
LocksAreReleased == \A t \in Threads : Holding(t) ~> ~Holding(t)

\* A wait with a time limit returns.
Waiting(t)       == pc[t] # "unborn" /\ ip[t] <= Len(prog[t]) /\ Call(t).op = "wait"
InTimedWait(t)   == Waiting(t) /\ Call(t).limit
TimedWaitsReturn == \A t \in Threads : InTimedWait(t) ~> ~InTimedWait(t)

\* A callback that is queued for a thread in an alertable wait is called or the wait
\* returns, although nobody wakes the thread for it.
Ignored(t)       == Waiting(t) /\ Call(t).alert /\ user_callbacks[t] > 0
CallbacksAreSeen == \A t \in Threads \ {Main} : Ignored(t) ~> ~Ignored(t)

\* Neither the limit of a wait nor a callback for it is missed.
WaitsEnd == TimedWaitsReturn /\ CallbacksAreSeen

\* A thread that is created or resumed before it has come to its first wait starts.
Starting(t)    == pc[t] \in {"start", "held"} /\ guest_count[t] = 0
StartIsNotLost == \A t \in Threads \ {Main} : Starting(t) ~> ~Starting(t)

\* A guest thread with a suspension count of zero is not suspended, whatever the
\* host's count, posts and signals are.
StillStopped(t) == (handling[t] \/ pc[t] = "self_suspended") /\ guest_count[t] = 0
ResumedRuns     == \A t \in Threads \ {Main} : StillStopped(t) ~> ~StillStopped(t)

\* Whatever was resumed runs: from its start, its own suspension or another's.
SuspensionsEnd == StartIsNotLost /\ ResumedRuns
=============================================================================
