--------------------------- MODULE HostThreadsProofs ---------------------------
(***************************************************************************)
(* What TLAPS proves of HostThreads, for any threads, objects, programs    *)
(* and bounds: what a wait takes is what a signal gave.  Units are         *)
(* conserved, mutants have one owner, and nobody sleeps on a signalled     *)
(* object; and who has the mutex of an object in hand stands where the     *)
(* code holds it.                                                          *)
(***************************************************************************)
EXTENDS HostThreads, TLAPS

Places == {"unborn", "start", "held", "call", "lock", "locked", "sleep", "trylock", "clock", "wait_started",
           "exit", "last", "leave", "gone", "suspend_check", "suspend_host", "suspend_kill", "resume_count",
           "resume_check", "resume_host", "self_suspended"}

Types ==
  /\ prog \in Programs
  /\ ip \in [Threads -> Nat \ {0}] /\ pc \in [Threads -> Places]
  /\ count \in [Objects -> Nat] /\ gave \in [Objects -> Nat] /\ took \in [Objects -> Nat]
  /\ owner \in [Things -> Threads \cup {None}]
  /\ holds \in [Things -> [Threads -> Nat]]

\* A thread that is at an object is in a call.
CallInv == \A t \in Threads : pc[t] \in {"lock", "locked", "sleep"} => ip[t] <= Len(prog[t])

\* Who sleeps waits, and for an object that is not signalled: whoever signals it
\* wakes the sleepers in the same critical section.
SleepInv == \A t \in Threads : pc[t] = "sleep" => Call(t).op = "wait" /\ ~Signaled(t, Target(t))

\* Release looks at the owner before it has the mutex, and what it saw stays true.
ReleaseInv ==
  \A t \in Threads : pc[t] \in {"lock", "locked"} /\ Call(t).op = "release" /\ Is(Target(t), "mutant")
                       => owner[Target(t)] = t /\ count[Target(t)] > 0

\* What each thread believes it holds of a mutant is what its count says.
HoldInv ==
  \A o \in Things : \A t \in Threads :
    holds[o][t] = IF Is(o, "mutant") /\ owner[o] = t THEN count[o] ELSE 0

IInv == Types /\ CallInv /\ SleepInv /\ ReleaseInv /\ HoldInv /\ UnitsConserved

-----------------------------------------------------------------------------
(* Steps that leave the objects alone, but for their mutexes.              *)

ObjectsSame == UNCHANGED <<count, owner, gave, took, holds>>

\* Thread t goes elsewhere or returns; it takes no mutex and does not fall asleep.
Moves(t) ==
  /\ prog' = prog
  /\ ip' = ip \/ ip' = [ip EXCEPT ![t] = @ + 1]
  /\ pc' \in [Threads -> Places]
  /\ \A u \in Threads \ {t} : pc'[u] = pc[u]

LEMMA Distinct == /\ \A o \in Things : o \notin Threads
                  /\ \A o, k : Is(o, k) => o \in Things /\ o \in Objects /\ Kind[o] = k
                  /\ None \notin Threads
  BY HostThreadsAssumption DEF Objects, Is

LEMMA InitHolds == Init => IInv
<1> SUFFICES ASSUME Init PROVE IInv
  OBVIOUS
<1>1. Types
  BY DEF Init, Types, Places
<1>2. CallInv /\ SleepInv /\ ReleaseInv
  BY DEF Init, CallInv, SleepInv, ReleaseInv
<1>3. HoldInv /\ UnitsConserved
  BY Distinct DEF Init, HoldInv, UnitsConserved, Objects
<1> QED
  BY <1>1, <1>2, <1>3 DEF IInv

\* The invariant's parts about the objects do not look at threads that only move.
LEMMA MoveHolds ==
  ASSUME IInv, NEW t \in Threads, ObjectsSame, Moves(t), pc'[t] \notin {"lock", "locked", "sleep"}
  PROVE  IInv'
<1>1. Types'
  BY DEF IInv, Types, ObjectsSame, Moves
<1>2. \A u \in Threads \ {t} : ip'[u] = ip[u] /\ pc'[u] = pc[u]
  BY DEF Moves, IInv, Types
<1>3. CallInv' /\ SleepInv' /\ ReleaseInv'
  BY <1>2 DEF IInv, CallInv, SleepInv, ReleaseInv, ObjectsSame, Moves, Call, Target, Signaled
<1>4. HoldInv' /\ UnitsConserved'
  BY DEF IInv, HoldInv, UnitsConserved, ObjectsSame
<1> QED
  BY <1>1, <1>3, <1>4 DEF IInv

LEMMA GotoMoves ==
  ASSUME Types, NEW t \in Threads, NEW label \in Places, Goto(t, label)
  PROVE  Moves(t) /\ pc'[t] = label
  BY DEF Types, Goto, Moves

LEMMA ReturnMoves ==
  ASSUME Types, NEW t \in Threads, Return(t)
  PROVE  Moves(t) /\ pc'[t] = "call"
  BY DEF Types, Return, ReturnAnd, Moves, Places

\* Everything a step may do without an object's mutex.
LEMMA QuietHolds ==
  ASSUME IInv, NEW t \in Threads,
         \/ UserCallback(t) \/ Deadline(t) \/ TryLock(t) \/ PollAgain(t) \/ PollTimeout(t)
         \/ QueueUserCallback(t) \/ Start(t) \/ Run(t) \/ Created(t) \/ Finish(t) \/ Leave(t)
         \/ Suspend(t) \/ SuspendCheck(t) \/ HostSuspend(t) \/ SendSignal(t)
         \/ Resume(t) \/ ResumeCount(t) \/ ResumeCheck(t) \/ ResumeHost(t)
         \/ SelfSuspend(t) \/ SelfResumed(t)
  PROVE  IInv'
<1>g. Types
  BY DEF IInv
<1>1. CASE \/ UserCallback(t) \/ Deadline(t) \/ QueueUserCallback(t) \/ Created(t) \/ SendSignal(t)
           \/ ResumeHost(t) \/ SelfResumed(t)
  <2>1. ObjectsSame /\ Return(t)
    BY <1>1 DEF UserCallback, Deadline, QueueUserCallback, Created, SendSignal, ResumeHost, SelfResumed, objVars,
                ObjectsSame
  <2> QED
    BY <2>1, <1>g, ReturnMoves, MoveHolds
<1>2. CASE \/ PollAgain(t) \/ Start(t) \/ Run(t) \/ Finish(t) \/ Leave(t) \/ Suspend(t) \/ HostSuspend(t)
           \/ Resume(t) \/ ResumeCount(t) \/ SelfSuspend(t)
  <2>1. ObjectsSame
    BY <1>2 DEF PollAgain, Start, Run, Finish, Leave, Suspend, HostSuspend, Resume, ResumeCount, SelfSuspend,
                objVars, ObjectsSame
  <2>2. PICK label \in {"trylock", "held", "call", "exit", "gone", "suspend_check", "suspend_kill", "self_suspended",
                        "resume_count", "resume_check"} : Goto(t, label)
    BY <1>2 DEF PollAgain, Start, Run, Finish, Leave, Suspend, HostSuspend, Resume, ResumeCount, SelfSuspend
  <2> QED
    BY <2>1, <2>2, <1>g, GotoMoves, MoveHolds DEF Places
<1>3. CASE SuspendCheck(t) \/ ResumeCheck(t)
  <2>1. ObjectsSame /\ (Return(t) \/ Goto(t, "suspend_host") \/ Goto(t, "resume_host"))
    BY <1>3 DEF SuspendCheck, ResumeCheck, objVars, ObjectsSame
  <2> QED
    BY <2>1, <1>g, GotoMoves, ReturnMoves, MoveHolds DEF Places
<1>4. CASE PollTimeout(t)
  <2>1. ObjectsSame /\ Moves(t) /\ pc'[t] = "call"
    BY <1>4, <1>g, ReturnMoves DEF PollTimeout, TimedOut, NextSlice, objVars, ObjectsSame, Moves, Types, Places
  <2> QED
    BY <2>1, MoveHolds
<1>5. CASE TryLock(t)
  <2>1. ObjectsSame /\ Moves(t) /\ pc'[t] = "trylock"
    BY <1>5, <1>g DEF TryLock, ObjectsSame, Moves, Types
  <2> QED
    BY <2>1, MoveHolds
<1> QED
  BY <1>1, <1>2, <1>3, <1>4, <1>5

\* Two threads move when one creates the other.
LEMMA CreateHolds ==
  ASSUME IInv, NEW t \in Threads, Create(t)
  PROVE  IInv'
<1>g. Types
  BY DEF IInv
<1>1. /\ ObjectsSame /\ prog' = prog /\ ip' = ip
      /\ pc' = [pc EXCEPT ![t] = "wait_started", ![Target(t)] = "start"]
  BY DEF Create, objVars, ObjectsSame
<1>2. pc' \in [Threads -> Places] /\ \A u \in Threads : pc'[u] \in {pc[u], "wait_started", "start"}
  BY <1>1, <1>g DEF Types, Places
<1>3. Types'
  BY <1>1, <1>2, <1>g DEF Types, ObjectsSame
<1>4. CallInv' /\ SleepInv' /\ ReleaseInv'
  BY <1>1, <1>2 DEF IInv, CallInv, SleepInv, ReleaseInv, ObjectsSame, Call, Target, Signaled
<1>5. HoldInv' /\ UnitsConserved'
  BY <1>1 DEF IInv, HoldInv, UnitsConserved, ObjectsSame
<1> QED
  BY <1>3, <1>4, <1>5 DEF IInv

-----------------------------------------------------------------------------
(* On the way to an object and asleep.                                     *)

LEMMA ApproachHolds ==
  ASSUME IInv, NEW t \in Threads, Wait(t) \/ Signal(t) \/ Lock(t) \/ SleepTimeout(t)
  PROVE  IInv'
<1>g. Types
  BY DEF IInv
<1>1. CASE Wait(t)
  <2>1. ObjectsSame /\ Calls(t, {"wait"}) /\ (Goto(t, "lock") \/ Goto(t, "trylock"))
    BY <1>1 DEF Wait, objVars, ObjectsSame
  <2>2. /\ Moves(t) /\ prog' = prog /\ ip' = ip /\ pc'[t] # "sleep" /\ ip[t] <= Len(prog[t])
        /\ Call(t).op = "wait"
    BY <2>1, <1>g, GotoMoves DEF Goto, Calls, Places
  <2>3. Types'
    BY <2>1, <2>2, <1>g DEF Types, ObjectsSame, Moves
  <2>4. CallInv' /\ SleepInv' /\ ReleaseInv'
    BY <2>1, <2>2 DEF IInv, CallInv, SleepInv, ReleaseInv, ObjectsSame, Moves, Call, Target, Signaled
  <2>5. HoldInv' /\ UnitsConserved'
    BY <2>1 DEF IInv, HoldInv, UnitsConserved, ObjectsSame
  <2> QED
    BY <2>3, <2>4, <2>5 DEF IInv
<1>2. CASE Signal(t)
  <2>1. CASE Return(t)
    BY <1>2, <2>1, <1>g, ReturnMoves, MoveHolds DEF Signal, objVars, ObjectsSame
  <2>2. CASE ~Return(t)
    <3>1. /\ ObjectsSame /\ Goto(t, "lock") /\ ip[t] <= Len(prog[t])
          /\ Is(Target(t), "mutant") => owner[Target(t)] = t /\ count[Target(t)] > 0
      BY <1>2, <2>2 DEF Signal, Calls, objVars, ObjectsSame
    <3>2. Moves(t) /\ prog' = prog /\ ip' = ip /\ pc'[t] = "lock"
      BY <3>1, <1>g, GotoMoves DEF Goto, Places
    <3>3. Types'
      BY <3>1, <3>2, <1>g DEF Types, ObjectsSame, Moves
    <3>4. CallInv' /\ SleepInv' /\ ReleaseInv'
      BY <3>1, <3>2 DEF IInv, CallInv, SleepInv, ReleaseInv, ObjectsSame, Moves, Call, Target, Signaled
    <3>5. HoldInv' /\ UnitsConserved'
      BY <3>1 DEF IInv, HoldInv, UnitsConserved, ObjectsSame
    <3> QED
      BY <3>3, <3>4, <3>5 DEF IInv
  <2> QED
    BY <2>1, <2>2
<1>3. CASE Lock(t) \/ SleepTimeout(t)
  <2>1. /\ ObjectsSame /\ Moves(t) /\ prog' = prog /\ ip' = ip
        /\ \/ pc[t] \in {"lock", "sleep"} /\ pc'[t] \in {"lock", "locked"}
           \/ pc'[t] = "last"
    BY <1>3, <1>g DEF Lock, SleepTimeout, Goto, Moves, objVars, ObjectsSame, Types, Places
  <2>2. Types'
    BY <2>1, <1>g DEF Types, ObjectsSame, Moves
  <2>3. CallInv' /\ SleepInv' /\ ReleaseInv'
    BY <2>1 DEF IInv, CallInv, SleepInv, ReleaseInv, ObjectsSame, Moves, Call, Target, Signaled
  <2>4. HoldInv' /\ UnitsConserved'
    BY <2>1 DEF IInv, HoldInv, UnitsConserved, ObjectsSame
  <2> QED
    BY <2>2, <2>3, <2>4 DEF IInv
<1> QED
  BY <1>1, <1>2, <1>3

-----------------------------------------------------------------------------
(* What a wait takes.                                                      *)

\* A call is on an object, and on one of the right class.
LEMMA TargetTyped ==
  ASSUME IInv, NEW t \in Threads, ip[t] <= Len(prog[t])
  PROVE  Target(t) \in Objects /\ WellTyped(Call(t))
<1>1. prog \in Programs /\ ip[t] \in Nat \ {0}
  BY DEF IInv, Types
<1>2. ip[t] \in 1 .. Len(prog[t]) \/ Len(prog[t]) \notin Int
  BY <1>1
<1>3. WellTyped(Call(t))
  BY <1>1, <1>2, HostThreadsAssumption DEF Call
<1> QED
  BY <1>3 DEF Target, WellTyped

\* What a thread may do to the objects without disturbing the others: they keep
\* what they own, and the sleepers whose object gets signalled are woken.
Considerate(t) ==
  /\ \A o : \A u \in Threads \ {t} :
       Is(o, "mutant") /\ owner[o] = u /\ count[o] > 0 => owner'[o] = u /\ count'[o] > 0
  /\ \A u \in Threads \ {t} : pc'[u] = "sleep" => ~Signaled(u, Target(u))'

LEMMA ConsiderateHolds ==
  ASSUME IInv, NEW t \in Threads, Considerate(t), Types', HoldInv', UnitsConserved',
         prog' = prog, \A u \in Threads \ {t} : ip'[u] = ip[u],
         \A u \in Threads \ {t} : pc'[u] = pc[u] \/ (pc[u] = "sleep" /\ pc'[u] = "lock"),
         pc'[t] \notin {"lock", "locked", "sleep"}
  PROVE  IInv'
<1>1. CallInv'
  BY DEF IInv, CallInv
<1>2. SleepInv'
  BY DEF IInv, SleepInv, Considerate, Call
<1>3. ASSUME NEW u \in Threads, pc'[u] \in {"lock", "locked"}, Call(u)'.op = "release", Is(Target(u)', "mutant")
      PROVE  owner'[Target(u)'] = u /\ count'[Target(u)'] > 0
  <2>1. u # t /\ Call(u)' = Call(u) /\ Target(u)' = Target(u)
    BY <1>3 DEF Call, Target
  <2>2. pc[u] \in {"lock", "locked"}
    BY <1>3, <2>1 DEF IInv, SleepInv
  <2> QED
    BY <1>3, <2>1, <2>2 DEF IInv, ReleaseInv, Considerate
<1>4. ReleaseInv'
  BY <1>3 DEF ReleaseInv
<1> QED
  BY <1>1, <1>2, <1>4 DEF IInv

\* The end of a call that wakes sleepers.
LEMMA ReturnAndMoves ==
  ASSUME Types, NEW t \in Threads, NEW woken, \A u \in woken : pc[u] = "sleep", ReturnAnd(t, woken)
  PROVE  /\ prog' = prog /\ ip' \in [Threads -> Nat \ {0}] /\ pc' \in [Threads -> Places]
         /\ \A u \in Threads \ {t} : ip'[u] = ip[u]
         /\ \A u \in Threads \ {t} : pc'[u] = IF u \in woken THEN "lock" ELSE pc[u]
         /\ \A u \in Threads \ {t} : pc'[u] = pc[u] \/ (pc[u] = "sleep" /\ pc'[u] = "lock")
         /\ pc'[t] = "call"
  BY DEF ReturnAnd, Types, Places

\* Taking signalled objects keeps the units and the mutants' counts, takes nothing
\* from a thread that is about to release, and signals nothing.
LEMMA TakeKeeps ==
  ASSUME IInv, NEW t \in Threads, NEW os, \A o \in os : Signaled(t, o), Take(t, os)
  PROVE  /\ count' \in [Objects -> Nat] /\ gave' \in [Objects -> Nat] /\ took' \in [Objects -> Nat]
         /\ owner' \in [Things -> Threads \cup {None}]
         /\ holds' \in [Things -> [Threads -> Nat]]
         /\ HoldInv' /\ UnitsConserved'
         /\ \A o : \A u \in Threads \ {t} :
              Is(o, "mutant") /\ owner[o] = u /\ count[o] > 0 => owner'[o] = u /\ count'[o] > 0
         /\ \A o \in Objects : \A u \in Threads \ {t} : ~Signaled(u, o) => ~Signaled(u, o)'
<1>g. Types
  BY DEF IInv
<1>1. /\ \A o \in Objects : count'[o] = IF o \notin os THEN count[o]
                                      ELSE IF Is(o, "mutant") THEN count[o] + 1 ELSE Left(o)
      /\ \A o \in Things : owner'[o] = IF o \in os /\ Is(o, "mutant") THEN t ELSE owner[o]
      /\ \A o \in Objects : took'[o] = IF o \in os THEN took[o] + 1 ELSE took[o]
      /\ \A o \in Things : \A u \in Threads :
           holds'[o][u] = holds[o][u] + IF u = t /\ o \in os /\ Is(o, "mutant") THEN 1 ELSE 0
      /\ gave' = gave
  BY DEF Take, Objects
<1>2. \A o \in Objects : o \in os /\ ~Is(o, "mutant") => count[o] \in Nat /\ count[o] > 0 /\ Left(o) \in Nat
  BY <1>g DEF Signaled, Left, Types
<1>3. count' \in [Objects -> Nat] /\ took' \in [Objects -> Nat] /\ gave' \in [Objects -> Nat]
  BY <1>1, <1>2, <1>g DEF Take, Types
<1>4. owner' \in [Things -> Threads \cup {None}] /\ holds' \in [Things -> [Threads -> Nat]]
  BY <1>g DEF Take, Types
<1>5. ASSUME NEW o \in Things, NEW u \in Threads
      PROVE  holds'[o][u] = IF Is(o, "mutant") /\ owner'[o] = u THEN count'[o] ELSE 0
  <2>1. holds[o][u] = IF Is(o, "mutant") /\ owner[o] = u THEN count[o] ELSE 0
    BY DEF IInv, HoldInv
  <2>2. o \in Objects /\ count[o] \in Nat
    BY <1>g DEF Objects, Types
  <2>3. CASE o \in os /\ Is(o, "mutant")
    <3>1. count[o] = 0 \/ owner[o] = t
      BY <2>3 DEF Signaled
    <3> QED
      BY <1>1, <2>1, <2>2, <2>3, <3>1
  <2>4. CASE ~(o \in os /\ Is(o, "mutant"))
    BY <1>1, <2>1, <2>2, <2>4
  <2> QED
    BY <2>3, <2>4
<1>6. HoldInv'
  BY <1>5 DEF HoldInv
<1>7. ASSUME NEW o \in Things
      PROVE  /\ Is(o, "auto") => took'[o] + count'[o] <= gave'[o]
             /\ Is(o, "semaphore") => count'[o] = gave'[o] - took'[o]
  <2>1. /\ Is(o, "auto") => took[o] + count[o] <= gave[o]
        /\ Is(o, "semaphore") => count[o] = gave[o] - took[o]
    BY DEF IInv, UnitsConserved
  <2>2. o \in Objects /\ count[o] \in Nat /\ took[o] \in Nat /\ gave[o] \in Nat
    BY <1>g DEF Objects, Types
  <2>3. CASE Is(o, "auto")
    BY <1>1, <1>2, <2>1, <2>2, <2>3 DEF Is, Left
  <2>4. CASE Is(o, "semaphore")
    BY <1>1, <1>2, <2>1, <2>2, <2>4 DEF Is, Left
  <2> QED
    BY <2>3, <2>4
<1>8. UnitsConserved'
  BY <1>7 DEF UnitsConserved
<1>9. ASSUME NEW o, NEW u \in Threads \ {t}, Is(o, "mutant"), owner[o] = u, count[o] > 0
      PROVE  owner'[o] = u /\ count'[o] > 0
  <2>1. o \in Things /\ o \in Objects /\ o \notin os
    BY <1>9, <1>g DEF Is, Objects, Signaled, Types
  <2> QED
    BY <1>1, <1>9, <2>1
<1>10. ASSUME NEW o \in Objects, NEW u \in Threads \ {t}, ~Signaled(u, o)
       PROVE  ~Signaled(u, o)'
  <2>1. CASE Is(o, "mutant")
    <3>1. count[o] \in Nat /\ count[o] # 0 /\ owner[o] # u /\ o \in Things
      BY <1>10, <2>1, <1>g DEF Signaled, Is, Types
    <3> QED
      BY <1>1, <2>1, <3>1 DEF Signaled
  <2>2. CASE ~Is(o, "mutant")
    <3>1. o \notin os
      BY <1>10, <2>2 DEF Signaled
    <3> QED
      BY <1>1, <1>10, <2>2, <3>1 DEF Signaled
  <2> QED
    BY <2>1, <2>2
<1> QED
  BY <1>3, <1>4, <1>6, <1>8, <1>9, <1>10

\* Sleepers that are not woken stay at objects that are not signalled.
LEMMA SleepersStay ==
  ASSUME IInv, NEW t \in Threads, prog' = prog, \A u \in Threads \ {t} : ip'[u] = ip[u],
         \A u \in Threads \ {t} : pc'[u] = "sleep" => pc[u] = "sleep",
         \A o \in Objects : \A u \in Threads \ {t} :
           pc'[u] = "sleep" /\ Target(u) = o /\ ~Signaled(u, o) => ~Signaled(u, o)'
  PROVE  \A u \in Threads \ {t} : pc'[u] = "sleep" => ~Signaled(u, Target(u))'
<1> SUFFICES ASSUME NEW u \in Threads \ {t}, pc'[u] = "sleep" PROVE ~Signaled(u, Target(u))'
  OBVIOUS
<1>1. Target(u) \in Objects /\ ~Signaled(u, Target(u))
  BY TargetTyped DEF IInv, CallInv, SleepInv
<1>2. Target(u)' = Target(u)
  BY DEF Target, Call
<1>3. ~(Signaled(u, Target(u))')
  BY <1>1, <1>2 DEF Signaled
<1> QED
  BY <1>3

LEMMA WaitHolds ==
  ASSUME IInv, NEW t \in Threads, WaitOne(t) \/ WaitMultiple(t)
  PROVE  IInv'
<1>g. Types
  BY DEF IInv
\* The step takes what is signalled.
<1>1. ASSUME NEW os, \A o \in os : Signaled(t, o), Take(t, os),
             NEW woken, \A u \in woken : pc[u] = "sleep", ReturnAnd(t, woken)
      PROVE  IInv'
  <2>1. /\ prog' = prog /\ ip' \in [Threads -> Nat \ {0}] /\ pc' \in [Threads -> Places]
        /\ \A u \in Threads \ {t} : ip'[u] = ip[u]
        /\ \A u \in Threads \ {t} : pc'[u] = pc[u] \/ (pc[u] = "sleep" /\ pc'[u] = "lock")
        /\ pc'[t] = "call"
    BY <1>1, <1>g, ReturnAndMoves
  <2>2. /\ count' \in [Objects -> Nat] /\ gave' \in [Objects -> Nat] /\ took' \in [Objects -> Nat]
        /\ owner' \in [Things -> Threads \cup {None}] /\ holds' \in [Things -> [Threads -> Nat]]
        /\ HoldInv' /\ UnitsConserved'
        /\ \A o : \A u \in Threads \ {t} :
             Is(o, "mutant") /\ owner[o] = u /\ count[o] > 0 => owner'[o] = u /\ count'[o] > 0
        /\ \A o \in Objects : \A u \in Threads \ {t} : ~Signaled(u, o) => ~Signaled(u, o)'
    BY <1>1, TakeKeeps
  <2>3. \A u \in Threads \ {t} : pc'[u] = "sleep" => ~Signaled(u, Target(u))'
    BY <2>1, <2>2, SleepersStay
  <2>4. Considerate(t)
    BY <2>2, <2>3 DEF Considerate
  <2>5. Types'
    BY <2>1, <2>2, <1>g DEF Types
  <2> QED
    BY <2>1, <2>2, <2>4, <2>5, ConsiderateHolds
\* The step takes nothing.
<1>2. CASE WaitOne(t)
  <2>1. CASE Signaled(t, Target(t))
    <3>1. /\ Take(t, {Target(t)})
          /\ ReturnAnd(t, IF Is(Target(t), "semaphore") THEN Notified(Target(t)) ELSE {})
      BY <1>2, <2>1 DEF WaitOne
    <3> QED
      BY <1>1, <2>1, <3>1 DEF Notified, Sleepers
  <2>2. CASE ~Signaled(t, Target(t)) /\ late[t]
    <3>1. ObjectsSame /\ Moves(t) /\ pc'[t] = "call"
      BY <1>2, <2>2, <1>g, ReturnMoves DEF WaitOne, TimedOut, NextSlice, ObjectsSame, Moves, Types, Places
    <3> QED
      BY <3>1, MoveHolds
  <2>3. CASE ~Signaled(t, Target(t)) /\ ~late[t]
    <3>1. /\ ObjectsSame /\ Goto(t, "sleep") /\ pc[t] = "locked" /\ Call(t).op = "wait"
      BY <1>2, <2>3 DEF WaitOne, ObjectsSame
    <3>2. Moves(t) /\ prog' = prog /\ ip' = ip /\ pc'[t] = "sleep"
      BY <3>1, <1>g, GotoMoves DEF Goto, Places
    <3>3. Types'
      BY <3>1, <3>2, <1>g DEF Types, ObjectsSame, Moves
    <3>4. CallInv' /\ SleepInv' /\ ReleaseInv'
      BY <2>3, <3>1, <3>2 DEF IInv, CallInv, SleepInv, ReleaseInv, ObjectsSame, Moves, Call, Target, Signaled
    <3>5. HoldInv' /\ UnitsConserved'
      BY <3>1 DEF IInv, HoldInv, UnitsConserved, ObjectsSame
    <3> QED
      BY <3>3, <3>4, <3>5 DEF IInv
  <2> QED
    BY <2>1, <2>2, <2>3
<1>3. CASE WaitMultiple(t)
  <2>1. CASE Met(t)
    <3>1. PICK os \in Choices(t) :
            /\ Take(t, os)
            /\ ReturnAnd(t, UNION {Notified(o) : o \in {p \in os : Is(p, "semaphore")}})
      BY <1>3, <2>1 DEF WaitMultiple
    <3>2. \A o \in os : Signaled(t, o)
      BY <2>1, <3>1 DEF Choices, Firsts, Met
    <3>3. \A u \in UNION {Notified(o) : o \in {p \in os : Is(p, "semaphore")}} : pc[u] = "sleep"
      BY DEF Notified, Sleepers
    <3> QED
      BY <1>1, <3>1, <3>2, <3>3
  <2>2. CASE ~Met(t)
    <3>1. ObjectsSame /\ Moves(t) /\ pc'[t] = "clock"
      BY <1>3, <2>2, <1>g DEF WaitMultiple, ObjectsSame, Moves, Types, Places
    <3> QED
      BY <3>1, MoveHolds
  <2> QED
    BY <2>1, <2>2
<1> QED
  BY <1>2, <1>3

-----------------------------------------------------------------------------
(* Signalling.                                                             *)

LEMMA SetHolds ==
  ASSUME IInv, NEW t \in Threads, SetOrReset(t)
  PROVE  IInv'
<1> DEFINE o == Target(t)
           woken == IF Call(t).op = "set" THEN Notified(o) ELSE {}
<1>g. Types
  BY DEF IInv
<1>1. o \in Objects /\ (Is(o, "auto") \/ Is(o, "manual"))
  <2>1. pc[t] = "locked" /\ Call(t).op \in {"set", "reset"}
    BY DEF SetOrReset
  <2> QED
    BY <2>1, TargetTyped DEF IInv, CallInv, WellTyped, Target
<1>2. /\ count' = [count EXCEPT ![o] = IF Call(t).op = "set" THEN 1 ELSE 0]
      /\ gave' = [gave EXCEPT ![o] = IF Call(t).op = "set" THEN @ + 1 ELSE @]
      /\ ReturnAnd(t, woken)
      /\ UNCHANGED <<owner, took, holds>>
  BY DEF SetOrReset
<1> HIDE DEF o
<1>3. /\ prog' = prog /\ ip' \in [Threads -> Nat \ {0}] /\ pc' \in [Threads -> Places]
      /\ \A u \in Threads \ {t} : ip'[u] = ip[u]
      /\ \A u \in Threads \ {t} : pc'[u] = IF u \in woken THEN "lock" ELSE pc[u]
      /\ \A u \in Threads \ {t} : pc'[u] = pc[u] \/ (pc[u] = "sleep" /\ pc'[u] = "lock")
      /\ pc'[t] = "call"
  <2>1. \A u \in woken : pc[u] = "sleep"
    BY DEF Notified, Sleepers
  <2> HIDE DEF woken
  <2> QED
    BY <1>2, <1>g, <2>1, ReturnAndMoves
<1>4. Types'
  <2>1. count' \in [Objects -> Nat]
    BY <1>2, <1>g DEF Types
  <2>2. \A p \in Objects : gave[p] \in Nat /\ gave[p] + 1 \in Nat
    BY <1>g DEF Types
  <2>3. gave' \in [Objects -> Nat]
    BY <1>2, <1>g, <2>2 DEF Types
  <2> QED
    BY <1>2, <1>3, <1>g, <2>1, <2>3 DEF Types
<1>5. HoldInv'
  <2>1. \A p \in Things : Is(p, "mutant") => count'[p] = count[p]
    BY <1>1, <1>2, <1>g DEF Types, Is, Objects
  <2> QED
    BY <1>2, <2>1 DEF IInv, HoldInv
<1>6. ASSUME NEW p \in Things
      PROVE  /\ Is(p, "auto") => took'[p] + count'[p] <= gave'[p]
             /\ Is(p, "semaphore") => count'[p] = gave'[p] - took'[p]
  <2>1. /\ Is(p, "auto") => took[p] + count[p] <= gave[p]
        /\ Is(p, "semaphore") => count[p] = gave[p] - took[p]
    BY DEF IInv, UnitsConserved
  <2>2. p \in Objects /\ count[p] \in Nat /\ took[p] \in Nat /\ gave[p] \in Nat
    BY <1>g DEF Objects, Types
  <2>3. p # o => count'[p] = count[p] /\ gave'[p] = gave[p]
    BY <1>2, <2>2, <1>g DEF Types
  <2>4. p = o => /\ count'[p] = IF Call(t).op = "set" THEN 1 ELSE 0
                 /\ gave'[p] = IF Call(t).op = "set" THEN gave[p] + 1 ELSE gave[p]
    BY <1>2, <2>2, <1>g DEF Types
  <2>5. p = o => ~Is(p, "semaphore")
    BY <1>1 DEF Is
  <2>6. took'[p] = took[p]
    BY <1>2
  <2> QED
    BY <2>1, <2>2, <2>3, <2>4, <2>5, <2>6
<1>7. UnitsConserved'
  BY <1>6 DEF UnitsConserved
<1>8. Considerate(t)
  <2>1. ASSUME NEW p, NEW u \in Threads \ {t}, Is(p, "mutant"), owner[p] = u, count[p] > 0
        PROVE  owner'[p] = u /\ count'[p] > 0
    BY <1>1, <1>2, <1>g, <2>1 DEF Types, Is
  <2>2. ASSUME NEW p \in Objects, NEW u \in Threads \ {t}, pc'[u] = "sleep", Target(u) = p, ~Signaled(u, p)
        PROVE  ~Signaled(u, p)'
    <3>1. pc[u] = "sleep" /\ u \notin woken
      BY <1>3, <2>2
    <3>2. CASE p = o /\ Call(t).op = "set"
      BY <3>1, <3>2, <2>2 DEF Notified, Sleepers
    <3>3. CASE p = o /\ Call(t).op # "set"
      BY <1>1, <1>2, <1>g, <3>3 DEF Types, Signaled, Is
    <3>4. CASE p # o
      BY <1>2, <1>g, <2>2, <3>4 DEF Types, Signaled
    <3> QED
      BY <3>2, <3>3, <3>4
  <2>3. \A u \in Threads \ {t} : pc'[u] = "sleep" => ~Signaled(u, Target(u))'
    BY <1>3, <2>2, SleepersStay
  <2> QED
    BY <2>1, <2>3 DEF Considerate
<1> QED
  BY <1>3, <1>4, <1>5, <1>7, <1>8, ConsiderateHolds

LEMMA ReleaseHolds ==
  ASSUME IInv, NEW t \in Threads, Release(t)
  PROVE  IInv'
<1> DEFINE o == Target(t)
           full == Is(o, "semaphore") /\ count[o] = MaxCount
           woken == IF ~full /\ (Is(o, "semaphore") \/ Released(o) = 0) THEN Notified(o) ELSE {}
<1>g. Types
  BY DEF IInv
<1>0. pc[t] = "locked" /\ Call(t).op = "release"
  BY DEF Release
<1>1. o \in Objects /\ o \in Things /\ (Is(o, "semaphore") \/ Is(o, "mutant"))
  BY <1>0, TargetTyped DEF IInv, CallInv, WellTyped, Target, Is
<1>2. Is(o, "mutant") => owner[o] = t /\ count[o] > 0
  BY <1>0 DEF IInv, ReleaseInv
<1>3. /\ count' = [count EXCEPT ![o] = IF full THEN @ ELSE Released(o)]
      /\ gave' = [gave EXCEPT ![o] = IF full THEN @ ELSE @ + 1]
      /\ holds' = [holds EXCEPT ![o][t] = IF Is(o, "mutant") THEN @ - 1 ELSE @]
      /\ ReturnAnd(t, woken)
      /\ UNCHANGED <<owner, took>>
  BY DEF Release
<1> HIDE DEF o
<1>4. /\ prog' = prog /\ ip' \in [Threads -> Nat \ {0}] /\ pc' \in [Threads -> Places]
      /\ \A u \in Threads \ {t} : ip'[u] = ip[u]
      /\ \A u \in Threads \ {t} : pc'[u] = IF u \in woken THEN "lock" ELSE pc[u]
      /\ \A u \in Threads \ {t} : pc'[u] = pc[u] \/ (pc[u] = "sleep" /\ pc'[u] = "lock")
      /\ pc'[t] = "call"
  <2>1. \A u \in woken : pc[u] = "sleep"
    BY DEF Notified, Sleepers
  <2> HIDE DEF woken
  <2> QED
    BY <1>3, <1>g, <2>1, ReturnAndMoves
<1>5. /\ count[o] \in Nat /\ gave[o] \in Nat /\ took[o] \in Nat
      /\ Is(o, "mutant") => ~Is(o, "semaphore")
      /\ Released(o) = (IF Is(o, "mutant") THEN count[o] - 1 ELSE count[o] + 1)
      /\ Released(o) \in Nat
  BY <1>1, <1>2, <1>g DEF Types, Is, Released
<1> HIDE DEF full
<1>6. /\ \A p \in Objects : count'[p] = IF p = o /\ ~full THEN Released(o) ELSE count[p]
      /\ \A p \in Objects : gave'[p] = IF p = o /\ ~full THEN gave[o] + 1 ELSE gave[p]
      /\ count' \in [Objects -> Nat] /\ gave' \in [Objects -> Nat]
  BY <1>1, <1>3, <1>5, <1>g DEF Types
<1>7. ~full \/ Is(o, "semaphore")
  BY DEF full
<1>8. \A p \in Things : \A u \in Threads :
        holds'[p][u] = IF p = o /\ u = t /\ Is(o, "mutant") THEN holds[p][u] - 1 ELSE holds[p][u]
  BY <1>1, <1>3, <1>g DEF Types
<1>9. ASSUME NEW p \in Things, NEW u \in Threads
      PROVE  /\ holds'[p][u] = IF Is(p, "mutant") /\ owner'[p] = u THEN count'[p] ELSE 0
             /\ holds'[p][u] \in Nat
  <2>1. holds[p][u] = IF Is(p, "mutant") /\ owner[p] = u THEN count[p] ELSE 0
    BY DEF IInv, HoldInv
  <2>2. p \in Objects /\ count[p] \in Nat /\ count'[p] \in Nat
    BY <1>6, <1>g DEF Objects, Types
  <2>3. CASE p = o /\ Is(o, "mutant")
    <3>1. count'[p] = count[p] - 1 /\ owner'[p] = t /\ owner[p] = t
      BY <1>2, <1>3, <1>5, <1>6, <1>7, <2>2, <2>3
    <3> QED
      BY <1>8, <2>1, <2>2, <2>3, <3>1
  <2>4. CASE p # o
    BY <1>3, <1>6, <1>8, <2>1, <2>2, <2>4
  <2>5. CASE p = o /\ ~Is(o, "mutant")
    BY <1>3, <1>8, <2>1, <2>5
  <2> QED
    BY <2>3, <2>4, <2>5
<1>10. HoldInv'
  BY <1>9 DEF HoldInv
<1>11. holds' \in [Things -> [Threads -> Nat]]
  <2>1. holds' = [p \in Things |-> [u \in Threads |-> holds'[p][u]]]
    BY <1>1, <1>3, <1>g DEF Types
  <2> QED
    BY <1>9, <2>1
<1>12. Types'
  BY <1>3, <1>4, <1>6, <1>11, <1>g DEF Types
<1>13. ASSUME NEW p \in Things
       PROVE  /\ Is(p, "auto") => took'[p] + count'[p] <= gave'[p]
              /\ Is(p, "semaphore") => count'[p] = gave'[p] - took'[p]
  <2>1. /\ Is(p, "auto") => took[p] + count[p] <= gave[p]
        /\ Is(p, "semaphore") => count[p] = gave[p] - took[p]
    BY DEF IInv, UnitsConserved
  <2>2. p \in Objects /\ count[p] \in Nat /\ took[p] \in Nat /\ gave[p] \in Nat
    BY <1>g DEF Objects, Types
  <2>3. took'[p] = took[p]
    BY <1>3
  <2>4. CASE p = o /\ ~full
    <3>1. ~Is(p, "auto")
      BY <1>1, <2>4 DEF Is
    <3> QED
      BY <1>5, <1>6, <2>1, <2>2, <2>3, <2>4, <3>1
  <2>5. CASE ~(p = o /\ ~full)
    BY <1>6, <2>1, <2>2, <2>3, <2>5
  <2> QED
    BY <2>4, <2>5
<1>14. UnitsConserved'
  BY <1>13 DEF UnitsConserved
<1>15. Considerate(t)
  <2>1. ASSUME NEW p, NEW u \in Threads \ {t}, Is(p, "mutant"), owner[p] = u, count[p] > 0
        PROVE  owner'[p] = u /\ count'[p] > 0
    <3>1. p \in Objects /\ p # o
      BY <1>2, <2>1 DEF Is, Objects
    <3> QED
      BY <1>3, <1>6, <2>1, <3>1
  <2>2. ASSUME NEW p \in Objects, NEW u \in Threads \ {t}, pc'[u] = "sleep", Target(u) = p, ~Signaled(u, p)
        PROVE  ~Signaled(u, p)'
    <3>1. pc[u] = "sleep" /\ u \notin woken
      BY <1>4, <2>2
    <3>2. owner'[p] = owner[p]
      BY <1>3
    <3>3. CASE p = o /\ ~full
      <4>1. ~(Is(o, "semaphore") \/ Released(o) = 0)
        BY <3>1, <3>3, <2>2 DEF Notified, Sleepers
      <4>2. Is(o, "mutant") /\ count'[p] # 0 /\ owner[p] # u
        BY <1>1, <1>2, <1>6, <3>3, <4>1
      <4> QED
        BY <3>2, <3>3, <4>2 DEF Signaled
    <3>4. CASE ~(p = o /\ ~full)
      BY <1>6, <2>2, <3>2, <3>4 DEF Signaled
    <3> QED
      BY <3>3, <3>4
  <2>3. \A u \in Threads \ {t} : pc'[u] = "sleep" => ~Signaled(u, Target(u))'
    BY <1>4, <2>2, SleepersStay
  <2> QED
    BY <2>1, <2>3 DEF Considerate
<1> QED
  BY <1>4, <1>10, <1>12, <1>14, <1>15, ConsiderateHolds

\* A thread that ends signals itself.
LEMMA EndHolds ==
  ASSUME IInv, NEW t \in Threads, SignalEnd(t)
  PROVE  IInv'
<1>g. Types
  BY DEF IInv
<1>1. /\ count' = [count EXCEPT ![t] = 1]
      /\ pc' = [u \in Threads |-> IF u = t THEN "leave" ELSE IF u \in Notified(t) THEN "lock" ELSE pc[u]]
      /\ UNCHANGED <<prog, ip, owner, gave, took, holds>>
  BY DEF SignalEnd
<1>2. /\ \A u \in Threads \ {t} : pc'[u] = IF u \in Notified(t) THEN "lock" ELSE pc[u]
      /\ \A u \in Threads \ {t} : pc'[u] = pc[u] \/ (pc[u] = "sleep" /\ pc'[u] = "lock")
      /\ pc'[t] = "leave" /\ pc' \in [Threads -> Places]
  BY <1>1, <1>g DEF Notified, Sleepers, Types, Places
<1>3. Types'
  BY <1>1, <1>2, <1>g DEF Types
<1>4. \A p \in Things : count'[p] = count[p]
  BY <1>1, <1>g, Distinct DEF Types, Objects
<1>5. HoldInv' /\ UnitsConserved'
  BY <1>1, <1>4 DEF IInv, HoldInv, UnitsConserved
<1>6. Considerate(t)
  <2>1. ASSUME NEW p, NEW u \in Threads \ {t}, Is(p, "mutant"), owner[p] = u, count[p] > 0
        PROVE  owner'[p] = u /\ count'[p] > 0
    BY <1>1, <1>4, <2>1 DEF Is
  <2>2. ASSUME NEW p \in Objects, NEW u \in Threads \ {t}, pc'[u] = "sleep", Target(u) = p, ~Signaled(u, p)
        PROVE  ~Signaled(u, p)'
    <3>1. p # t
      BY <1>2, <2>2 DEF Notified, Sleepers
    <3> QED
      BY <1>1, <1>g, <2>2, <3>1 DEF Types, Signaled
  <2>3. \A u \in Threads \ {t} : pc'[u] = "sleep" => ~Signaled(u, Target(u))'
    BY <1>1, <1>2, <2>2, SleepersStay
  <2> QED
    BY <2>1, <2>3 DEF Considerate
<1> QED
  BY <1>1, <1>2, <1>3, <1>5, <1>6, ConsiderateHolds

-----------------------------------------------------------------------------
LEMMA HandlerHolds ==
  ASSUME IInv, (\E t \in Threads : Handler(t)) \/ UNCHANGED vars
  PROVE  IInv'
<1>1. ObjectsSame /\ UNCHANGED <<prog, ip, pc>>
  BY DEF Handler, Interrupted, HandlerReturns, vars, callVars, objVars, ObjectsSame
<1>2. Types'
  BY <1>1 DEF IInv, Types, ObjectsSame
<1>3. CallInv' /\ SleepInv' /\ ReleaseInv'
  BY <1>1 DEF IInv, CallInv, SleepInv, ReleaseInv, ObjectsSame, Call, Target, Signaled
<1>4. HoldInv' /\ UnitsConserved'
  BY <1>1 DEF IInv, HoldInv, UnitsConserved, ObjectsSame
<1> QED
  BY <1>2, <1>3, <1>4 DEF IInv

LEMMA Invariance == Spec => []IInv
<1>1. Init => IInv
  BY InitHolds
<1>2. IInv /\ [Next]_vars => IInv'
  <2> SUFFICES ASSUME IInv, [Next]_vars PROVE IInv'
    OBVIOUS
  <2>1. ASSUME NEW t \in Threads, Step(t) PROVE IInv'
    BY <2>1, QuietHolds, CreateHolds, ApproachHolds, WaitHolds, SetHolds, ReleaseHolds, EndHolds DEF Step
  <2>2. ASSUME NEW t \in Threads, Locking(t) \/ TimeOut(t) PROVE IInv'
    BY <2>2, QuietHolds, ApproachHolds DEF Locking, TimeOut
  <2>3. CASE (\E t \in Threads : Handler(t)) \/ UNCHANGED vars
    BY <2>3, HandlerHolds
  <2> QED
    BY <2>1, <2>2, <2>3 DEF Next
<1> QED
  BY <1>1, <1>2, PTL DEF Spec

\* What a wait takes is what a signal gave (Wait and WaitMultiple against Set, Reset,
\* Release and the end of threads): each unit once, a mutant to one thread, and no
\* sleeper is left at a signalled object.
THEOREM WaitsExact == Spec => []WaitsAreExact
<1>1. IInv => UnitsConserved
  BY DEF IInv
<1>2. IInv => MutexExclusion
  BY DEF IInv, Types, HoldInv, MutexExclusion
<1>3. IInv => NoLostWakeup
  BY DEF IInv, SleepInv, NoLostWakeup
<1>4. IInv => WaitsAreExact
  BY <1>1, <1>2, <1>3 DEF WaitsAreExact
<1> QED
  BY Invariance, <1>4, PTL

-----------------------------------------------------------------------------
(* Who holds the mutexes.                                                  *)

\* What a thread holds where it stands.
Holds(t) == CASE pc[t] = "locked" -> {Target(t)} [] pc[t] = "last" -> {t} [] pc[t] = "trylock" -> Held(t)
              [] OTHER -> {}

LockTypes == /\ lock \in [Objects -> Threads \cup {None}]
             /\ late \in [Threads -> BOOLEAN] /\ locked \in [Threads -> Nat]

\* Of one thread: what it holds is what it has locked, it is in a wait while it
\* polls, and only a wait for one object runs out of time.
LockInvOf(t) ==
  /\ \A o \in Objects : lock[o] = t <=> o \in Holds(t)
  /\ pc[t] \in {"trylock", "clock"} => ip[t] <= Len(prog[t])
  /\ pc[t] = "trylock" => locked[t] <= Len(Call(t).on)
  /\ pc[t] # "trylock" => locked[t] = 0
  /\ late[t] => pc[t] \in {"lock", "locked"}

LockInv == LockTypes /\ \A t \in Threads : LockInvOf(t)

\* Where a thread holds nothing and does not poll.
Outside == Places \ {"locked", "last", "trylock", "clock"}

\* A thread that stays where it is, or is woken or started, keeps its mutexes if the
\* others leave them to it.
LEMMA OthersKeep ==
  ASSUME LockInv, NEW u \in Threads, prog' = prog, ip'[u] = ip[u], late'[u] = late[u], locked'[u] = locked[u],
         \/ pc'[u] = pc[u]
         \/ pc[u] = "sleep" /\ pc'[u] = "lock"
         \/ pc[u] = "unborn" /\ pc'[u] = "start",
         \A o \in Objects : lock'[o] = u <=> lock[o] = u
  PROVE  LockInvOf(u)'
<1>1. LockInvOf(u)
  BY DEF LockInv
<1>2. Call(u)' = Call(u) /\ Target(u)' = Target(u) /\ Held(u)' = Held(u)
  BY DEF Call, Target, Held
<1>3. Holds(u)' = Holds(u)
  BY <1>2 DEF Holds
<1> QED
  BY <1>1, <1>2, <1>3 DEF LockInvOf

\* The invariant after a step of thread t.
LEMMA LockStep ==
  ASSUME LockInv, NEW t \in Threads, prog' = prog, LockTypes', LockInvOf(t)',
         \A u \in Threads \ {t} :
           /\ ip'[u] = ip[u] /\ late'[u] = late[u] /\ locked'[u] = locked[u]
           /\ \/ pc'[u] = pc[u]
              \/ pc[u] = "sleep" /\ pc'[u] = "lock"
              \/ pc[u] = "unborn" /\ pc'[u] = "start"
           /\ \A o \in Objects : lock'[o] = u <=> lock[o] = u
  PROVE  LockInv'
  BY OthersKeep DEF LockInv

\* Where a thread is that goes on or returns.
LEMMA LockGoto ==
  ASSUME Types, LockTypes, NEW t \in Threads, NEW label \in Places, Goto(t, label)
  PROVE  /\ prog' = prog /\ ip' = ip /\ late' = late /\ locked' = locked /\ pc'[t] = label
         /\ \A u \in Threads \ {t} : pc'[u] = pc[u]
  BY DEF Goto, Types

LEMMA LockReturn ==
  ASSUME Types, LockTypes, NEW t \in Threads, NEW woken, \A u \in woken : pc[u] = "sleep", ReturnAnd(t, woken)
  PROVE  /\ prog' = prog /\ late' \in [Threads -> BOOLEAN] /\ locked' \in [Threads -> Nat]
         /\ pc'[t] = "call" /\ ~late'[t] /\ locked'[t] = 0
         /\ \A u \in Threads \ {t} :
              /\ ip'[u] = ip[u] /\ late'[u] = late[u] /\ locked'[u] = locked[u]
              /\ pc'[u] = pc[u] \/ (pc[u] = "sleep" /\ pc'[u] = "lock")
<1>1. pc' \in [Threads -> Places] /\ pc'[t] = "call"
      /\ \A u \in Threads \ {t} :
           /\ ip'[u] = ip[u]
           /\ pc'[u] = pc[u] \/ (pc[u] = "sleep" /\ pc'[u] = "lock")
  BY ReturnAndMoves
<1> QED
  BY <1>1 DEF ReturnAnd, LockTypes

\* A thread that holds nothing afterwards and let go of what it held.
LEMMA LetGo ==
  ASSUME Types, LockInv, NEW t \in Threads, NEW os, Unlocked(os), \A o \in Objects : o \in os <=> lock[o] = t
  PROVE  /\ lock' \in [Objects -> Threads \cup {None}]
         /\ \A o \in Objects : lock'[o] # t
         /\ \A u \in Threads \ {t} : \A o \in Objects : lock'[o] = u <=> lock[o] = u
  BY Distinct DEF Unlocked, LockInv, LockTypes

LEMMA OutsideHolds ==
  ASSUME NEW t, pc[t] \notin {"locked", "last", "trylock"}
  PROVE  Holds(t) = {}
  BY DEF Holds

\* A thread that is outside, before or after a step that leaves the mutexes alone.
LEMMA QuietLocks ==
  ASSUME Types, LockInv, NEW t \in Threads, lock' = lock, prog' = prog, LockTypes',
         pc[t] \notin {"locked", "last", "trylock"},
         pc'[t] \notin {"locked", "last", "trylock", "clock"},
         late'[t] => pc'[t] = "lock", locked'[t] = 0,
         \A u \in Threads \ {t} :
           /\ ip'[u] = ip[u] /\ late'[u] = late[u] /\ locked'[u] = locked[u]
           /\ \/ pc'[u] = pc[u]
              \/ pc[u] = "sleep" /\ pc'[u] = "lock"
              \/ pc[u] = "unborn" /\ pc'[u] = "start"
  PROVE  LockInv'
<1>1. Holds(t) = {} /\ Holds(t)' = {}
  BY DEF Holds
<1>2. LockInvOf(t)'
  BY <1>1 DEF LockInv, LockInvOf
<1> QED
  BY <1>2, LockStep

\* The steps of threads outside.
LEMMA OutsideLocks ==
  ASSUME Types, LockInv, NEW t \in Threads,
         \/ UserCallback(t) \/ Deadline(t) \/ QueueUserCallback(t) \/ Start(t) \/ Run(t) \/ Created(t) \/ Finish(t)
         \/ Leave(t) \/ Suspend(t) \/ SuspendCheck(t) \/ HostSuspend(t) \/ SendSignal(t)
         \/ Resume(t) \/ ResumeCount(t) \/ ResumeCheck(t) \/ ResumeHost(t)
         \/ SelfSuspend(t) \/ SelfResumed(t) \/ Signal(t)
  PROVE  LockInv'
<1>g. LockTypes /\ LockInvOf(t)
  BY DEF LockInv
<1>1. lock' = lock
  BY DEF UserCallback, Deadline, QueueUserCallback, Start, Run, Created, Finish, Leave, Suspend, SuspendCheck,
         HostSuspend, SendSignal, Resume, ResumeCount, ResumeCheck, ResumeHost, SelfSuspend, SelfResumed, Signal, objVars
<1>2. pc[t] \notin {"lock", "locked", "last", "trylock"}
  BY DEF UserCallback, Deadline, QueueUserCallback, Start, Run, Created, Finish, Leave, Suspend, SuspendCheck,
         HostSuspend, SendSignal, Resume, ResumeCount, ResumeCheck, ResumeHost, SelfSuspend, SelfResumed, Signal, Calls
<1>3. CASE Return(t)
  <2>1. /\ prog' = prog /\ late' \in [Threads -> BOOLEAN] /\ locked' \in [Threads -> Nat]
        /\ pc'[t] = "call" /\ ~late'[t] /\ locked'[t] = 0
        /\ \A u \in Threads \ {t} :
             /\ ip'[u] = ip[u] /\ late'[u] = late[u] /\ locked'[u] = locked[u]
             /\ pc'[u] = pc[u] \/ (pc[u] = "sleep" /\ pc'[u] = "lock")
    <3>1. \A u \in {} : pc[u] = "sleep"
      OBVIOUS
    <3>2. ReturnAnd(t, {})
      BY <1>3 DEF Return
    <3> QED
      BY <1>g, <3>1, <3>2, LockReturn
  <2> QED
    BY <1>1, <1>2, <1>g, <2>1, QuietLocks DEF LockTypes
<1>4. CASE ~Return(t)
  <2>1. PICK label \in {"lock", "held", "call", "exit", "gone", "suspend_check", "suspend_kill", "self_suspended",
                        "suspend_host", "resume_count", "resume_check", "resume_host"} : Goto(t, label)
    BY <1>4 DEF UserCallback, Deadline, QueueUserCallback, Start, Run, Created, Finish, Leave, Suspend, SuspendCheck,
                HostSuspend, SendSignal, Resume, ResumeCount, ResumeCheck, ResumeHost, SelfSuspend, SelfResumed, Signal
  <2>2. label \in Places
    BY DEF Places
  <2>3. /\ prog' = prog /\ ip' = ip /\ late' = late /\ locked' = locked /\ pc'[t] = label
        /\ \A u \in Threads \ {t} : pc'[u] = pc[u]
    BY <1>g, <2>1, <2>2, LockGoto
  <2>4. locked[t] = 0 /\ ~late[t]
    BY <1>2, <1>g DEF LockInvOf
  <2> QED
    BY <1>1, <1>2, <1>g, <2>3, <2>4, QuietLocks DEF LockTypes
<1> QED
  BY <1>3, <1>4

LEMMA CreateLocks ==
  ASSUME Types, LockInv, NEW t \in Threads, Create(t)
  PROVE  LockInv'
<1>1. /\ lock' = lock /\ prog' = prog /\ ip' = ip /\ late' = late /\ locked' = locked
      /\ pc' = [pc EXCEPT ![t] = "wait_started", ![Target(t)] = "start"]
      /\ pc[t] = "call" /\ pc[Target(t)] = "unborn"
  BY DEF Create, Calls, objVars
<1>2. /\ pc'[t] = "wait_started"
      /\ \A u \in Threads \ {t} : pc'[u] = pc[u] \/ (pc[u] = "unborn" /\ pc'[u] = "start")
  BY <1>1 DEF Types
<1>3. locked[t] = 0 /\ ~late[t] /\ LockTypes
  BY <1>1 DEF LockInv, LockInvOf
<1> QED
  BY <1>1, <1>2, <1>3, QuietLocks DEF LockTypes

LEMMA ApproachLocks ==
  ASSUME IInv, LockInv, NEW t \in Threads, Wait(t) \/ SleepTimeout(t) \/ PollAgain(t) \/ PollTimeout(t) \/ Lock(t)
  PROVE  LockInv'
<1>g. Types /\ LockTypes /\ LockInvOf(t)
  BY DEF IInv, LockInv
<1>1. CASE Wait(t) \/ PollAgain(t)
  <2>1. /\ lock' = lock /\ pc[t] \in {"call", "clock"} /\ ip[t] <= Len(prog[t])
        /\ Goto(t, "lock") \/ Goto(t, "trylock")
    BY <1>1, <1>g DEF Wait, PollAgain, Calls, objVars, LockInvOf
  <2>2. /\ prog' = prog /\ ip' = ip /\ late' = late /\ locked' = locked /\ pc'[t] \in {"lock", "trylock"}
        /\ \A u \in Threads \ {t} : pc'[u] = pc[u]
    BY <2>1, <1>g, LockGoto DEF Places
  <2>3. locked[t] = 0 /\ ~late[t]
    BY <2>1, <1>g DEF LockInvOf
  <2>4. Call(t)' = Call(t) /\ ip[t] \in Nat \ {0} /\ Call(t).on \in Seq(Objects)
    BY <2>1, <2>2, <1>g, TargetTyped DEF Call, Types, WellTyped
  <2>5. Holds(t) = {} /\ Holds(t)' = {}
    BY <2>1, <2>2, <2>3 DEF Holds, Held
  <2>6. LockInvOf(t)'
    BY <2>1, <2>2, <2>3, <2>4, <2>5, <1>g DEF LockInvOf
  <2> QED
    BY <2>1, <2>2, <2>6, <1>g, LockStep DEF LockTypes
<1>2. CASE SleepTimeout(t) \/ PollTimeout(t)
  <2>1. /\ lock' = lock /\ prog' = prog /\ pc[t] \in {"sleep", "clock"}
        /\ SleepTimeout(t) \/ NextSlice(t) \/ Return(t)
    BY <1>2 DEF SleepTimeout, PollTimeout, TimedOut, NextSlice, Return, ReturnAnd, objVars
  <2>2. /\ LockTypes'
        /\ late'[t] => pc'[t] = "lock"
        /\ locked'[t] = 0 /\ pc'[t] \in {"lock", "call"}
        /\ \A u \in Threads \ {t} :
             ip'[u] = ip[u] /\ late'[u] = late[u] /\ locked'[u] = locked[u] /\ pc'[u] = pc[u]
    <3>1. locked[t] = 0
      BY <2>1, <1>g DEF LockInvOf
    <3>2. CASE SleepTimeout(t)
      BY <2>1, <3>1, <3>2, <1>g DEF SleepTimeout, LockTypes, Types
    <3>3. CASE NextSlice(t)
      BY <2>1, <3>3, <1>g DEF NextSlice, LockTypes, Types
    <3>4. CASE Return(t)
      BY <2>1, <3>4, <1>g DEF Return, ReturnAnd, LockTypes, Types
    <3> QED
      BY <2>1, <3>2, <3>3, <3>4
  <2> QED
    BY <2>1, <2>2, <1>g, QuietLocks
<1>3. CASE Lock(t)
  <2> DEFINE o == Mine(t)
             label == IF pc[t] = "exit" THEN "last" ELSE "locked"
  <2>1. /\ pc[t] \in {"lock", "exit"} /\ lock[o] = None /\ lock' = [lock EXCEPT ![o] = t] /\ Goto(t, label)
    BY <1>3 DEF Lock
  <2>2. /\ prog' = prog /\ ip' = ip /\ late' = late /\ locked' = locked /\ pc'[t] = label
        /\ \A u \in Threads \ {t} : pc'[u] = pc[u]
    BY <2>1, <1>g, LockGoto DEF Places
  <2>3. o \in Objects
    BY <2>1, TargetTyped DEF Mine, IInv, CallInv, Objects
  <2>4. Holds(t) = {} /\ Holds(t)' = {o}
    BY <2>1, <2>2 DEF Holds, Mine, Target, Call
  <2> HIDE DEF o
  <2>5. /\ lock' \in [Objects -> Threads \cup {None}]
        /\ \A p \in Objects : lock'[p] = IF p = o THEN t ELSE lock[p]
    BY <2>1, <2>3, <1>g DEF LockTypes
  <2>6. \A u \in Threads \ {t} : \A p \in Objects : lock'[p] = u <=> lock[p] = u
    BY <2>1, <2>3, <2>5, Distinct
  <2>7. LockInvOf(t)'
    BY <2>1, <2>2, <2>4, <2>5, <1>g DEF LockInvOf
  <2> QED
    BY <2>2, <2>5, <2>6, <2>7, <1>g, LockStep DEF LockTypes
<1> QED
  BY <1>1, <1>2, <1>3

\* One object after the other, or none.
LEMMA TryLocks ==
  ASSUME IInv, LockInv, NEW t \in Threads, TryLock(t)
  PROVE  LockInv'
<1> DEFINE k == locked[t]
           o == NextOne(t)
<1>g. Types /\ LockTypes /\ LockInvOf(t)
  BY DEF IInv, LockInv
<1>1. /\ pc[t] = "trylock" /\ k < Len(Call(t).on) /\ UNCHANGED <<prog, ip, pc, late>>
      /\ \/ lock[o] = None /\ lock' = [lock EXCEPT ![o] = t] /\ locked' = [locked EXCEPT ![t] = k + 1]
         \/ Unlocked(Held(t)) /\ locked' = [locked EXCEPT ![t] = 0]
  BY DEF TryLock, Dropped
<1>2. /\ Call(t)' = Call(t) /\ k \in Nat /\ Call(t).on \in Seq(Objects) /\ ip[t] <= Len(prog[t])
      /\ Holds(t) = Held(t) /\ Holds(t)' = Held(t)'
  BY <1>1, <1>g, TargetTyped DEF Call, WellTyped, LockTypes, LockInvOf, Holds
<1>3. CASE lock[o] = None /\ lock' = [lock EXCEPT ![o] = t] /\ locked' = [locked EXCEPT ![t] = k + 1]
  <2>1. o \in Objects /\ locked' \in [Threads -> Nat] /\ locked'[t] = k + 1
    BY <1>1, <1>2, <1>3, <1>g DEF NextOne, LockTypes
  <2>2. Holds(t)' = Holds(t) \cup {o}
    <3>1. Held(t)' = {Call(t).on[i] : i \in 1 .. k + 1}
      BY <1>2, <2>1 DEF Held
    <3>2. \A i : i \in 1 .. k + 1 <=> i \in 1 .. k \/ i = k + 1
      BY <1>2
    <3>3. Held(t)' = {Call(t).on[i] : i \in 1 .. k} \cup {Call(t).on[k + 1]}
      BY <3>1, <3>2
    <3> QED
      BY <1>2, <3>3 DEF Held, NextOne
  <2> HIDE DEF o
  <2>3. /\ lock' \in [Objects -> Threads \cup {None}]
        /\ \A p \in Objects : lock'[p] = IF p = o THEN t ELSE lock[p]
    BY <1>3, <2>1, <1>g DEF LockTypes
  <2>4. \A u \in Threads \ {t} : \A p \in Objects : lock'[p] = u <=> lock[p] = u
    BY <1>3, <2>3, Distinct
  <2>5. \A p \in Objects : lock'[p] = t <=> p \in Holds(t)'
    BY <2>2, <2>3, <1>g DEF LockInvOf
  <2>6. LockInvOf(t)'
    BY <1>1, <1>2, <2>1, <2>5, <1>g DEF LockInvOf
  <2> QED
    BY <1>1, <1>3, <2>1, <2>3, <2>4, <2>6, <1>g, LockStep DEF LockTypes
<1>4. CASE Unlocked(Held(t)) /\ locked' = [locked EXCEPT ![t] = 0]
  <2>1. \A p \in Objects : p \in Held(t) <=> lock[p] = t
    BY <1>2, <1>g DEF LockInvOf
  <2>2. /\ lock' \in [Objects -> Threads \cup {None}]
        /\ \A p \in Objects : lock'[p] # t
        /\ \A u \in Threads \ {t} : \A p \in Objects : lock'[p] = u <=> lock[p] = u
    BY <1>4, <2>1, <1>g, LetGo
  <2>3. locked' \in [Threads -> Nat] /\ locked'[t] = 0
    BY <1>4, <1>g DEF LockTypes
  <2>4. Holds(t)' = {}
    BY <1>2, <2>3 DEF Held
  <2>5. LockInvOf(t)'
    BY <1>1, <1>2, <2>2, <2>3, <2>4, <1>g DEF LockInvOf
  <2> QED
    BY <1>1, <1>4, <2>2, <2>3, <2>5, <1>g, LockStep DEF LockTypes
<1> QED
  BY <1>1, <1>3, <1>4

\* What is done under a mutex ends with its release.
LEMMA UnderLock ==
  ASSUME IInv, LockInv, NEW t \in Threads, WaitOne(t) \/ WaitMultiple(t) \/ SetOrReset(t) \/ Release(t) \/ SignalEnd(t)
  PROVE  LockInv'
<1>g. Types /\ LockTypes /\ LockInvOf(t)
  BY DEF IInv, LockInv
<1>1. PICK os : Unlocked(os) /\ os = Holds(t) /\ pc[t] \in {"locked", "trylock", "last"}
  <2>1. CASE WaitMultiple(t)
    <3>1. pc[t] = "trylock" /\ locked[t] = Len(Call(t).on) /\ Unlocked(Wanted(t))
      BY <2>1 DEF WaitMultiple
    <3>2. Call(t).on \in Seq(Objects)
      BY <3>1, <1>g, TargetTyped DEF LockInvOf, WellTyped
    <3>3. Wanted(t) = Held(t)
      BY <3>1, <3>2 DEF Wanted, Held
    <3> QED
      BY <3>1, <3>3 DEF Holds
  <2>2. CASE WaitOne(t) \/ SetOrReset(t) \/ Release(t)
    BY <2>2 DEF WaitOne, SetOrReset, Release, Holds
  <2>3. CASE SignalEnd(t)
    BY <2>3 DEF SignalEnd, Holds
  <2> QED
    BY <2>1, <2>2, <2>3
<1>2. /\ lock' \in [Objects -> Threads \cup {None}]
      /\ \A p \in Objects : lock'[p] # t
      /\ \A u \in Threads \ {t} : \A p \in Objects : lock'[p] = u <=> lock[p] = u
  BY <1>1, <1>g, LetGo DEF LockInvOf
<1>3. ASSUME NEW woken, \A u \in woken : pc[u] = "sleep", ReturnAnd(t, woken)
      PROVE  LockInv'
  <2>1. /\ prog' = prog /\ late' \in [Threads -> BOOLEAN] /\ locked' \in [Threads -> Nat]
        /\ pc'[t] = "call" /\ ~late'[t] /\ locked'[t] = 0
        /\ \A u \in Threads \ {t} :
             /\ ip'[u] = ip[u] /\ late'[u] = late[u] /\ locked'[u] = locked[u]
             /\ pc'[u] = pc[u] \/ (pc[u] = "sleep" /\ pc'[u] = "lock")
    BY <1>3, <1>g, LockReturn
  <2>2. Holds(t)' = {}
    BY <2>1 DEF Holds
  <2>3. LockInvOf(t)'
    BY <1>2, <2>1, <2>2 DEF LockInvOf
  <2> QED
    BY <1>2, <2>1, <2>3, <1>g, LockStep DEF LockTypes
<1>4. CASE SetOrReset(t)
  <2>1. PICK woken : ReturnAnd(t, woken) /\ \A u \in woken : pc[u] = "sleep"
    BY <1>4 DEF SetOrReset, Notified, Sleepers
  <2> QED
    BY <2>1, <1>3
<1>5. CASE Release(t)
  <2>1. PICK woken : ReturnAnd(t, woken) /\ \A u \in woken : pc[u] = "sleep"
    BY <1>5 DEF Release, Notified, Sleepers
  <2> QED
    BY <2>1, <1>3
<1>6. CASE SignalEnd(t)
  <2>1. /\ UNCHANGED <<prog, ip, late, locked>> /\ pc[t] = "last"
        /\ pc' = [u \in Threads |-> IF u = t THEN "leave" ELSE IF u \in Notified(t) THEN "lock" ELSE pc[u]]
    BY <1>6 DEF SignalEnd
  <2>2. /\ pc'[t] = "leave"
        /\ \A u \in Threads \ {t} : pc'[u] = pc[u] \/ (pc[u] = "sleep" /\ pc'[u] = "lock")
    BY <2>1 DEF Notified, Sleepers
  <2>3. Holds(t)' = {} /\ locked[t] = 0 /\ ~late[t]
    BY <2>1, <2>2, <1>g DEF Holds, LockInvOf
  <2>4. LockInvOf(t)'
    BY <1>2, <2>1, <2>2, <2>3 DEF LockInvOf
  <2> QED
    BY <1>2, <2>1, <2>2, <2>4, <1>g, LockStep DEF LockTypes
<1>7. CASE WaitOne(t)
  <2>1. CASE \E woken : ReturnAnd(t, woken) /\ \A u \in woken : pc[u] = "sleep"
    BY <2>1, <1>3
  <2>2. CASE ~\E woken : ReturnAnd(t, woken) /\ \A u \in woken : pc[u] = "sleep"
    <3>1. pc[t] = "locked" /\ (NextSlice(t) \/ (Goto(t, "sleep") /\ ~late[t]))
      <4>1. CASE Signaled(t, Target(t))
        BY <1>7, <2>2, <4>1 DEF WaitOne, Notified, Sleepers
      <4>2. CASE ~Signaled(t, Target(t)) /\ late[t]
        <5>1. pc[t] = "locked" /\ (NextSlice(t) \/ ReturnAnd(t, {}))
          BY <1>7, <4>2 DEF WaitOne, TimedOut, Return
        <5> QED
          BY <2>2, <5>1
      <4>3. CASE ~Signaled(t, Target(t)) /\ ~late[t]
        BY <1>7, <4>3 DEF WaitOne
      <4> QED
        BY <4>1, <4>2, <4>3
    <3>2. /\ prog' = prog /\ late' \in [Threads -> BOOLEAN] /\ locked' \in [Threads -> Nat]
          /\ pc'[t] \in {"call", "sleep"} /\ ~late'[t] /\ locked'[t] = 0
          /\ \A u \in Threads \ {t} :
               ip'[u] = ip[u] /\ late'[u] = late[u] /\ locked'[u] = locked[u] /\ pc'[u] = pc[u]
      <4>1. locked[t] = 0
        BY <3>1, <1>g DEF LockInvOf
      <4>2. CASE NextSlice(t)
        BY <4>1, <4>2, <1>g DEF NextSlice, LockTypes, Types
      <4>3. CASE Goto(t, "sleep") /\ ~late[t]
        BY <4>1, <4>3, <1>g DEF Goto, LockTypes, Types
      <4> QED
        BY <3>1, <4>2, <4>3
    <3>3. Holds(t)' = {}
      BY <3>2 DEF Holds
    <3>4. LockInvOf(t)'
      BY <1>2, <3>2, <3>3 DEF LockInvOf
    <3> QED
      BY <1>2, <3>2, <3>4, <1>g, LockStep DEF LockTypes
  <2> QED
    BY <2>1, <2>2
<1>8. CASE WaitMultiple(t)
  <2>1. CASE Met(t)
    <3>1. PICK ms \in Choices(t) : ReturnAnd(t, UNION {Notified(o) : o \in {p \in ms : Is(p, "semaphore")}})
      BY <1>8, <2>1 DEF WaitMultiple
    <3>2. \A u \in UNION {Notified(o) : o \in {p \in ms : Is(p, "semaphore")}} : pc[u] = "sleep"
      BY DEF Notified, Sleepers
    <3> QED
      BY <3>1, <3>2, <1>3
  <2>2. CASE ~Met(t)
    <3>1. /\ pc' = [pc EXCEPT ![t] = "clock"] /\ locked' = [locked EXCEPT ![t] = 0]
          /\ UNCHANGED <<prog, ip, late>> /\ pc[t] = "trylock"
      BY <1>8, <2>2 DEF WaitMultiple
    <3>2. /\ pc'[t] = "clock" /\ locked'[t] = 0 /\ locked' \in [Threads -> Nat]
          /\ \A u \in Threads \ {t} : pc'[u] = pc[u] /\ locked'[u] = locked[u]
      BY <3>1, <1>g DEF Types, LockTypes
    <3>3. Holds(t)' = {}
      BY <3>2 DEF Holds
    <3>4. LockInvOf(t)'
      BY <1>2, <3>1, <3>2, <3>3, <1>g DEF LockInvOf
    <3> QED
      BY <1>2, <3>1, <3>2, <3>4, <1>g, LockStep DEF LockTypes
  <2> QED
    BY <2>1, <2>2
<1> QED
  BY <1>4, <1>5, <1>6, <1>7, <1>8

-----------------------------------------------------------------------------
(* Counts and states.                                                      *)

\* No count exceeds what its object may hold.
CountInv ==
  \A o \in Objects : count[o] <= IF Is(o, "semaphore") THEN MaxCount ELSE IF Is(o, "mutant") THEN took[o] ELSE 1

HostTypes ==
  /\ state \in [Threads -> {"uninitialized", "running", "suspended", "finished"}]
  /\ suspend_count \in [Threads -> Nat] /\ sem \in [Threads -> Nat] /\ sigs \in [Threads -> Nat]
  /\ guest_count \in [Threads -> 0 .. Wrap - 1] /\ previous \in [Threads -> 0 .. Wrap - 1]

LEMMA CountHolds ==
  ASSUME IInv, CountInv, NEW t \in Threads,
         \/ UNCHANGED <<count, took>>
         \/ \E os : Take(t, os) /\ \A o \in os : Signaled(t, o)
         \/ SetOrReset(t) \/ Release(t) \/ SignalEnd(t)
  PROVE  CountInv'
<1>g. Types
  BY DEF IInv
<1>1. CASE UNCHANGED <<count, took>>
  BY <1>1 DEF CountInv
<1>2. CASE \E os : Take(t, os) /\ \A o \in os : Signaled(t, o)
  <2>1. PICK os : Take(t, os) /\ \A o \in os : Signaled(t, o)
    BY <1>2
  <2>2. ASSUME NEW o \in Objects
        PROVE  count'[o] <= IF Is(o, "semaphore") THEN MaxCount ELSE IF Is(o, "mutant") THEN took'[o] ELSE 1
    <3>1. /\ count'[o] = IF o \notin os THEN count[o] ELSE IF Is(o, "mutant") THEN count[o] + 1 ELSE Left(o)
          /\ took'[o] = IF o \in os THEN took[o] + 1 ELSE took[o]
      BY <2>1 DEF Take
    <3>2. count[o] \in Nat /\ took[o] \in Nat /\ MaxCount \in Nat
      BY <1>g, HostThreadsAssumption DEF Types
    <3>3. count[o] <= IF Is(o, "semaphore") THEN MaxCount ELSE IF Is(o, "mutant") THEN took[o] ELSE 1
      BY DEF CountInv
    <3>4. ~(Is(o, "semaphore") /\ Is(o, "mutant")) /\ ~(Is(o, "auto") /\ Is(o, "semaphore"))
      BY DEF Is
    <3> QED
      BY <3>1, <3>2, <3>3, <3>4 DEF Left
  <2> QED
    BY <2>2 DEF CountInv
<1>3. CASE SetOrReset(t)
  <2> DEFINE o == Target(t)
  <2>1. pc[t] = "locked" /\ Call(t).op \in {"set", "reset"}
    BY <1>3 DEF SetOrReset
  <2>2. o \in Objects /\ ~Is(o, "semaphore") /\ ~Is(o, "mutant")
    BY <2>1, TargetTyped DEF IInv, CallInv, WellTyped, Target, Is
  <2>3. /\ count' = [count EXCEPT ![o] = IF Call(t).op = "set" THEN 1 ELSE 0] /\ took' = took
    BY <1>3 DEF SetOrReset
  <2> HIDE DEF o
  <2> QED
    BY <2>2, <2>3, <1>g DEF CountInv, Types
<1>4. CASE Release(t)
  <2> DEFINE o == Target(t)
             full == Is(o, "semaphore") /\ count[o] = MaxCount
  <2>1. /\ pc[t] = "locked" /\ Call(t).op = "release" /\ took' = took
        /\ count' = [count EXCEPT ![o] = IF full THEN @ ELSE Released(o)]
    BY <1>4 DEF Release
  <2>2. o \in Objects /\ (Is(o, "semaphore") \/ Is(o, "mutant"))
    BY <2>1, TargetTyped DEF IInv, CallInv, WellTyped, Target
  <2> HIDE DEF o
  <2>3. /\ count[o] \in Nat /\ took[o] \in Nat /\ MaxCount \in Nat
        /\ ~(Is(o, "semaphore") /\ Is(o, "mutant"))
    BY <2>2, <1>g, HostThreadsAssumption DEF Types, Is
  <2>4. count[o] <= IF Is(o, "semaphore") THEN MaxCount ELSE took[o]
    BY <2>2, <2>3 DEF CountInv
  <2>5. \A p \in Objects : count'[p] = IF p # o THEN count[p] ELSE IF full THEN count[p] ELSE Released(p)
    BY <2>1, <1>g DEF Types
  <2>6. count'[o] <= IF Is(o, "semaphore") THEN MaxCount ELSE took[o]
    BY <2>2, <2>3, <2>4, <2>5 DEF Released
  <2> QED
    BY <2>1, <2>2, <2>3, <2>5, <2>6 DEF CountInv
<1>5. CASE SignalEnd(t)
  <2>1. count' = [count EXCEPT ![t] = 1] /\ took' = took
    BY <1>5 DEF SignalEnd
  <2>2. t \in Objects /\ ~Is(t, "semaphore") /\ ~Is(t, "mutant")
    BY Distinct DEF Objects
  <2> QED
    BY <2>1, <2>2, <1>g DEF CountInv, Types
<1> QED
  BY <1>1, <1>2, <1>3, <1>4, <1>5

LEMMA WrapIsByte ==
  /\ \A n \in Nat : n % Wrap \in 0 .. Wrap - 1
  /\ 0 \in 0 .. Wrap - 1 /\ 1 \in 0 .. Wrap - 1 /\ 0 .. Wrap - 1 \subseteq Nat
  BY HostThreadsAssumption

LEMMA HostHolds ==
  ASSUME IInv, HostTypes, NEW t \in Threads, Step(t) \/ Locking(t) \/ TimeOut(t) \/ Handler(t)
  PROVE  HostTypes'
<1>1. CASE UNCHANGED <<hostVars, sigs, guestVars>>
  BY <1>1 DEF HostTypes, hostVars, guestVars
<1>2. CASE Create(t)
  BY <1>2, WrapIsByte DEF Create, HostTypes, hostVars, sigVars, guestVars
<1>3. CASE Start(t) \/ Finish(t) \/ HostSuspend(t)
  <2>1. CASE Start(t)
    BY <1>3, <2>1 DEF Start, HostTypes, sigVars, guestVars
  <2>2. CASE Finish(t)
    BY <1>3, <2>2 DEF Finish, HostTypes, sigVars, guestVars
  <2>3. CASE HostSuspend(t)
    <3>1. \A v \in Threads : suspend_count[v] + 1 \in Nat
      BY DEF HostTypes
    <3> QED
      BY <2>3, <3>1 DEF HostSuspend, HostTypes, sigVars, guestVars
  <2> QED
    BY <1>3, <2>1, <2>2, <2>3
<1>4. CASE Created(t) \/ ResumeHost(t)
  <2>1. /\ \/ \E u : HostResume(u)
           \/ UNCHANGED hostVars
        /\ UNCHANGED <<sigs, guestVars>>
    BY <1>4 DEF Created, ResumeHost, sigVars
  <2>2. CASE UNCHANGED hostVars
    BY <2>1, <2>2 DEF HostTypes, hostVars, guestVars
  <2>3. ASSUME NEW u, HostResume(u) PROVE HostTypes'
    <3>1. state' \in [Threads -> {"uninitialized", "running", "suspended", "finished"}]
      BY <2>3 DEF HostResume, HostTypes
    <3>2. suspend_count' \in [Threads -> Nat] /\ sem' \in [Threads -> Nat]
      <4>1. /\ suspend_count' = [suspend_count EXCEPT ![u] = IF @ = 0 THEN 0 ELSE @ - 1]
            /\ sem' = [sem EXCEPT ![u] = sem[u] + 1] \/ sem' = [sem EXCEPT ![u] = sem[u]]
        BY <2>3 DEF HostResume
      <4>2. \A v \in Threads : suspend_count[v] \in Nat /\ sem[v] + 1 \in Nat
        BY DEF HostTypes
      <4>3. \A v \in Threads : (IF suspend_count[v] = 0 THEN 0 ELSE suspend_count[v] - 1) \in Nat
        BY <4>2
      <4> QED
        BY <4>1, <4>2, <4>3 DEF HostTypes
    <3> QED
      BY <2>1, <3>1, <3>2 DEF HostTypes, guestVars
  <2> QED
    BY <2>1, <2>2, <2>3
<1>5. CASE Suspend(t) \/ SelfSuspend(t)
  <2>1. /\ \E u : guest_count' = [guest_count EXCEPT ![u] = (@ + 1) % Wrap]
        /\ UNCHANGED <<hostVars, sigVars, previous>>
    BY <1>5 DEF Suspend, SelfSuspend
  <2>2. \A u \in Threads : (guest_count[u] + 1) % Wrap \in 0 .. Wrap - 1
    BY WrapIsByte DEF HostTypes
  <2>3. guest_count' \in [Threads -> 0 .. Wrap - 1]
    BY <2>1, <2>2 DEF HostTypes
  <2> QED
    BY <2>1, <2>3 DEF HostTypes, hostVars, sigVars
<1>6. CASE Resume(t)
  <2>1. guest_count[Target(t)] \in 0 .. Wrap - 1
    BY <1>6, TargetTyped DEF Resume, Calls, WellTyped, Target, HostTypes
  <2> QED
    BY <1>6, <2>1 DEF Resume, HostTypes, hostVars, sigVars
<1>7. CASE ResumeCount(t)
  <2>1. /\ \/ guest_count' = guest_count
           \/ \E old : /\ previous[t] # 0 /\ old \in {previous[t], guest_count[Target(t)]}
                       /\ guest_count' = [guest_count EXCEPT ![Target(t)] = (old + Wrap - 1) % Wrap]
        /\ previous' = [previous EXCEPT ![t] = 0] /\ UNCHANGED <<hostVars, sigVars>>
    BY <1>7 DEF ResumeCount
  <2>2. previous' \in [Threads -> 0 .. Wrap - 1]
    BY <2>1, WrapIsByte DEF HostTypes
  <2>3. guest_count' \in [Threads -> 0 .. Wrap - 1]
    <3>1. CASE guest_count' = guest_count
      BY <3>1 DEF HostTypes
    <3>2. ASSUME NEW old, old \in {previous[t], guest_count[Target(t)]}, Target(t) \in Threads
          PROVE  (old + Wrap - 1) % Wrap \in 0 .. Wrap - 1
      <4>1. old \in 0 .. Wrap - 1 /\ Wrap \in Nat \ {0}
        <5>1. previous[t] \in 0 .. Wrap - 1 /\ guest_count[Target(t)] \in 0 .. Wrap - 1
          BY <3>2 DEF HostTypes
        <5> QED
          BY <3>2, <5>1, HostThreadsAssumption
      <4>2. old + Wrap - 1 \in Nat
        BY <4>1
      <4> QED
        BY <4>2, WrapIsByte
    <3>3. Target(t) \notin Threads => \A x : [guest_count EXCEPT ![Target(t)] = x] = guest_count
      BY DEF HostTypes
    <3> QED
      BY <2>1, <3>1, <3>2, <3>3 DEF HostTypes
  <2> QED
    BY <2>1, <2>2, <2>3 DEF HostTypes, hostVars, sigVars
<1>8. CASE SendSignal(t) \/ Interrupted(t) \/ HandlerReturns(t)
  BY <1>8 DEF SendSignal, Interrupted, HandlerReturns, HostTypes, hostVars, guestVars
<1> QED
  BY <1>1, <1>2, <1>3, <1>4, <1>5, <1>6, <1>7, <1>8
  DEF Step, Locking, TimeOut, Handler, Wait, UserCallback, WaitOne, TryLock, WaitMultiple, PollAgain, Signal, SetOrReset,
      Release, QueueUserCallback, Run, SignalEnd, Leave, SuspendCheck, ResumeCheck, SelfResumed, SleepTimeout,
      PollTimeout, Deadline, Lock, OthersUnchanged, hostVars, sigVars

FullInv == IInv /\ LockInv /\ CountInv /\ HostTypes

LEMMA FullInvariance == Spec => []FullInv
<1>1. Init => FullInv
  <2> SUFFICES ASSUME Init PROVE LockInv /\ CountInv /\ HostTypes
    BY InitHolds DEF FullInv
  <2>1. LockInv
    BY Distinct DEF Init, LockInv, LockTypes, LockInvOf, Holds
  <2>2. CountInv
    BY HostThreadsAssumption DEF Init, CountInv
  <2>3. HostTypes
    BY WrapIsByte DEF Init, HostTypes
  <2> QED
    BY <2>1, <2>2, <2>3
<1>2. FullInv /\ IInv' /\ [Next]_vars => FullInv'
  <2> SUFFICES ASSUME FullInv, IInv', [Next]_vars PROVE LockInv' /\ CountInv' /\ HostTypes'
    BY DEF FullInv
  <2>g. IInv /\ LockInv /\ CountInv /\ HostTypes /\ Types
    BY DEF FullInv, IInv
  <2>1. ASSUME NEW t \in Threads, Step(t) \/ Locking(t) \/ TimeOut(t)
        PROVE  LockInv' /\ CountInv' /\ HostTypes'
    <3>1. LockInv'
      BY <2>g, <2>1, OutsideLocks, CreateLocks, ApproachLocks, TryLocks, UnderLock DEF Step, Locking, TimeOut
    <3>2. \/ UNCHANGED <<count, took>>
          \/ \E os : Take(t, os) /\ \A o \in os : Signaled(t, o)
          \/ SetOrReset(t) \/ Release(t) \/ SignalEnd(t)
      <4>1. CASE WaitOne(t)
        BY <4>1 DEF WaitOne
      <4>2. CASE WaitMultiple(t) /\ ~Met(t)
        BY <4>2 DEF WaitMultiple
      <4>3. CASE WaitMultiple(t) /\ Met(t)
        <5>1. PICK os \in Choices(t) : Take(t, os)
          BY <4>3 DEF WaitMultiple
        <5>2. \A o \in os : Signaled(t, o)
          BY <4>3, <5>1 DEF Choices, Firsts, Met
        <5> QED
          BY <5>1, <5>2
      <4> QED
        BY <2>1, <4>1, <4>2, <4>3
        DEF Step, Locking, TimeOut, Wait, UserCallback, TryLock, PollAgain, Signal, QueueUserCallback, Create, Start,
            Run, Created, Finish, Leave, Suspend, SuspendCheck, HostSuspend, SendSignal, Resume, ResumeCount,
            ResumeCheck, ResumeHost, SelfSuspend, SelfResumed, SleepTimeout, PollTimeout, Deadline, Lock, objVars
    <3> QED
      BY <2>g, <2>1, <3>1, <3>2, CountHolds, HostHolds
  <2>2. CASE \E t \in Threads : Handler(t)
    <3>1. UNCHANGED <<callVars, objVars>>
      BY <2>2 DEF Handler, Interrupted, HandlerReturns
    <3>2. LockInv' /\ CountInv'
      BY <2>g, <3>1 DEF LockInv, LockTypes, LockInvOf, Holds, Held, Target, Call, CountInv, callVars, objVars
    <3> QED
      BY <2>g, <2>2, <3>2, HostHolds
  <2>3. CASE UNCHANGED vars
    BY <2>g, <2>3 DEF LockInv, LockTypes, LockInvOf, Holds, Held, Target, Call, CountInv, HostTypes, vars, callVars,
                      objVars, hostVars, sigVars, guestVars
  <2> QED
    BY <2>1, <2>2, <2>3 DEF Next
<1> QED
  BY <1>1, <1>2, Invariance, PTL DEF Spec

\* The variables keep their types, no object counts beyond its limit, and whoever
\* holds an object's mutex is at one of the places where the code does (the
\* critical sections of Wait, WaitMultiple, Set, Reset, Release and a thread's end).
THEOREM TypeCorrect == Spec => []TypeOK
<1>1. FullInv => TypeOK
  <2> SUFFICES ASSUME FullInv PROVE TypeOK
    OBVIOUS
  <2>g. Types /\ LockInv /\ CountInv /\ HostTypes
    BY DEF FullInv, IInv
  <2>1. \A o \in Objects : count[o] \in 0 .. IF Is(o, "semaphore") THEN MaxCount
                                           ELSE IF Is(o, "mutant") THEN took[o] ELSE 1
    BY <2>g, HostThreadsAssumption DEF CountInv, Types
  <2>2. ASSUME NEW t \in Threads
        PROVE  {o \in Objects : lock[o] = t} = CASE pc[t] = "locked" -> {Target(t)} [] pc[t] = "last" -> {t}
                                                 [] pc[t] = "trylock" -> Held(t) [] OTHER -> {}
    <3>1. \A o \in Objects : lock[o] = t <=> o \in Holds(t)
      BY <2>g DEF LockInv, LockInvOf
    <3>2. Holds(t) \subseteq Objects
      <4>1. CASE pc[t] = "locked"
        BY <4>1, TargetTyped DEF FullInv, IInv, CallInv, Holds
      <4>2. CASE pc[t] = "trylock"
        <5>1. Call(t).on \in Seq(Objects) /\ locked[t] \in Nat /\ locked[t] <= Len(Call(t).on)
          BY <2>g, <4>2, TargetTyped DEF FullInv, LockInv, LockTypes, LockInvOf, WellTyped
        <5>2. \A i \in 1 .. locked[t] : Call(t).on[i] \in Objects
          BY <5>1
        <5> QED
          BY <4>2, <5>2 DEF Holds, Held
      <4>3. CASE pc[t] \notin {"locked", "trylock"}
        BY <4>3 DEF Holds, Objects
      <4> QED
        BY <4>1, <4>2, <4>3
    <3> QED
      BY <3>1, <3>2 DEF Holds
  <2>3. \A t \in Threads : late[t] => pc[t] \in {"lock", "locked"}
    BY <2>g DEF LockInv, LockInvOf
  <2> QED
    BY <2>g, <2>1, <2>2, <2>3 DEF TypeOK, Types, LockInv, LockTypes, HostTypes
<1> QED
  BY FullInvariance, <1>1, PTL
=============================================================================
