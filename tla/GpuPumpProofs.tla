---------------------------- MODULE GpuPumpProofs ----------------------------
(***************************************************************************)
(* What TLAPS proves of GpuPump, for any ring, buffers, scripts, CPUs and  *)
(* bounds: interrupts and swap acknowledgements reach the guest as often as*)
(* they were due, wherever the flag of PM4_INTERRUPT flips between the     *)
(* pump's reads; and the machine executes what the guest issued, skips     *)
(* nothing, repeats nothing, forgets nothing that was kicked, and reads    *)
(* nothing that was written over.                                          *)
(***************************************************************************)
EXTENDS GpuPump, FiniteSetTheorems, SequenceTheorems, TLAPS

\* Where threads stand.
Places == {"setup", "idle", "kick", "resume", "walk", "mask", "report", "off", "top", "isr", "acks", "blanket", "poll",
           "sleep", "done", "wait", "lock"}

\* Counters and program counters.
CountTypes ==
  /\ pc \in [Threads -> Places]
  /\ given \in [Cpus -> Nat] /\ raised \in [Cpus -> Nat]
  /\ blanket \in Nat /\ batch \in Nat /\ pending_swap_acks \in Nat /\ swaps \in Nat /\ early \in Nat
  /\ pm4_int \in BOOLEAN /\ handed_over \in BOOLEAN /\ seen_pm4_interrupt \in BOOLEAN

\* The flag only rises, and what the pump concludes from it stays true: once it has
\* handed over there is nothing early left, and it finds the flag up ever after.
FlagInv ==
  /\ pm4_int => seen_pm4_interrupt
  /\ handed_over => seen_pm4_interrupt /\ early = 0
  /\ pc["pump"] = "blanket" /\ pm4_int => early = 0
  /\ pc["pump"] = "acks" /\ handed_over => pm4_int
  /\ pc["pump"] = "blanket" => ~handed_over

IInv == CountTypes /\ FlagInv /\ InterruptsAreCaused

\* The steps that touch none of it, but for the place of the thread.
Same == UNCHANGED <<pending_interrupt_mask, pending_swap_acks, early, raised, swaps, seen_pm4_interrupt,
                    hand, pm4_int, batch, handed_over, given, blanket>>

-----------------------------------------------------------------------------
LEMMA PumpIsAThread == "pump" \in Threads
  BY DEF Threads

\* One CPU is or is not in a set.
LEMMA OneOf ==
  ASSUME NEW S, NEW c
  PROVE  Cardinality({c} \cap S) = IF c \in S THEN 1 ELSE 0
<1>1. CASE c \in S
  <2>1. {c} \cap S = {c}
    BY <1>1
  <2> QED
    BY <1>1, <2>1, FS_Singleton
<1>2. CASE c \notin S
  <2>1. {c} \cap S = {}
    BY <1>2
  <2> QED
    BY <1>2, <2>1, FS_EmptySet
<1> QED
  BY <1>1, <1>2

LEMMA InitHolds == Init => IInv
<1> SUFFICES ASSUME Init PROVE IInv
  OBVIOUS
<1>1. CountTypes
  BY DEF Init, CountTypes, Places
<1>2. FlagInv
  BY PumpIsAThread DEF Init, FlagInv
<1>3. InterruptsAreCaused
  BY OneOf DEF Init, InterruptsAreCaused
<1> QED
  BY <1>1, <1>2, <1>3 DEF IInv

\* A step that only moves threads, and the pump neither to nor from its reads.
LEMMA SameHolds ==
  ASSUME IInv, Same, pc' \in [Threads -> Places],
         pc'["pump"] = pc["pump"] \/ pc'["pump"] \notin {"acks", "blanket"}
  PROVE  IInv'
<1>1. CountTypes'
  BY DEF IInv, CountTypes, Same
<1>2. FlagInv'
  BY DEF IInv, FlagInv, Same
<1>3. InterruptsAreCaused'
  BY DEF IInv, InterruptsAreCaused, Same
<1> QED
  BY <1>1, <1>2, <1>3 DEF IInv

-----------------------------------------------------------------------------
(* The guest and the walkers.                                              *)

LEMMA GotoMoves ==
  ASSUME CountTypes, NEW t \in Threads, NEW label \in Places, Goto(t, label), label \notin {"acks", "blanket"}
  PROVE  /\ pc' \in [Threads -> Places]
         /\ pc'["pump"] = pc["pump"] \/ pc'["pump"] \notin {"acks", "blanket"}
  BY PumpIsAThread DEF CountTypes, Goto, Places

LEMMA GuestHolds == IInv /\ (GuestStep \/ WriteFence \/ Stop \/ Deactivate) => IInv'
<1> SUFFICES ASSUME IInv, GuestStep \/ WriteFence \/ Stop \/ Deactivate PROVE IInv'
  OBVIOUS
<1>g. "guest" \in Threads /\ CountTypes
  BY DEF Threads, IInv
<1>1. CASE SetUp
  <2>1. Same /\ pc' \in [Threads -> Places] /\ pc'["pump"] = "top"
    BY <1>1, <1>g, PumpIsAThread DEF SetUp, Same, raiseVars, pumpVars, CountTypes, Places
  <2> QED
    BY <2>1, SameHolds
<1>2. CASE Issue \/ WriteFence \/ Stop \/ Deactivate
  <2>1. Same /\ pc' = pc
    BY <1>2 DEF Issue, WriteFence, Stop, Deactivate, Same, raiseVars, pumpVars
  <2> QED
    BY <2>1, <1>g, SameHolds DEF CountTypes
<1>3. CASE Kick
  <2>1. Same /\ (pc' = pc \/ Goto("guest", "kick"))
    BY <1>3 DEF Kick, Same, raiseVars, pumpVars
  <2> QED
    BY <2>1, <1>g, SameHolds, GotoMoves DEF CountTypes, Places
<1>4. CASE MmioWrite
  <2>1. Same /\ (Goto("guest", "idle") \/ Goto("guest", "resume"))
    BY <1>4 DEF MmioWrite, TryResume, Same, raiseVars, pumpVars
  <2> QED
    BY <2>1, <1>g, SameHolds, GotoMoves DEF Places
<1> QED
  BY <1>1, <1>2, <1>3, <1>4 DEF GuestStep

\* Taking the mutex, and a walk up to the packet that sets the mask.
LEMMA WalkHolds ==
  ASSUME IInv, NEW t \in Threads, Resume(t) \/ Walk(t) \/ (\E raw : StartWalk(t, raw))
  PROVE  IInv'
<1>g. CountTypes
  BY DEF IInv
<1>1. ASSUME NEW raw, StartWalk(t, raw) PROVE IInv'
  <2>1. Same /\ Goto(t, "walk")
    BY <1>1 DEF StartWalk, Same, raiseVars, pumpVars
  <2> QED
    BY <2>1, <1>g, SameHolds, GotoMoves DEF Places
<1>2. CASE Resume(t)
  BY <1>1, <1>2 DEF Resume
<1>3. CASE CaughtUp(t) \/ Park(t)
  <2>1. Same /\ Goto(t, "report")
    BY <1>3 DEF CaughtUp, Park, Same, raiseVars, pumpVars
  <2> QED
    BY <2>1, <1>g, SameHolds, GotoMoves DEF Places
<1>4. CASE PopFrame(t) \/ Draw(t) \/ WaitPasses(t) \/ Call(t)
  <2>1. Same /\ pc' = pc
    BY <1>4 DEF PopFrame, Draw, WaitPasses, Call, Done, Same, raiseVars, pumpVars
  <2> QED
    BY <2>1, <1>g, SameHolds DEF CountTypes
<1>5. CASE Report(t)
  <2>1. Same /\ \E label \in {"idle", "sleep", "wait"} : Goto(t, label)
    BY <1>5 DEF Report, Same, raiseVars, pumpVars, Threads
  <2> QED
    BY <2>1, <1>g, SameHolds, GotoMoves DEF Places
<1>6. CASE Interrupt(t)
  <2>1. Goto(t, "mask") /\ seen_pm4_interrupt' = TRUE
        /\ UNCHANGED <<pending_interrupt_mask, pending_swap_acks, early, raised, swaps, hand, pm4_int, batch,
                       handed_over, given, blanket>>
    BY <1>6 DEF Interrupt, pumpVars
  <2>2. /\ pc' \in [Threads -> Places]
        /\ pc'["pump"] = pc["pump"] \/ pc'["pump"] \notin {"acks", "blanket"}
    BY <2>1, <1>g, GotoMoves DEF Places
  <2>3. CountTypes'
    BY <2>1, <2>2, <1>g DEF CountTypes
  <2>4. FlagInv'
    BY <2>1, <2>2 DEF IInv, FlagInv
  <2>5. InterruptsAreCaused'
    BY <2>1 DEF IInv, InterruptsAreCaused
  <2> QED
    BY <2>3, <2>4, <2>5 DEF IInv
<1>7. CASE SetMask(t)
  <2>1. /\ Goto(t, "walk")
        /\ pending_interrupt_mask' = pending_interrupt_mask \cup Fetched.arg
        /\ raised' = [c \in Cpus |-> raised[c] + IF c \in Fetched.arg THEN 1 ELSE 0]
        /\ UNCHANGED <<pending_swap_acks, early, swaps, seen_pm4_interrupt, hand, pm4_int, batch, handed_over,
                       given, blanket>>
    BY <1>7 DEF SetMask, Done, pumpVars
  <2>2. /\ pc' \in [Threads -> Places]
        /\ pc'["pump"] = pc["pump"] \/ pc'["pump"] \notin {"acks", "blanket"}
    BY <2>1, <1>g, GotoMoves DEF Places
  <2>3. CountTypes'
    BY <2>1, <2>2, <1>g DEF CountTypes
  <2>4. FlagInv'
    BY <2>1, <2>2 DEF IInv, FlagInv
  <2>5. ASSUME NEW c \in Cpus
        PROVE  given'[c] + Cardinality({c} \cap pending_interrupt_mask') + Cardinality({c} \cap hand') <= raised'[c]
    <3>1. given[c] + Cardinality({c} \cap pending_interrupt_mask) + Cardinality({c} \cap hand) <= raised[c]
      BY DEF IInv, InterruptsAreCaused
    <3>2. given[c] \in Nat /\ raised[c] \in Nat
      BY <1>g DEF CountTypes
    <3> QED
      BY <2>1, <3>1, <3>2, OneOf
  <2>6. InterruptsAreCaused'
    BY <2>1, <2>5 DEF IInv, InterruptsAreCaused
  <2> QED
    BY <2>3, <2>4, <2>6 DEF IInv
<1>8. CASE Swap(t)
  <2>1. /\ pending_swap_acks' = pending_swap_acks + 1 /\ swaps' = swaps + 1
        /\ early' = IF seen_pm4_interrupt THEN early ELSE early + 1
        /\ UNCHANGED <<pc, pending_interrupt_mask, raised, seen_pm4_interrupt, hand, pm4_int, batch, handed_over,
                       given, blanket>>
    BY <1>8 DEF Swap, Done, pumpVars
  <2>3. CountTypes'
    BY <2>1, <1>g DEF CountTypes
  <2>4. FlagInv'
    BY <2>1, <1>g DEF IInv, FlagInv, CountTypes
  <2>5. InterruptsAreCaused'
    BY <2>1, <1>g DEF IInv, InterruptsAreCaused, CountTypes
  <2> QED
    BY <2>3, <2>4, <2>5 DEF IInv
<1> QED
  BY <1>1, <1>2, <1>3, <1>4, <1>5, <1>6, <1>7, <1>8 DEF Walk, Execute

LEMMA WorkerHolds == IInv /\ (KickWalk \/ WorkerWake \/ WorkerWalk) => IInv'
<1> SUFFICES ASSUME IInv, KickWalk \/ WorkerWake \/ WorkerWalk PROVE IInv'
  OBVIOUS
<1>g. CountTypes /\ "guest" \in Threads /\ "worker" \in Threads
  BY DEF IInv, Threads
<1>1. CASE KickWalk
  BY <1>1, <1>g, WalkHolds DEF KickWalk
<1>2. CASE WorkerWalk
  BY <1>2, <1>g, WalkHolds DEF WorkerWalk
<1>3. CASE WorkerWake
  <2>1. Same /\ Goto("worker", "lock")
    BY <1>3 DEF WorkerWake, Same, raiseVars, pumpVars
  <2> QED
    BY <2>1, <1>g, SameHolds, GotoMoves DEF Places
<1> QED
  BY <1>1, <1>2, <1>3

-----------------------------------------------------------------------------
(* The pump.                                                               *)

LEMMA PumpHolds == IInv /\ PumpLoop => IInv'
<1> SUFFICES ASSUME IInv, PumpLoop PROVE IInv'
  OBVIOUS
<1>g. CountTypes
  BY DEF IInv
<1> USE PumpIsAThread
<1>1. CASE PumpTake
  <2>1. /\ hand' = pending_interrupt_mask /\ pending_interrupt_mask' = {}
        /\ Goto("pump", "isr")
        /\ UNCHANGED <<pending_swap_acks, early, raised, swaps, seen_pm4_interrupt, pm4_int, batch, handed_over,
                       given, blanket>>
    BY <1>1 DEF PumpTake, PumpUnchanged
  <2>2. pc' \in [Threads -> Places] /\ pc'["pump"] = "isr"
    BY <2>1, <1>g DEF CountTypes, Goto, Places
  <2>3. CountTypes'
    BY <2>1, <2>2, <1>g DEF CountTypes
  <2>4. FlagInv'
    BY <2>1, <2>2 DEF IInv, FlagInv
  <2>5. ASSUME NEW c \in Cpus
        PROVE  given'[c] + Cardinality({c} \cap pending_interrupt_mask') + Cardinality({c} \cap hand') <= raised'[c]
    <3>1. given[c] + Cardinality({c} \cap pending_interrupt_mask) + Cardinality({c} \cap hand) <= raised[c]
      BY DEF IInv, InterruptsAreCaused
    <3>2. given[c] \in Nat /\ raised[c] \in Nat
      BY <1>g DEF CountTypes
    <3> QED
      BY <2>1, <3>1, <3>2, OneOf
  <2>6. InterruptsAreCaused'
    BY <2>1, <2>5 DEF IInv, InterruptsAreCaused
  <2> QED
    BY <2>3, <2>4, <2>6 DEF IInv
<1>2. CASE PumpDispatch
  <2>1. PICK d \in hand : hand' = hand \ {d} /\ given' = [given EXCEPT ![d] = @ + 1]
    BY <1>2 DEF PumpDispatch
  <2>2. UNCHANGED <<pc, pending_interrupt_mask, pending_swap_acks, early, raised, swaps, seen_pm4_interrupt,
                    pm4_int, batch, handed_over, blanket>>
    BY <1>2 DEF PumpDispatch, raiseVars
  <2>3. CountTypes'
    <3>1. given' = [c \in Cpus |-> IF c = d THEN given[c] + 1 ELSE given[c]]
      BY <2>1, <1>g DEF CountTypes
    <3>2. given' \in [Cpus -> Nat]
      BY <3>1, <1>g DEF CountTypes
    <3> QED
      BY <3>2, <2>2, <1>g DEF CountTypes
  <2>4. FlagInv'
    BY <2>2 DEF IInv, FlagInv
  <2>5. ASSUME NEW c \in Cpus
        PROVE  given'[c] + Cardinality({c} \cap pending_interrupt_mask') + Cardinality({c} \cap hand') <= raised'[c]
    <3>1. given[c] + Cardinality({c} \cap pending_interrupt_mask) + Cardinality({c} \cap hand) <= raised[c]
      BY DEF IInv, InterruptsAreCaused
    <3>2. given[c] \in Nat /\ raised[c] \in Nat
      BY <1>g DEF CountTypes
    <3>3. given'[c] = IF c = d THEN given[c] + 1 ELSE given[c]
      BY <2>1, <1>g DEF CountTypes
    <3>4. c \in hand' <=> c \in hand /\ c # d
      BY <2>1
    <3> QED
      BY <2>1, <2>2, <3>1, <3>2, <3>3, <3>4, OneOf
  <2>6. InterruptsAreCaused'
    BY <2>2, <2>5 DEF IInv, InterruptsAreCaused
  <2> QED
    BY <2>3, <2>4, <2>6 DEF IInv
<1>3. CASE PumpReadSeen
  <2>1. /\ pm4_int' = seen_pm4_interrupt
        /\ Goto("pump", "acks")
        /\ UNCHANGED <<pending_interrupt_mask, pending_swap_acks, early, raised, swaps, seen_pm4_interrupt, hand,
                       batch, handed_over, given, blanket>>
    BY <1>3 DEF PumpReadSeen, raiseVars
  <2>2. pc' \in [Threads -> Places] /\ pc'["pump"] = "acks"
    BY <2>1, <1>g DEF CountTypes, Goto, Places
  <2>3. CountTypes'
    BY <2>1, <2>2, <1>g DEF CountTypes
  <2>4. FlagInv'
    BY <2>1, <2>2 DEF IInv, FlagInv
  <2>5. InterruptsAreCaused'
    BY <2>1 DEF IInv, InterruptsAreCaused
  <2> QED
    BY <2>3, <2>4, <2>5 DEF IInv
<1>4. CASE PumpTakeAcks
  <2>1. /\ pc["pump"] = "acks"
        /\ pending_swap_acks' = 0 /\ early' = 0
        /\ batch' = IF Fallback THEN pending_swap_acks ELSE 0
        /\ Goto("pump", IF Fallback THEN "blanket" ELSE "poll")
        /\ UNCHANGED <<pending_interrupt_mask, raised, swaps, seen_pm4_interrupt, hand, pm4_int, handed_over, given,
                       blanket>>
    BY <1>4 DEF PumpTakeAcks
  <2>2. pc' \in [Threads -> Places] /\ pc'["pump"] = IF Fallback THEN "blanket" ELSE "poll"
    BY <2>1, <1>g DEF CountTypes, Goto, Places
  <2>3. CountTypes'
    BY <2>1, <2>2, <1>g DEF CountTypes
  <2>4. FlagInv'
    BY <2>1, <2>2 DEF IInv, FlagInv, Fallback
  <2>5. InterruptsAreCaused'
    BY <2>1, <1>g DEF IInv, InterruptsAreCaused, CountTypes
  <2> QED
    BY <2>3, <2>4, <2>5 DEF IInv
<1>5. CASE PumpBlanket
  <2>1. /\ pc["pump"] = "blanket"
        /\ blanket' = blanket + batch /\ batch' = 0
        /\ handed_over' = (handed_over \/ pm4_int)
        /\ Goto("pump", "poll")
        /\ UNCHANGED <<pending_interrupt_mask, pending_swap_acks, early, raised, swaps, seen_pm4_interrupt, hand,
                       pm4_int, given>>
    BY <1>5 DEF PumpBlanket, raiseVars
  <2>2. pc' \in [Threads -> Places] /\ pc'["pump"] = "poll"
    BY <2>1, <1>g DEF CountTypes, Goto, Places
  <2>3. CountTypes'
    BY <2>1, <2>2, <1>g DEF CountTypes
  <2>4. FlagInv'
    BY <2>1, <2>2 DEF IInv, FlagInv
  <2>5. InterruptsAreCaused'
    BY <2>1, <1>g DEF IInv, InterruptsAreCaused, CountTypes
  <2> QED
    BY <2>3, <2>4, <2>5 DEF IInv
<1>6. CASE PumpPoll
  <2>1. Same /\ (Goto("pump", "sleep") \/ Goto("pump", "resume"))
    BY <1>6 DEF PumpPoll, TryResume, Same, raiseVars, pumpVars
  <2> QED
    BY <2>1, <1>g, SameHolds, GotoMoves DEF Places
<1>7. CASE PumpWake
  <2>1. Same /\ (Goto("pump", "top") \/ Goto("pump", "done"))
    BY <1>7 DEF PumpWake, Same, raiseVars, pumpVars
  <2> QED
    BY <2>1, <1>g, SameHolds, GotoMoves DEF Places
<1> QED
  BY <1>1, <1>2, <1>3, <1>4, <1>5, <1>6, <1>7 DEF PumpLoop

-----------------------------------------------------------------------------
LEMMA StutterHolds == IInv /\ UNCHANGED vars => IInv'
<1> SUFFICES ASSUME IInv, UNCHANGED vars PROVE IInv'
  OBVIOUS
<1>1. Same /\ pc' = pc
  BY DEF vars, Same, raiseVars, pumpVars
<1> QED
  BY <1>1, SameHolds DEF IInv, CountTypes

LEMMA Invariance == Spec => []IInv
<1>1. Init => IInv
  BY InitHolds
<1>2. IInv /\ [Next]_vars => IInv'
  <2> SUFFICES ASSUME IInv, [Next]_vars PROVE IInv'
    OBVIOUS
  <2>g. "guest" \in Threads /\ "worker" \in Threads
    BY DEF Threads
  <2>1. CASE GuestStep \/ WriteFence \/ Stop \/ Deactivate
    BY <2>1, GuestHolds
  <2>2. CASE GuestWalk
    BY <2>2, <2>g, WorkerHolds, WalkHolds DEF GuestWalk
  <2>3. CASE PumpLoop
    BY <2>3, PumpHolds
  <2>4. CASE PumpWalk
    BY <2>4, PumpIsAThread, WalkHolds DEF PumpWalk
  <2>5. CASE WorkerStep
    BY <2>5, <2>g, WorkerHolds, WalkHolds DEF WorkerStep
  <2>6. CASE UNCHANGED vars
    BY <2>6, StutterHolds
  <2> QED
    BY <2>1, <2>2, <2>3, <2>4, <2>5, <2>6 DEF Next
<1> QED
  BY <1>1, <1>2, PTL DEF Spec

-----------------------------------------------------------------------------
\* The steps of the pump's loop are the only ones that give out what swaps asked
\* for; a walker leaves it alone.
LEMMA OnlyThePump ==
  ASSUME IInv, [Next]_vars, ~PumpTakeAcks, ~PumpBlanket
  PROVE  blanket' = blanket /\ early' \in Nat /\ early' >= early
<1>g. CountTypes
  BY DEF IInv
<1>1. CASE GuestStep \/ WriteFence \/ Stop \/ Deactivate
  BY <1>1, <1>g DEF GuestStep, SetUp, Issue, Kick, MmioWrite, TryResume, WriteFence, Stop, Deactivate, raiseVars,
                    pumpVars, CountTypes
<1>2. ASSUME NEW t \in Threads, Walk(t) PROVE blanket' = blanket /\ early' \in Nat /\ early' >= early
  <2>1. CASE Swap(t)
    BY <2>1, <1>g DEF Swap, Done, pumpVars, CountTypes
  <2>2. CASE CaughtUp(t) \/ PopFrame(t) \/ Report(t) \/ Draw(t) \/ Interrupt(t) \/ SetMask(t) \/ WaitPasses(t)
             \/ Park(t) \/ Call(t)
    BY <2>2, <1>g DEF CaughtUp, PopFrame, Report, Draw, Interrupt, SetMask, WaitPasses, Park, Call, Done,
                      raiseVars, pumpVars, CountTypes
  <2> QED
    BY <1>2, <2>1, <2>2 DEF Walk, Execute
<1>3. CASE KickWalk \/ Resume("guest") \/ Resume("pump") \/ WorkerWake \/ WorkerWalk
  BY <1>3, <1>g DEF KickWalk, Resume, WorkerWake, WorkerWalk, StartWalk, raiseVars, pumpVars, CountTypes
<1>4. CASE PumpTake \/ PumpDispatch \/ PumpReadSeen \/ PumpPoll \/ PumpWake
  BY <1>4, <1>g DEF PumpTake, PumpDispatch, PumpReadSeen, PumpPoll, TryResume, PumpWake, raiseVars, pumpVars,
                    CountTypes
<1>5. CASE UNCHANGED vars
  BY <1>5, <1>g DEF vars, raiseVars, pumpVars, CountTypes
<1>6. "guest" \in Threads /\ "pump" \in Threads /\ "worker" \in Threads
  BY DEF Threads
<1> QED
  BY <1>1, <1>2, <1>3, <1>4, <1>5, <1>6 DEF Next, GuestWalk, PumpWalk, WorkerStep, PumpLoop

\* Interrupts and swap acknowledgements reach the guest no more often than packets and
\* swaps caused them (RunPm4Machine's packets against PumpThreadMain's three reads), and
\* those before the first PM4_INTERRUPT in one last batch.
THEOREM NoneInvented == Spec => NoInterruptIsInvented
<1>1. IInv => InterruptsAreCaused
  BY DEF IInv
<1>2. IInv /\ [Next]_vars => [early' < early => batch' = pending_swap_acks]_vars
  <2> SUFFICES ASSUME IInv, [Next]_vars, early' < early PROVE batch' = pending_swap_acks
    OBVIOUS
  <2>g. CountTypes /\ FlagInv
    BY DEF IInv
  <2>1. CASE PumpTakeAcks
    <3>1. Fallback
      BY <2>1, <2>g DEF PumpTakeAcks, FlagInv, Fallback, CountTypes
    <3> QED
      BY <2>1, <3>1 DEF PumpTakeAcks
  <2>2. CASE PumpBlanket
    BY <2>2, <2>g DEF PumpBlanket, raiseVars, CountTypes
  <2>3. CASE ~PumpTakeAcks /\ ~PumpBlanket
    BY <2>3, <2>g, OnlyThePump DEF CountTypes
  <2> QED
    BY <2>1, <2>2, <2>3
<1>3. IInv /\ [Next]_vars => [blanket' # blanket => ~handed_over /\ (pm4_int => handed_over')]_vars
  <2> SUFFICES ASSUME IInv, [Next]_vars, blanket' # blanket
               PROVE  ~handed_over /\ (pm4_int => handed_over')
    OBVIOUS
  <2>1. CASE PumpTakeAcks
    BY <2>1 DEF PumpTakeAcks
  <2>2. CASE PumpBlanket
    BY <2>2 DEF PumpBlanket, IInv, FlagInv
  <2>3. CASE ~PumpTakeAcks /\ ~PumpBlanket
    BY <2>3, OnlyThePump
  <2> QED
    BY <2>1, <2>2, <2>3
<1> QED
  BY Invariance, <1>1, <1>2, <1>3, PTL DEF Spec, NoInterruptIsInvented, EarlyAcksAreServed, HandOverIsLast

-----------------------------------------------------------------------------
(* Positions in the ring: a position counted from the start of the stream  *)
(* lies at its remainder.                                                  *)

LEMMA Words == N \in Nat /\ N > 0 /\ Word \in Nat /\ Word > 0 /\ Word % N = 0
  BY GpuPumpAssumption

LEMMA Rest == ASSUME NEW a \in Int PROVE a % N \in 0 .. N - 1
  BY Words

LEMMA Division == ASSUME NEW a \in Int, NEW n \in Nat, n > 0 PROVE a \div n \in Int /\ a = (n * (a \div n)) + (a % n)
  BY Z3

\* A multiple of n within n of zero is zero.
LEMMA Multiple ==
  ASSUME NEW n \in Int, NEW q \in Int, NEW x \in Int, n > 0, x = n * q, -n < x, x < n
  PROVE  q = 0 /\ x = 0
<1>1. CASE q >= 1
  <2>1. n * q >= n
    BY <1>1
  <2> QED
    BY <2>1
<1>2. CASE q <= -1
  <2>1. n * q <= -n
    BY <1>2
  <2> QED
    BY <2>1
<1>3. CASE q = 0
  BY <1>3
<1> QED
  BY <1>1, <1>2, <1>3

LEMMA SameRest ==
  ASSUME NEW a \in Int, NEW b \in Int, NEW q \in Int, a = b + (N * q)
  PROVE  a % N = b % N
<1> DEFINE p == a \div N
           k == b \div N
<1>1. a = (N * p) + (a % N) /\ b = (N * k) + (b % N) /\ p \in Int /\ k \in Int
  BY Division, Words
<1>2. a % N \in 0 .. N - 1 /\ b % N \in 0 .. N - 1 /\ N \in Int /\ N > 0
  BY Words, Rest
<1> HIDE DEF p, k
<1> DEFINE x == (a % N) - (b % N)
           y == (q + k) - p
<1>3. x = N * y /\ y \in Int /\ x \in Int /\ -N < x /\ x < N
  BY <1>1, <1>2
<1> HIDE DEF x, y
<1>4. x = 0
  BY <1>2, <1>3, Multiple
<1> QED
  BY <1>2, <1>4 DEF x

LEMMA RestApart ==
  ASSUME NEW a \in Int, NEW b \in Int, a % N = b % N
  PROVE  \E q \in Int : a = b + (N * q)
<1> DEFINE p == a \div N
           k == b \div N
<1>1. a = (N * p) + (a % N) /\ b = (N * k) + (b % N) /\ p \in Int /\ k \in Int
  BY Division, Words
<1>2. a % N \in Int /\ N \in Int
  BY Words, Rest
<1> HIDE DEF p, k
<1>3. a = b + (N * (p - k)) /\ p - k \in Int
  BY <1>1, <1>2
<1> QED
  BY <1>3

\* Two positions less than a ring apart lie at different words.
LEMMA OnePlace ==
  ASSUME NEW a \in Int, NEW b \in Int, a % N = b % N, -N < a - b, a - b < N
  PROVE  a = b
<1>1. PICK q \in Int : a = b + (N * q)
  BY RestApart
<1>2. a - b = N * q
  BY <1>1, Words
<1> QED
  BY <1>2, Multiple, Words

LEMMA NextPlace ==
  ASSUME NEW a \in Int
  PROVE  ((a % N) + 1) % N = (a + 1) % N
<1>1. a = (N * (a \div N)) + (a % N) /\ a \div N \in Int /\ a % N \in Int
  BY Division, Words, Rest
<1>2. a + 1 = ((a % N) + 1) + (N * (a \div N))
  BY <1>1, Words
<1> QED
  BY <1>1, <1>2, SameRest

LEMMA Distance ==
  ASSUME NEW a \in Int, NEW b \in Int, NEW x \in Int, a % N = b % N, 0 <= x - b, x - b < N
  PROVE  (x - a) % N = x - b
<1>1. PICK q \in Int : a = b + (N * q)
  BY RestApart
<1>2. x - a = (x - b) + (N * (-q)) /\ -q \in Int
  BY <1>1, Words
<1>3. (x - a) % N = (x - b) % N
  BY <1>2, SameRest
<1>4. (x - b) % N = x - b
  BY Words
<1> QED
  BY <1>3, <1>4

\* What WriteRingRptrLocked computes lies where the oldest command does that is not
\* consumed.
LEMMA Reported ==
  ASSUME NEW a \in Int, NEW p \in Int
  PROVE  ((a - ((a - (p % N)) % N)) % Word) % N = p % N
<1> DEFINE s == p % N
           y == a - ((a - s) % N)
<1>1. s \in Int /\ s % N = s
  BY Rest, Words
<1>2. y \in Int /\ y % N = s % N
  <2>1. (a - s) % N \in Int /\ (a - s) = (N * ((a - s) \div N)) + ((a - s) % N) /\ (a - s) \div N \in Int
    BY <1>1, Rest, Division, Words
  <2>2. y = s + (N * ((a - s) \div N))
    BY <1>1, <2>1, Words
  <2> QED
    BY <1>1, <2>1, <2>2, SameRest
<1> HIDE DEF y
<1>3. y = (Word * (y \div Word)) + (y % Word) /\ y \div Word \in Int /\ y % Word \in Int
  BY <1>2, Division, Words
<1>4. Word = N * (Word \div N) /\ Word \div N \in Int
  BY Division, Words
<1> DEFINE u == y \div Word
           v == Word \div N
           z == y % Word
<1>5. z \in Int /\ u \in Int /\ v \in Int /\ Word = N * v /\ y = (Word * u) + z
  BY <1>3, <1>4
<1> HIDE DEF u, v, z
<1>6. y = z + (N * (v * u)) /\ v * u \in Int
  BY <1>5, Words
<1>7. y % N = z % N
  BY <1>2, <1>5, <1>6, SameRest
<1> QED
  BY <1>1, <1>2, <1>7 DEF y, z

-----------------------------------------------------------------------------
(* The numbers in a buffer.                                                *)

\* Operations that call nothing.
Ops == {"draw", "swap", "int", "wait"}

\* Interrupts are for CPUs that there are.
Aimed(x) == x.op = "int" => x.arg \subseteq Cpus

LEMMA Buffer ==
  ASSUME NEW p, WellFormed(p)
  PROVE  /\ Len(p.outer) \in Nat /\ Len(p.inner) \in Nat
         /\ DOMAIN p.outer = 1 .. Len(p.outer) /\ DOMAIN p.inner = 1 .. Len(p.inner)
         /\ CallAt(p) \in 1 .. Len(p.outer) + 1
         /\ CallAt(p) = Len(p.outer) + 1 => Len(p.inner) = 0
         /\ \A i \in 1 .. Len(p.outer) : IF i = CallAt(p) THEN p.outer[i].op = "call" ELSE p.outer[i].op \in Ops
         /\ \A i \in 1 .. Len(p.inner) : p.inner[i].op \in Ops
         /\ \A i \in 1 .. Len(p.outer) : Aimed(p.outer[i])
         /\ \A i \in 1 .. Len(p.inner) : Aimed(p.inner[i])
<1>1. /\ Len(p.outer) \in Nat /\ Len(p.inner) \in Nat
      /\ DOMAIN p.outer = 1 .. Len(p.outer) /\ DOMAIN p.inner = 1 .. Len(p.inner)
      /\ \A i \in 1 .. Len(p.outer) : p.outer[i] \in Commands \cup [op : {"call"}, arg : {0}]
      /\ \A i \in 1 .. Len(p.inner) : p.inner[i] \in Commands
      /\ p.inner = <<>> => Len(p.inner) = 0
  BY DEF WellFormed
<1>2. \A x \in Commands : x.op \in Ops
  BY DEF Commands, Ops
<1>3. \A x \in Commands \cup [op : {"call"}, arg : {0}] : x.op \in Ops \/ x.op = "call"
  BY <1>2
<1>a. /\ \A i \in 1 .. Len(p.outer) : Aimed(p.outer[i])
      /\ \A i \in 1 .. Len(p.inner) : Aimed(p.inner[i])
  <2>1. \A x \in Commands \cup [op : {"call"}, arg : {0}] : Aimed(x)
    BY DEF Commands, Aimed
  <2> QED
    BY <1>1, <2>1
<1>4. CASE \E i \in DOMAIN p.outer : p.outer[i].op = "call"
  <2>1. CallAt(p) \in DOMAIN p.outer /\ p.outer[CallAt(p)].op = "call"
    BY <1>4 DEF CallAt
  <2>2. \A i \in DOMAIN p.outer : p.outer[i].op = "call" => i = CallAt(p)
    BY <2>1 DEF WellFormed
  <2>3. CallAt(p) \in 1 .. Len(p.outer) + 1 /\ CallAt(p) # Len(p.outer) + 1
    BY <1>1, <2>1
  <2> QED
    BY <1>1, <1>a, <1>2, <1>3, <2>1, <2>2, <2>3
<1>5. CASE ~\E i \in DOMAIN p.outer : p.outer[i].op = "call"
  <2>1. CallAt(p) = Len(p.outer) + 1
    BY <1>5 DEF CallAt
  <2>2. p.inner = <<>>
    BY <1>5 DEF WellFormed
  <2>3. \A i \in 1 .. Len(p.outer) : i # CallAt(p)
    BY <1>1, <2>1
  <2>4. CallAt(p) \in 1 .. Len(p.outer) + 1
    BY <1>1, <2>1
  <2> QED
    BY <1>1, <1>a, <1>2, <1>3, <1>5, <2>1, <2>2, <2>3, <2>4
<1> QED
  BY <1>4, <1>5

\* The numbers the called buffer takes lie between those of the calling one.
Skipped(p, i) == IF i > CallAt(p) THEN Len(p.inner) ELSE 0

LEMMA NumberedIs ==
  ASSUME NEW p, WellFormed(p), NEW f \in Nat
  PROVE  /\ Len(Numbered(p, f).outer) = Len(p.outer) /\ Len(Numbered(p, f).inner) = Len(p.inner)
         /\ \A i \in 1 .. Len(p.outer) :
              /\ Numbered(p, f).outer[i].op = p.outer[i].op
              /\ Numbered(p, f).outer[i].arg = p.outer[i].arg
              /\ Numbered(p, f).outer[i].no = f + i - 1 + Skipped(p, i)
         /\ \A i \in 1 .. Len(p.inner) :
              /\ Numbered(p, f).inner[i].op = p.inner[i].op
              /\ Numbered(p, f).inner[i].arg = p.inner[i].arg
              /\ Numbered(p, f).inner[i].no = f + CallAt(p) - 1 + i
<1> DEFINE at == CallAt(p)
           Cmd(c, no) == [op |-> c.op, arg |-> c.arg, no |-> no]
           outer == [i \in 1 .. Len(p.outer) |-> Cmd(p.outer[i], f + i - 1 + IF i > at THEN Len(p.inner) ELSE 0)]
           inner == [i \in 1 .. Len(p.inner) |-> Cmd(p.inner[i], f + at - 1 + i)]
<1>1. Numbered(p, f) = [outer |-> outer, inner |-> inner]
  BY DEF Numbered
<1>2. Numbered(p, f).outer = outer /\ Numbered(p, f).inner = inner
  BY <1>1
<1>3. Len(outer) = Len(p.outer) /\ Len(inner) = Len(p.inner)
  BY Buffer
<1> HIDE DEF at
<1>4. \A i \in 1 .. Len(p.outer) :
        /\ outer[i].op = p.outer[i].op /\ outer[i].arg = p.outer[i].arg
        /\ outer[i].no = f + i - 1 + IF i > at THEN Len(p.inner) ELSE 0
  OBVIOUS
<1>5. \A i \in 1 .. Len(p.inner) :
        inner[i].op = p.inner[i].op /\ inner[i].arg = p.inner[i].arg /\ inner[i].no = f + at - 1 + i
  OBVIOUS
<1> QED
  BY <1>2, <1>3, <1>4, <1>5 DEF at, Skipped

-----------------------------------------------------------------------------
\* The number of the word at position i, counted from the start of the stream.
NoAt(i) == IF i = wpos THEN issued + 1 ELSE ring[i % N].no

\* Numbers a command takes, those of the buffers it calls included.
Size(c) == IF c.op = "ib" THEN 1 + Len(c.arg.outer) + Len(c.arg.inner) ELSE 1

\* One word of the ring is what the guest issued, and so is the buffer it calls.
WordInv(i) ==
  LET e == ring[i % N]
      c == script[i + 1]
  IN /\ e.op = c.op
     /\ NoAt(i + 1) = e.no + Size(c)
     /\ c.op = "ib" => e.arg \in Bufs /\ owner[e.arg] = i /\ ibmem[e.arg] = Numbered(c.arg, e.no + 1)
     /\ c.op # "ib" => e.arg = c.arg

\* All words from r on, where the read pointer the guest sees stands.
RingInv(r) ==
  /\ r \in Nat /\ r <= wpos /\ wpos - r < N
  /\ rptr % N = r % N
  /\ \A i \in r .. wpos - 1 : WordInv(i)
  /\ \A i \in r .. wpos : NoAt(i) \in 0 .. issued + 1
  /\ \A i, j \in r .. wpos : i <= j => NoAt(i) <= NoAt(j)

\* The frames of the stack when the machine has taken c words from the ring, the
\* last of them a call of a buffer.
Base(c)     == [buf |-> None, pos |-> c % N, code |-> <<>>]
Prog(c)     == script[c].arg
From(c)     == ring[(c - 1) % N].no + 1
Outer(c, j) == [buf |-> ring[(c - 1) % N].arg, pos |-> j, code |-> Numbered(Prog(c), From(c)).outer]
Inner(c, m) == [buf |-> ring[(c - 1) % N].arg, pos |-> m, code |-> Numbered(Prog(c), From(c)).inner]

\* The call is still in the ring, and where it lies is known.
Called(r, c) == r < c /\ script[c].op = "ib" /\ ring_ib_call_pos = (c - 1) % N

\* The innermost frame is at the command after the last that was executed.
AtRing(c) == pm4_stack = <<Base(c)>> /\ parsed + 1 = NoAt(c)
InOuter(r, c, j) ==
  /\ Called(r, c) /\ j \in 0 .. Len(Prog(c).outer)
  /\ pm4_stack = <<Base(c), Outer(c, j)>>
  /\ parsed + 1 = From(c) + j + IF j >= CallAt(Prog(c)) THEN Len(Prog(c).inner) ELSE 0
InInner(r, c, m) ==
  /\ Called(r, c) /\ m \in 0 .. Len(Prog(c).inner) /\ CallAt(Prog(c)) <= Len(Prog(c).outer)
  /\ pm4_stack = <<Base(c), Outer(c, CallAt(Prog(c))), Inner(c, m)>>
  /\ parsed + 1 = From(c) + CallAt(Prog(c)) + m

FrameInv(r, c) == \/ AtRing(c)
                  \/ \E j \in Nat : InOuter(r, c, j)
                  \/ \E m \in Nat : InInner(r, c, m)

\* Write pointers: the one of the last walk, and the one left for the worker.
PointerInv(c, w, k) ==
  /\ c \in Nat /\ w \in Nat /\ k \in Nat /\ c <= w /\ w <= wpos
  /\ ring_wptr_words = w % N /\ last_kick_wptr_raw = w % N
  /\ async => pending_wptr_raw = k % N /\ w <= k /\ k <= wpos

\* A machine that is neither walking nor parked has taken all.
RestInv ==
  \/ pm4_parked
  \/ Len(pm4_stack) = 1 /\ Top.pos = ring_wptr_words
  \/ \E t \in Threads : pc[t] \in {"walk", "mask"}

\* Where threads stand, and who has pm4_mutex.
PlaceInv ==
  /\ pc \in [Threads -> Places] /\ mutex \in Threads \cup {None}
  /\ \A t \in Threads : pc[t] \in {"walk", "mask", "report"} <=> mutex = t
  /\ pc["guest"] \in {"setup", "idle", "kick", "resume", "walk", "mask", "report"}
  /\ pc["worker"] # "wait" => async
  /\ pc["guest"] = "kick" => ~async
  /\ pc["guest"] = "setup" => pc["worker"] = "wait" /\ ~capture_pending /\ pc["pump"] = "off"
  /\ \A t \in Threads : pc[t] = "mask" => Top.pos # FrameEnd(Top) /\ Fetched.op = "int"

\* Before SetRingBuffer.
Blank == /\ pm4_stack = <<>> /\ wpos = 0 /\ issued = 0 /\ parsed = 0 /\ rptr = 0 /\ last_kick_wptr_raw = 0

\* The stream and the memory it lies in.
Counts == /\ wpos \in Nat /\ wpos <= Len(script) /\ issued \in Nat /\ parsed \in Nat
          /\ script \in Scripts /\ async \in BOOLEAN /\ rptr \in Int
          /\ DOMAIN ring = 0 .. N - 1 /\ DOMAIN ibmem = Bufs /\ DOMAIN owner = Bufs

\* The read pointer at r, the machine at c, its write pointer at w, the worker's at k.
Stands(r, c, w, k) == RingInv(r) /\ r <= c /\ FrameInv(r, c) /\ PointerInv(c, w, k)

\* The inductive invariant.
WalkInv ==
  /\ Counts /\ PlaceInv
  /\ IF pc["guest"] = "setup" THEN Blank
     ELSE RestInv /\ \E r, c, w, k \in Nat : Stands(r, c, w, k)

-----------------------------------------------------------------------------
(* The innermost frame.                                                    *)

LEMMA Tuples ==
  ASSUME NEW a, NEW b, NEW c, NEW x
  PROVE  /\ Len(<<a>>) = 1 /\ Len(<<a, b>>) = 2 /\ Len(<<a, b, c>>) = 3
         /\ [<<a>> EXCEPT ![1] = x] = <<x>>
         /\ [<<a, b>> EXCEPT ![2] = x] = <<a, x>>
         /\ [<<a, b, c>> EXCEPT ![3] = x] = <<a, b, x>>
         /\ Append(<<a>>, x) = <<a, x>> /\ Append(<<a, b>>, x) = <<a, b, x>>
<1>1. Len(<<a>>) = 1 /\ Len(<<a, b>>) = 2 /\ Len(<<a, b, c>>) = 3
  OBVIOUS
<1>2. [<<a>> EXCEPT ![1] = x] = <<x>>
  OBVIOUS
<1>3. [<<a, b>> EXCEPT ![2] = x] = <<a, x>>
  OBVIOUS
<1>4. [<<a, b, c>> EXCEPT ![3] = x] = <<a, b, x>>
  OBVIOUS
<1> DEFINE S == {a, b, c, x}
<1>5. <<a>> \in Seq(S) /\ <<a, b>> \in Seq(S) /\ <<a, b, c>> \in Seq(S) /\ <<a, x>> \in Seq(S) /\ <<a, b, x>> \in Seq(S)
  OBVIOUS
<1> HIDE DEF S
<1>6. x \in S
  BY DEF S
<1>7. Append(<<a>>, x) = <<a, x>>
  <2>1. /\ Append(<<a>>, x) \in Seq(S) /\ Len(Append(<<a>>, x)) = 2
        /\ Append(<<a>>, x)[1] = a /\ Append(<<a>>, x)[2] = x
    BY <1>1, <1>5, <1>6, AppendProperties
  <2>2. \A i \in 1 .. 2 : Append(<<a>>, x)[i] = <<a, x>>[i]
    BY <2>1
  <2> QED
    BY <1>5, <2>1, <2>2, SeqEqual
<1>8. Append(<<a, b>>, x) = <<a, b, x>>
  <2>1. /\ Append(<<a, b>>, x) \in Seq(S) /\ Len(Append(<<a, b>>, x)) = 3
        /\ Append(<<a, b>>, x)[1] = a /\ Append(<<a, b>>, x)[2] = b /\ Append(<<a, b>>, x)[3] = x
    BY <1>1, <1>5, <1>6, AppendProperties
  <2>2. \A i \in 1 .. 3 : Append(<<a, b>>, x)[i] = <<a, b, x>>[i]
    BY <2>1
  <2> QED
    BY <1>5, <2>1, <2>2, SeqEqual
<1> QED
  BY <1>1, <1>2, <1>3, <1>4, <1>7, <1>8

LEMMA Shorter ==
  ASSUME NEW a, NEW b, NEW c
  PROVE  SubSeq(<<a, b>>, 1, 1) = <<a>> /\ SubSeq(<<a, b, c>>, 1, 2) = <<a, b>>
<1> DEFINE S == {a, b, c}
<1>1. <<a>> \in Seq(S) /\ <<a, b>> \in Seq(S) /\ <<a, b, c>> \in Seq(S)
      /\ Len(<<a>>) = 1 /\ Len(<<a, b>>) = 2
  OBVIOUS
<1> HIDE DEF S
<1>2. SubSeq(<<a, b>>, 1, 1) = <<a>>
  <2>1. \A i \in 1 .. 1 : <<a, b>>[i] \in S
    BY <1>1
  <2>2. SubSeq(<<a, b>>, 1, 1) \in Seq(S) /\ Len(SubSeq(<<a, b>>, 1, 1)) = 1 /\ SubSeq(<<a, b>>, 1, 1)[1] = a
    BY <2>1, SubSeqProperties
  <2>3. \A i \in 1 .. 1 : SubSeq(<<a, b>>, 1, 1)[i] = <<a>>[i]
    BY <2>2
  <2> QED
    BY <1>1, <2>2, <2>3, SeqEqual
<1>3. SubSeq(<<a, b, c>>, 1, 2) = <<a, b>>
  <2>1. \A i \in 1 .. 2 : <<a, b, c>>[i] \in S
    BY <1>1
  <2>2. /\ SubSeq(<<a, b, c>>, 1, 2) \in Seq(S) /\ Len(SubSeq(<<a, b, c>>, 1, 2)) = 2
        /\ SubSeq(<<a, b, c>>, 1, 2)[1] = a /\ SubSeq(<<a, b, c>>, 1, 2)[2] = b
    BY <2>1, SubSeqProperties
  <2>3. \A i \in 1 .. 2 : SubSeq(<<a, b, c>>, 1, 2)[i] = <<a, b>>[i]
    BY <2>2
  <2> QED
    BY <1>1, <2>2, <2>3, SeqEqual
<1> QED
  BY <1>2, <1>3

LEMMA Long == Counts => Len(script) \in Nat
  BY GpuPumpAssumption DEF Counts

\* What the guest issues.
LEMMA Issued ==
  ASSUME Counts, NEW c \in Nat, c < Len(script)
  PROVE  IF script[c + 1].op = "ib" THEN WellFormed(script[c + 1].arg)
         ELSE script[c + 1].op \in Ops /\ Aimed(script[c + 1])
<1>1. script \in Scripts /\ c + 1 \in 1 .. Len(script) /\ DOMAIN script = 1 .. Len(script)
  BY GpuPumpAssumption DEF Counts
<1>2. IF script[c + 1].op = "ib" THEN WellFormed(script[c + 1].arg) ELSE script[c + 1] \in Commands
  BY <1>1, GpuPumpAssumption
<1>3. \A x \in Commands : x.op \in Ops /\ Aimed(x)
  BY DEF Commands, Ops, Aimed
<1> QED
  BY <1>2, <1>3

LEMMA RingTop ==
  ASSUME Counts, NEW r \in Nat, NEW c \in Nat, NEW w \in Nat, NEW k \in Nat,
         RingInv(r), r <= c, PointerInv(c, w, k), AtRing(c)
  PROVE  /\ Len(pm4_stack) = 1 /\ Top = Base(c) /\ IsRing(Top)
         /\ Top.pos # FrameEnd(Top) <=> c < w
         /\ c < w => /\ Fetched = ring[c % N] /\ Fetched.no = parsed + 1 /\ Fetched.op = script[c + 1].op
                     /\ c < wpos /\ WordInv(c)
         /\ Past = <<Base(c + 1)>>
<1>1. pm4_stack = <<Base(c)>> /\ Len(pm4_stack) = 1
  BY Tuples DEF AtRing
<1>2. Top = Base(c) /\ IsRing(Top) /\ Top.pos = c % N
  BY <1>1 DEF Top, IsRing, Base
<1>3. FrameEnd(Top) = w % N
  BY <1>2 DEF FrameEnd, PointerInv
<1>4. c <= w /\ w <= wpos /\ wpos - r < N /\ wpos \in Nat
  BY DEF PointerInv, RingInv, Counts
<1>5. c % N = w % N => c = w
  <2>1. -N < c - w /\ c - w < N
    BY <1>4, Words
  <2> QED
    BY <2>1, OnePlace
<1>6. Top.pos # FrameEnd(Top) <=> c < w
  BY <1>2, <1>3, <1>4, <1>5
<1>7. ASSUME c < w
      PROVE  /\ Fetched = ring[c % N] /\ Fetched.no = parsed + 1 /\ Fetched.op = script[c + 1].op
             /\ c < wpos /\ WordInv(c)
  <2>1. c < wpos /\ WordInv(c)
    BY <1>4, <1>7 DEF RingInv
  <2>2. Fetched = ring[c % N]
    BY <1>2 DEF Fetched
  <2>3. NoAt(c) = ring[c % N].no
    BY <2>1 DEF NoAt
  <2> QED
    BY <2>1, <2>2, <2>3 DEF AtRing, WordInv
<1>8. Past = <<Base(c + 1)>>
  <2>1. Passed(Top) = [Base(c) EXCEPT !.pos = (@ + 1) % N]
    BY <1>2 DEF Passed
  <2>2. Passed(Top) = Base(c + 1)
    BY <2>1, NextPlace DEF Base
  <2> QED
    BY <1>1, <2>2, Tuples DEF Past
<1> QED
  BY <1>1, <1>2, <1>6, <1>7, <1>8

\* The buffer the machine is in.
LEMMA InBuffer ==
  ASSUME Counts, NEW r \in Nat, NEW c \in Nat, RingInv(r), c <= wpos, Called(r, c)
  PROVE  /\ WellFormed(Prog(c)) /\ From(c) \in Nat
         /\ ring[(c - 1) % N].arg \in Bufs /\ ring[(c - 1) % N].arg # None
         /\ ibmem[ring[(c - 1) % N].arg] = Numbered(Prog(c), From(c))
         /\ NoAt(c) = From(c) + Len(Prog(c).outer) + Len(Prog(c).inner)
<1> DEFINE i == c - 1
<1>1. i \in r .. wpos - 1 /\ i \in Nat /\ i + 1 = c /\ i < wpos /\ i \in r .. wpos /\ i # wpos
  BY DEF Called, Counts
<1>2. WordInv(i) /\ NoAt(i) \in Nat /\ NoAt(i) = ring[i % N].no
  BY <1>1 DEF RingInv, NoAt
<1> HIDE DEF i
<1>3. script[c].op = "ib"
  BY DEF Called
<1>4. WellFormed(script[c].arg)
  <2>1. i < Len(script)
    BY <1>1, Long DEF Counts
  <2> QED
    BY <1>1, <1>3, <2>1, Issued
<1>5. Len(script[c].arg.outer) \in Nat /\ Len(script[c].arg.inner) \in Nat
  BY <1>4, Buffer
<1>6. /\ NoAt(c) = ring[i % N].no + (1 + Len(script[c].arg.outer) + Len(script[c].arg.inner))
      /\ ring[i % N].arg \in Bufs /\ ibmem[ring[i % N].arg] = Numbered(script[c].arg, ring[i % N].no + 1)
  BY <1>1, <1>2, <1>3 DEF WordInv, Size
<1>7. ring[i % N].no \in Nat /\ From(c) = ring[i % N].no + 1
  BY <1>2 DEF i, From
<1>8. NoAt(c) = From(c) + Len(Prog(c).outer) + Len(Prog(c).inner)
  <2> DEFINE x == Len(script[c].arg.outer)
             y == Len(script[c].arg.inner)
             a == ring[i % N].no
  <2>1. NoAt(c) = a + (1 + x + y) /\ From(c) = a + 1 /\ x \in Nat /\ y \in Nat /\ a \in Nat
    BY <1>5, <1>6, <1>7
  <2> HIDE DEF x, y, a
  <2>2. NoAt(c) = From(c) + x + y
    BY <2>1
  <2> QED
    BY <2>2 DEF x, y, Prog
<1>9. ring[i % N].arg # None
  BY <1>6, GpuPumpAssumption
<1>10. From(c) \in Nat /\ ibmem[ring[i % N].arg] = Numbered(script[c].arg, From(c))
  BY <1>6, <1>7
<1> QED
  BY <1>4, <1>6, <1>8, <1>9, <1>10 DEF i, Prog

LEMMA OuterTop ==
  ASSUME Counts, NEW r \in Nat, NEW c \in Nat, NEW j \in Nat, RingInv(r), c <= wpos, InOuter(r, c, j)
  PROVE  /\ Len(pm4_stack) = 2 /\ Top = Outer(c, j) /\ ~IsRing(Top)
         /\ Top.pos # FrameEnd(Top) <=> j < Len(Prog(c).outer)
         /\ j < Len(Prog(c).outer) =>
              /\ Fetched.no = parsed + 1 /\ Aimed(Fetched)
              /\ IF j + 1 = CallAt(Prog(c)) THEN Fetched.op = "call" ELSE Fetched.op \in Ops
         /\ Past = <<Base(c), Outer(c, j + 1)>>
<1> DEFINE p == Prog(c)
           f == From(c)
<1>1. pm4_stack = <<Base(c), Outer(c, j)>> /\ Len(pm4_stack) = 2 /\ j \in 0 .. Len(p.outer)
      /\ parsed + 1 = f + j + IF j >= CallAt(p) THEN Len(p.inner) ELSE 0
  BY Tuples DEF InOuter
<1>2. WellFormed(p) /\ f \in Nat /\ ring[(c - 1) % N].arg # None
  BY InBuffer DEF InOuter
<1>3. Top = Outer(c, j) /\ ~IsRing(Top) /\ Top.pos = j /\ Top.code = Numbered(p, f).outer
  BY <1>1, <1>2 DEF Top, IsRing, Outer
<1>4. /\ Len(p.outer) \in Nat /\ Len(p.inner) \in Nat /\ CallAt(p) \in 1 .. Len(p.outer) + 1
      /\ \A i \in 1 .. Len(p.outer) : IF i = CallAt(p) THEN p.outer[i].op = "call" ELSE p.outer[i].op \in Ops
      /\ \A i \in 1 .. Len(p.outer) : Aimed(p.outer[i])
  BY <1>2, Buffer
<1>5. /\ Len(Numbered(p, f).outer) = Len(p.outer)
      /\ \A i \in 1 .. Len(p.outer) :
           /\ Numbered(p, f).outer[i].op = p.outer[i].op
           /\ Numbered(p, f).outer[i].arg = p.outer[i].arg
           /\ Numbered(p, f).outer[i].no = f + i - 1 + Skipped(p, i)
  <2> HIDE DEF p, f
  <2> QED
    BY <1>2, NumberedIs
<1>6. Top.pos # FrameEnd(Top) <=> j < Len(p.outer)
  BY <1>1, <1>3, <1>4, <1>5 DEF FrameEnd
<1>7. ASSUME j < Len(p.outer)
      PROVE  /\ Fetched.no = parsed + 1 /\ Aimed(Fetched)
             /\ IF j + 1 = CallAt(p) THEN Fetched.op = "call" ELSE Fetched.op \in Ops
  <2>1. Fetched = Numbered(p, f).outer[j + 1] /\ j + 1 \in 1 .. Len(p.outer)
    BY <1>3, <1>4, <1>7 DEF Fetched
  <2> HIDE DEF p, f
  <2>2. j + 1 > CallAt(p) <=> j >= CallAt(p)
    BY <1>4
  <2>3. Fetched.no = f + (j + 1) - 1 + IF j >= CallAt(p) THEN Len(p.inner) ELSE 0
    BY <1>5, <2>1, <2>2 DEF Skipped
  <2>4. Fetched.no = parsed + 1
    <3> DEFINE x == IF j >= CallAt(p) THEN Len(p.inner) ELSE 0
    <3>1. x \in Nat /\ f \in Nat /\ Fetched.no = f + (j + 1) - 1 + x /\ parsed + 1 = f + j + x
      BY <1>1, <1>2, <1>4, <2>3
    <3> HIDE DEF x
    <3> QED
      BY <3>1
  <2> QED
    BY <1>4, <1>5, <2>1, <2>4 DEF Aimed
<1>8. Past = <<Base(c), Outer(c, j + 1)>>
  <2>1. Passed(Top) = [Outer(c, j) EXCEPT !.pos = @ + 1]
    BY <1>3 DEF Passed
  <2>2. Passed(Top) = Outer(c, j + 1)
    BY <2>1 DEF Outer
  <2> QED
    BY <1>1, <2>2, Tuples DEF Past
<1> QED
  BY <1>1, <1>3, <1>6, <1>7, <1>8

LEMMA InnerTop ==
  ASSUME Counts, NEW r \in Nat, NEW c \in Nat, NEW m \in Nat, RingInv(r), c <= wpos, InInner(r, c, m)
  PROVE  /\ Len(pm4_stack) = 3 /\ Top = Inner(c, m) /\ ~IsRing(Top)
         /\ Top.pos # FrameEnd(Top) <=> m < Len(Prog(c).inner)
         /\ m < Len(Prog(c).inner) => Fetched.no = parsed + 1 /\ Fetched.op \in Ops /\ Aimed(Fetched)
         /\ Past = <<Base(c), Outer(c, CallAt(Prog(c))), Inner(c, m + 1)>>
<1> DEFINE p == Prog(c)
           f == From(c)
<1>1. pm4_stack = <<Base(c), Outer(c, CallAt(p)), Inner(c, m)>> /\ Len(pm4_stack) = 3 /\ m \in 0 .. Len(p.inner)
      /\ parsed + 1 = f + CallAt(p) + m
  BY Tuples DEF InInner
<1>2. WellFormed(p) /\ f \in Nat /\ ring[(c - 1) % N].arg # None
  BY InBuffer DEF InInner
<1>3. Top = Inner(c, m) /\ ~IsRing(Top) /\ Top.pos = m /\ Top.code = Numbered(p, f).inner
  BY <1>1, <1>2 DEF Top, IsRing, Inner
<1>4. /\ Len(p.inner) \in Nat /\ CallAt(p) \in Nat
      /\ \A i \in 1 .. Len(p.inner) : p.inner[i].op \in Ops /\ Aimed(p.inner[i])
  BY <1>2, Buffer
<1>5. /\ Len(Numbered(p, f).inner) = Len(p.inner)
      /\ \A i \in 1 .. Len(p.inner) :
           /\ Numbered(p, f).inner[i].op = p.inner[i].op
           /\ Numbered(p, f).inner[i].arg = p.inner[i].arg
           /\ Numbered(p, f).inner[i].no = f + CallAt(p) - 1 + i
  <2> HIDE DEF p, f
  <2> QED
    BY <1>2, NumberedIs
<1>6. Top.pos # FrameEnd(Top) <=> m < Len(p.inner)
  BY <1>1, <1>3, <1>4, <1>5 DEF FrameEnd
<1>7. ASSUME m < Len(p.inner) PROVE Fetched.no = parsed + 1 /\ Fetched.op \in Ops /\ Aimed(Fetched)
  <2>1. Fetched = Numbered(p, f).inner[m + 1] /\ m + 1 \in 1 .. Len(p.inner)
    BY <1>3, <1>4, <1>7 DEF Fetched
  <2> HIDE DEF p, f
  <2>2. Fetched.no = f + CallAt(p) - 1 + (m + 1)
    BY <1>5, <2>1
  <2>3. Fetched.no = parsed + 1
    <3> DEFINE x == CallAt(p)
    <3>1. x \in Nat /\ f \in Nat /\ Fetched.no = f + x - 1 + (m + 1) /\ parsed + 1 = f + x + m
      BY <1>1, <1>2, <1>4, <2>2
    <3> HIDE DEF x
    <3> QED
      BY <3>1
  <2> QED
    BY <1>4, <1>5, <2>1, <2>3 DEF Aimed
<1>8. Past = <<Base(c), Outer(c, CallAt(p)), Inner(c, m + 1)>>
  <2>1. Passed(Top) = [Inner(c, m) EXCEPT !.pos = @ + 1]
    BY <1>3 DEF Passed
  <2>2. Passed(Top) = Inner(c, m + 1)
    BY <2>1 DEF Inner
  <2> QED
    BY <1>1, <2>2, Tuples DEF Past
<1> QED
  BY <1>1, <1>3, <1>6, <1>7, <1>8

-----------------------------------------------------------------------------
(* Steps of the machine.                                                   *)

\* What the guest wrote, and the write pointers.
StreamSame   == UNCHANGED <<script, ring, wpos, ibmem, owner, issued, rptr>>
PointersSame == UNCHANGED <<ring_wptr_words, last_kick_wptr_raw, pending_wptr_raw, async>>

LEMMA RingSame ==
  ASSUME NEW r \in Nat, RingInv(r), StreamSame
  PROVE  RingInv(r)'
  BY DEF RingInv, WordInv, NoAt, StreamSame

LEMMA PointerSame ==
  ASSUME NEW c \in Nat, NEW d \in Nat, NEW w \in Nat, NEW k \in Nat,
         PointerInv(c, w, k), d <= w, StreamSame, PointersSame
  PROVE  PointerInv(d, w, k)'
  BY DEF PointerInv, StreamSame, PointersSame

LEMMA FramesSame ==
  ASSUME NEW c, NEW j, StreamSame
  PROVE  /\ Base(c)' = Base(c) /\ Prog(c)' = Prog(c) /\ From(c)' = From(c) /\ NoAt(c)' = NoAt(c)
         /\ Outer(c, j)' = Outer(c, j) /\ Inner(c, j)' = Inner(c, j)
  BY DEF StreamSame, Base, Prog, From, NoAt, Outer, Inner

\* A command that neither calls nor parks.
LEMMA AdvanceHolds ==
  ASSUME Counts, NEW r \in Nat, NEW c \in Nat, NEW w \in Nat, NEW k \in Nat, Stands(r, c, w, k),
         Top.pos # FrameEnd(Top), Fetched.op \in Ops, pm4_stack' = Past, parsed' = Fetched.no,
         StreamSame, PointersSame, UNCHANGED ring_ib_call_pos
  PROVE  /\ parsed' \in Nat /\ Fetched.no = parsed + 1
         /\ \E d \in Nat : Stands(r, d, w, k)'
<1>g. /\ RingInv(r) /\ r <= c /\ PointerInv(c, w, k) /\ c <= wpos /\ parsed \in Nat /\ RingInv(r)' /\ c <= w
  BY RingSame DEF Stands, PointerInv, Counts
<1>1. CASE AtRing(c)
  <2>1. /\ c < w /\ Fetched = ring[c % N] /\ Fetched.no = parsed + 1 /\ Fetched.op = script[c + 1].op
        /\ WordInv(c) /\ Past = <<Base(c + 1)>>
    BY <1>1, <1>g, RingTop
  <2>2. NoAt(c + 1) = parsed + 2
    <3>1. script[c + 1].op # "ib"
      BY <2>1 DEF Ops
    <3>2. NoAt(c + 1) = ring[c % N].no + 1
      BY <2>1, <3>1 DEF WordInv, Size
    <3> QED
      BY <1>g, <2>1, <3>2
  <2>3. AtRing(c + 1)'
    BY <1>g, <2>1, <2>2, FramesSame DEF AtRing
  <2>4. c + 1 \in Nat /\ r <= c + 1 /\ PointerInv(c + 1, w, k)'
    BY <1>g, <2>1, PointerSame
  <2> QED
    BY <1>g, <2>1, <2>3, <2>4 DEF Stands, FrameInv
<1>2. ASSUME NEW j \in Nat, InOuter(r, c, j)
      PROVE  Fetched.no = parsed + 1 /\ Stands(r, c, w, k)'
  <2> DEFINE p == Prog(c)
  <2>1. /\ j < Len(p.outer) /\ Fetched.no = parsed + 1
        /\ IF j + 1 = CallAt(p) THEN Fetched.op = "call" ELSE Fetched.op \in Ops
        /\ Past = <<Base(c), Outer(c, j + 1)>>
    BY <1>2, <1>g, OuterTop
  <2>2. j + 1 # CallAt(p)
    BY <2>1 DEF Ops
  <2>3. WellFormed(p) /\ From(c) \in Nat
    BY <1>2, <1>g, InBuffer DEF InOuter
  <2>4. Len(p.outer) \in Nat /\ Len(p.inner) \in Nat /\ CallAt(p) \in Nat
    BY <2>3, Buffer
  <2>5. j + 1 >= CallAt(p) <=> j >= CallAt(p)
    BY <2>2, <2>4
  <2>6. parsed' + 1 = From(c) + (j + 1) + IF j + 1 >= CallAt(p) THEN Len(p.inner) ELSE 0
    <3> DEFINE x == IF j >= CallAt(p) THEN Len(p.inner) ELSE 0
    <3>1. parsed + 1 = From(c) + j + x /\ x \in Nat
      BY <1>2, <2>4 DEF InOuter
    <3>2. parsed' = parsed + 1 /\ x = IF j + 1 >= CallAt(p) THEN Len(p.inner) ELSE 0
      BY <2>1, <2>5
    <3> HIDE DEF x
    <3> DEFINE f == From(c)
    <3>3. f \in Nat /\ x \in Nat /\ parsed \in Nat /\ parsed' = parsed + 1 /\ parsed + 1 = f + j + x
      BY <1>g, <2>3, <3>1, <3>2
    <3> HIDE DEF f
    <3>4. parsed' + 1 = f + (j + 1) + x
      BY <3>3
    <3>5. parsed' + 1 = From(c) + (j + 1) + x
      BY <3>4 DEF f
    <3> QED
      BY <3>2, <3>5
  <2>7. Called(r, c)'
    BY <1>2 DEF InOuter, Called, StreamSame
  <2>8. InOuter(r, c, j + 1)'
    <3>1. j + 1 \in 0 .. Len(p.outer)
      BY <2>1, <2>4
    <3> QED
      BY <2>1, <2>6, <2>7, <3>1, FramesSame DEF InOuter
  <2>9. PointerInv(c, w, k)'
    BY <1>g, PointerSame
  <2> QED
    BY <1>g, <2>1, <2>8, <2>9 DEF Stands, FrameInv
<1>3. ASSUME NEW m \in Nat, InInner(r, c, m)
      PROVE  Fetched.no = parsed + 1 /\ Stands(r, c, w, k)'
  <2> DEFINE p == Prog(c)
             at == CallAt(p)
  <2>1. /\ m < Len(p.inner) /\ Fetched.no = parsed + 1
        /\ Past = <<Base(c), Outer(c, at), Inner(c, m + 1)>>
    BY <1>3, <1>g, InnerTop
  <2>2. WellFormed(p) /\ From(c) \in Nat
    BY <1>3, <1>g, InBuffer DEF InInner
  <2>3. Len(p.outer) \in Nat /\ Len(p.inner) \in Nat /\ at \in Nat
    BY <2>2, Buffer
  <2>4. at <= Len(p.outer) /\ parsed + 1 = From(c) + at + m
    BY <1>3 DEF InInner
  <2>5. Called(r, c)'
    BY <1>3 DEF InInner, Called, StreamSame
  <2>6. p' = p
    BY FramesSame
  <2>7. at' = at
    BY <2>6
  <2> HIDE DEF at
  <2>8. parsed' + 1 = From(c) + at + (m + 1)
    BY <1>g, <2>1, <2>2, <2>3, <2>4
  <2>9. m + 1 \in 0 .. Len(p.inner) /\ m + 1 \in Nat
    BY <2>1, <2>3
  <2>10. InInner(r, c, m + 1)'
    BY <2>1, <2>4, <2>5, <2>6, <2>8, <2>9, FramesSame DEF InInner, at
  <2>11. PointerInv(c, w, k)'
    BY <1>g, PointerSame
  <2> QED
    BY <1>g, <2>1, <2>9, <2>10, <2>11 DEF Stands, FrameInv
<1> QED
  BY <1>1, <1>2, <1>3, <1>g DEF Stands, FrameInv

\* PM4_INDIRECT_BUFFER, in the ring or in a buffer.
LEMMA CallHolds ==
  ASSUME Counts, NEW r \in Nat, NEW c \in Nat, NEW w \in Nat, NEW k \in Nat, Stands(r, c, w, k),
         NEW t \in Threads, Call(t)
  PROVE  /\ parsed' \in Nat /\ Fetched.no = parsed + 1
         /\ \E d \in Nat : Stands(r, d, w, k)'
<1>a. /\ StreamSame /\ PointersSame /\ parsed' = Fetched.no /\ Fetched.op \in {"ib", "call"}
      /\ Top.pos # FrameEnd(Top)
      /\ IF Len(pm4_stack) < 8 /\ Code # <<>>
         THEN /\ pm4_stack' = Append(Past, [buf |-> Callee, pos |-> 0, code |-> Code])
              /\ ring_ib_call_pos' = IF IsRing(Top) THEN Top.pos ELSE ring_ib_call_pos
         ELSE pm4_stack' = Past /\ UNCHANGED ring_ib_call_pos
  BY DEF Call, At, Walking, Done, StreamSame, PointersSame, guestVars, kickVars, wakeVars
<1>g. /\ RingInv(r) /\ r <= c /\ PointerInv(c, w, k) /\ c <= wpos /\ parsed \in Nat /\ RingInv(r)' /\ c <= w
  BY <1>a, RingSame DEF Stands, PointerInv, Counts
<1>1. CASE AtRing(c)
  <2> DEFINE e == ring[c % N]
             p == Prog(c + 1)
             b == [buf |-> Callee, pos |-> 0, code |-> Code]
  <2>1. /\ c < w /\ c < wpos /\ Fetched = e /\ Fetched.no = parsed + 1 /\ Fetched.op = script[c + 1].op
        /\ WordInv(c) /\ Past = <<Base(c + 1)>> /\ Len(pm4_stack) = 1 /\ IsRing(Top) /\ Top = Base(c)
    BY <1>1, <1>a, <1>g, RingTop
  <2>2. script[c + 1].op = "ib" /\ WellFormed(script[c + 1].arg)
    <3>1. c < Len(script)
      BY <2>1, Long DEF Counts
    <3> QED
      BY <1>a, <2>1, <3>1, Issued DEF Ops
  <2>3. c + 1 - 1 = c /\ c + 1 \in Nat /\ r <= c + 1 /\ c + 1 <= w
    BY <1>g, <2>1
  <2>4. p = script[c + 1].arg /\ From(c + 1) = e.no + 1 /\ Top.pos = c % N
    BY <2>1, <2>3 DEF Prog, From, Base
  <2>5. e.no = parsed + 1 /\ From(c + 1) \in Nat /\ From(c + 1) = parsed + 2
    BY <1>g, <2>1, <2>4
  <2>6. Callee = e.arg /\ Code = Numbered(p, From(c + 1)).outer
    <3>1. ibmem[e.arg] = Numbered(script[c + 1].arg, e.no + 1)
      BY <2>1, <2>2 DEF WordInv
    <3> QED
      BY <2>1, <2>4, <3>1 DEF Callee, Code
  <2>7. /\ Len(p.outer) \in Nat /\ Len(p.inner) \in Nat /\ CallAt(p) \in 1 .. Len(p.outer) + 1
        /\ CallAt(p) = Len(p.outer) + 1 => Len(p.inner) = 0
        /\ Len(Numbered(p, From(c + 1)).outer) = Len(p.outer)
    BY <2>2, <2>4, <2>5, Buffer, NumberedIs
  <2>8. PointerInv(c + 1, w, k)'
    BY <1>a, <1>g, <2>3, PointerSame
  <2>9. CASE Code # <<>>
    <3>1. pm4_stack' = <<Base(c + 1), Outer(c + 1, 0)>> /\ ring_ib_call_pos' = (c + 1 - 1) % N
      <4>1. b = Outer(c + 1, 0)
        BY <2>3, <2>6 DEF Outer
      <4> QED
        BY <1>a, <2>1, <2>3, <2>4, <2>9, <4>1, Tuples
    <3>2. Called(r, c + 1)'
      BY <1>a, <1>g, <2>2, <3>1 DEF Called, StreamSame
    <3>3. ~(0 >= CallAt(p)) /\ 0 \in 0 .. Len(p.outer) /\ 0 \in Nat
      BY <2>7
    <3>4. parsed' + 1 = From(c + 1) + 0 + IF 0 >= CallAt(p) THEN Len(p.inner) ELSE 0
      BY <1>a, <1>g, <2>1, <2>5, <3>3
    <3> HIDE DEF p
    <3>5. InOuter(r, c + 1, 0)'
      <4>1. Prog(c + 1)' = p
        BY <1>a, FramesSame DEF p
      <4> QED
        BY <1>a, <3>1, <3>2, <3>3, <3>4, <4>1, FramesSame DEF InOuter
    <3> QED
      BY <1>a, <1>g, <2>1, <2>3, <2>8, <3>3, <3>5 DEF Stands, FrameInv
  <2>10. CASE Code = <<>>
    <3>1. Len(p.outer) = 0 /\ Len(p.inner) = 0
      BY <2>6, <2>7, <2>10
    <3>2. NoAt(c + 1) = e.no + (1 + 0 + 0)
      BY <2>1, <2>2, <2>4, <3>1 DEF WordInv, Size
    <3>3. AtRing(c + 1)'
      BY <1>a, <1>g, <2>1, <2>5, <2>10, <3>2, FramesSame DEF AtRing
    <3> QED
      BY <1>a, <1>g, <2>1, <2>3, <2>8, <3>3 DEF Stands, FrameInv
  <2> QED
    BY <2>9, <2>10
<1>2. ASSUME NEW j \in Nat, InOuter(r, c, j)
      PROVE  Fetched.no = parsed + 1 /\ Stands(r, c, w, k)'
  <2> DEFINE p == Prog(c)
             at == CallAt(p)
             f == From(c)
             b == [buf |-> Callee, pos |-> 0, code |-> Code]
  <2>1. /\ j < Len(p.outer) /\ Fetched.no = parsed + 1
        /\ IF j + 1 = at THEN Fetched.op = "call" ELSE Fetched.op \in Ops
        /\ Past = <<Base(c), Outer(c, j + 1)>> /\ Len(pm4_stack) = 2 /\ ~IsRing(Top) /\ Top = Outer(c, j)
    BY <1>2, <1>a, <1>g, OuterTop
  <2>2. j + 1 = at
    BY <1>a, <2>1 DEF Ops
  <2>3. /\ WellFormed(p) /\ f \in Nat
        /\ ibmem[ring[(c - 1) % N].arg] = Numbered(p, f)
    BY <1>2, <1>g, InBuffer DEF InOuter
  <2>4. /\ Len(p.outer) \in Nat /\ Len(p.inner) \in Nat /\ at \in Nat
        /\ Len(Numbered(p, f).inner) = Len(p.inner)
    BY <2>3, Buffer, NumberedIs
  <2>5. Callee = ring[(c - 1) % N].arg /\ Code = Numbered(p, f).inner
    BY <2>1, <2>3 DEF Callee, Code, Outer
  <2>6. parsed' = parsed + 1 /\ parsed + 1 = f + j
    <3>1. parsed + 1 = f + j + IF j >= at THEN Len(p.inner) ELSE 0
      BY <1>2 DEF InOuter
    <3>2. ~(j >= at)
      BY <2>2, <2>4
    <3>3. parsed + 1 = f + j + 0
      BY <3>1, <3>2
    <3> QED
      BY <1>a, <2>1, <2>3, <3>3
  <2>7. Called(r, c)'
    BY <1>2, <1>a, <2>1 DEF InOuter, Called, StreamSame
  <2>8. PointerInv(c, w, k)'
    BY <1>a, <1>g, PointerSame
  <2>9. Prog(c)' = p /\ CallAt(Prog(c))' = at /\ From(c)' = f
    <3>1. Prog(c)' = p /\ From(c)' = f
      BY <1>a, FramesSame
    <3> QED
      BY <3>1
  <2>10. CASE Code # <<>>
    <3>1. pm4_stack' = <<Base(c), Outer(c, at), Inner(c, 0)>>
      <4>1. b = Inner(c, 0)
        BY <2>5 DEF Inner
      <4> QED
        BY <1>a, <2>1, <2>2, <2>10, <4>1, Tuples
    <3>2. at <= Len(p.outer) /\ 0 \in 0 .. Len(p.inner) /\ 0 \in Nat
      BY <2>1, <2>2, <2>4
    <3> HIDE DEF p, at, f
    <3>3. parsed' + 1 = f + at + 0
      BY <1>g, <2>2, <2>3, <2>4, <2>6
    <3>4. InInner(r, c, 0)'
      BY <1>a, <2>7, <2>9, <3>1, <3>2, <3>3, FramesSame DEF InInner
    <3> QED
      BY <1>a, <1>g, <2>1, <2>8, <3>2, <3>4 DEF Stands, FrameInv
  <2>11. CASE Code = <<>>
    <3>1. Len(p.inner) = 0
      BY <2>4, <2>5, <2>11
    <3>2. pm4_stack' = <<Base(c), Outer(c, j + 1)>> /\ j + 1 \in 0 .. Len(p.outer) /\ j + 1 \in Nat
      BY <1>a, <2>1, <2>4, <2>11
    <3> HIDE DEF p, at, f
    <3>3. parsed' + 1 = f + (j + 1) + IF j + 1 >= at THEN Len(p.inner) ELSE 0
      BY <1>g, <2>2, <2>3, <2>4, <2>6, <3>1
    <3>4. InOuter(r, c, j + 1)'
      BY <1>a, <2>7, <2>9, <3>2, <3>3, FramesSame DEF InOuter
    <3> QED
      BY <1>a, <1>g, <2>1, <2>8, <3>2, <3>4 DEF Stands, FrameInv
  <2> QED
    BY <2>1, <2>10, <2>11
<1>3. ASSUME NEW m \in Nat, InInner(r, c, m) PROVE FALSE
  BY <1>3, <1>a, <1>g, InnerTop DEF Ops
<1> QED
  BY <1>1, <1>2, <1>3, <1>a, <1>g DEF Stands, FrameInv

\* The end of a buffer.
LEMMA PopHolds ==
  ASSUME Counts, NEW r \in Nat, NEW c \in Nat, NEW w \in Nat, NEW k \in Nat, Stands(r, c, w, k),
         NEW t \in Threads, PopFrame(t)
  PROVE  Stands(r, c, w, k)'
<1>a. /\ StreamSame /\ PointersSame /\ UNCHANGED <<parsed, ring_ib_call_pos>>
      /\ Top.pos = FrameEnd(Top) /\ ~IsRing(Top)
      /\ pm4_stack' = SubSeq(pm4_stack, 1, Len(pm4_stack) - 1)
  BY DEF PopFrame, StreamSame, PointersSame, guestVars, kickVars, wakeVars
<1>g. /\ RingInv(r) /\ r <= c /\ PointerInv(c, w, k) /\ c <= wpos /\ parsed \in Nat /\ RingInv(r)' /\ c <= w
  BY <1>a, RingSame DEF Stands, PointerInv, Counts
<1>h. PointerInv(c, w, k)'
  BY <1>a, <1>g, PointerSame
<1>1. ~AtRing(c)
  BY <1>a, <1>g, RingTop
<1>2. ASSUME NEW j \in Nat, InOuter(r, c, j) PROVE AtRing(c)'
  <2> DEFINE p == Prog(c)
             f == From(c)
  <2>1. ~(j < Len(p.outer)) /\ Len(pm4_stack) = 2
    BY <1>2, <1>a, <1>g, OuterTop
  <2>2. /\ WellFormed(p) /\ f \in Nat /\ NoAt(c) = f + Len(p.outer) + Len(p.inner)
    BY <1>2, <1>g, InBuffer DEF InOuter
  <2>3. /\ Len(p.outer) \in Nat /\ Len(p.inner) \in Nat /\ CallAt(p) \in 1 .. Len(p.outer) + 1
        /\ CallAt(p) = Len(p.outer) + 1 => Len(p.inner) = 0
    BY <2>2, Buffer
  <2>4. /\ j \in 0 .. Len(p.outer) /\ pm4_stack = <<Base(c), Outer(c, j)>>
        /\ parsed + 1 = f + j + IF j >= CallAt(p) THEN Len(p.inner) ELSE 0
    BY <1>2 DEF InOuter
  <2>5. pm4_stack' = <<Base(c)>>
    <3>1. pm4_stack' = SubSeq(<<Base(c), Outer(c, j)>>, 1, 1)
      BY <1>a, <2>1, <2>4
    <3> QED
      BY <3>1, Shorter
  <2>6. j = Len(p.outer) /\ (j >= CallAt(p) \/ Len(p.inner) = 0)
    BY <2>1, <2>3, <2>4
  <2>7. parsed + 1 = NoAt(c)
    BY <2>2, <2>3, <2>4, <2>6
  <2> QED
    BY <1>a, <2>5, <2>7, FramesSame DEF AtRing
<1>3. ASSUME NEW m \in Nat, InInner(r, c, m) PROVE \E j \in Nat : InOuter(r, c, j)'
  <2> DEFINE p == Prog(c)
             f == From(c)
             at == CallAt(p)
  <2>1. ~(m < Len(p.inner)) /\ Len(pm4_stack) = 3
    BY <1>3, <1>a, <1>g, InnerTop
  <2>2. WellFormed(p) /\ f \in Nat
    BY <1>3, <1>g, InBuffer DEF InInner
  <2>3. Len(p.outer) \in Nat /\ Len(p.inner) \in Nat /\ at \in Nat
    BY <2>2, Buffer
  <2>4. /\ m \in 0 .. Len(p.inner) /\ pm4_stack = <<Base(c), Outer(c, at), Inner(c, m)>>
        /\ parsed + 1 = f + at + m /\ at <= Len(p.outer)
    BY <1>3 DEF InInner
  <2>5. pm4_stack' = <<Base(c), Outer(c, at)>>
    <3>1. pm4_stack' = SubSeq(<<Base(c), Outer(c, at), Inner(c, m)>>, 1, 2)
      BY <1>a, <2>1, <2>4
    <3> QED
      BY <3>1, Shorter
  <2>6. m = Len(p.inner) /\ at \in 0 .. Len(p.outer) /\ at >= at
    BY <2>1, <2>3, <2>4
  <2>7. Prog(c)' = p /\ CallAt(Prog(c))' = at /\ From(c)' = f
    <3>1. Prog(c)' = p /\ From(c)' = f
      BY <1>a, FramesSame
    <3> QED
      BY <3>1
  <2>8. Called(r, c)'
    BY <1>3, <1>a DEF InInner, Called, StreamSame
  <2> HIDE DEF p, f, at
  <2>9. \A i : i = at => InOuter(r, c, i)'
    BY <1>a, <2>4, <2>5, <2>6, <2>7, <2>8, FramesSame DEF InOuter
  <2> QED
    BY <2>3, <2>9
<1> QED
  BY <1>1, <1>2, <1>3, <1>g, <1>h DEF Stands, FrameInv

-----------------------------------------------------------------------------
(* Steps that only move a thread, of the guest, the worker and the pump.   *)

\* Where a thread holds pm4_mutex.
Critical == {"walk", "mask", "report"}

\* The machine and its memory stay as they are.
MachineSame == StreamSame /\ UNCHANGED <<walkVars, kickVars, async>>

\* The frames do; write pointers and the flag may change.
FramesKept == StreamSame /\ UNCHANGED <<pm4_stack, ring_ib_call_pos, parsed>>

LEMMA FrameSame ==
  ASSUME NEW r, NEW c, FramesKept, FrameInv(r, c)
  PROVE  FrameInv(r, c)'
<1>1. \A j : /\ Base(c)' = Base(c) /\ Prog(c)' = Prog(c) /\ From(c)' = From(c) /\ NoAt(c)' = NoAt(c)
             /\ Outer(c, j)' = Outer(c, j) /\ Inner(c, j)' = Inner(c, j)
  BY FramesSame DEF FramesKept
<1>2. /\ pm4_stack' = pm4_stack /\ parsed' = parsed /\ ring_ib_call_pos' = ring_ib_call_pos /\ script' = script
  BY DEF FramesKept, StreamSame
<1>3. Called(r, c)' = Called(r, c)
  BY <1>2 DEF Called
<1>4. CallAt(Prog(c))' = CallAt(Prog(c))
  BY <1>1
<1>5. AtRing(c) => AtRing(c)'
  BY <1>1, <1>2 DEF AtRing
<1>6. \A j \in Nat : InOuter(r, c, j) => InOuter(r, c, j)'
  BY <1>1, <1>2, <1>3, <1>4 DEF InOuter
<1>7. \A m \in Nat : InInner(r, c, m) => InInner(r, c, m)'
  BY <1>1, <1>2, <1>3, <1>4 DEF InInner
<1> QED
  BY <1>5, <1>6, <1>7 DEF FrameInv

LEMMA QuietHolds ==
  ASSUME WalkInv, MachineSame, mutex' = mutex,
         pending_wptr_raw' = pending_wptr_raw \/ (async /\ pc["guest"] # "setup" /\ pending_wptr_raw' = wpos % N),
         capture_pending' => capture_pending \/ pc["guest"] # "setup",
         NEW t \in Threads, NEW label \in Places \ Critical,
         pc' = pc \/ (Goto(t, label) /\ pc[t] \notin Critical),
         pc' = pc \/ pc["guest"] # "setup",
         t = "guest" => label \in {"idle", "kick", "resume"} /\ (label = "kick" => ~async),
         t = "worker" => async
  PROVE  WalkInv'
<1>1. Counts /\ PlaceInv
  BY DEF WalkInv
<1>2. Counts'
  BY <1>1 DEF Counts, MachineSame, StreamSame, walkVars
<1>3. \A u \in Threads : /\ pc'[u] \in Critical <=> pc[u] \in Critical
                         /\ pc[u] \in Critical => pc'[u] = pc[u]
  BY <1>1 DEF PlaceInv, Goto
<1>4. PlaceInv'
  <2>1. "guest" \in Threads /\ "worker" \in Threads /\ "pump" \in Threads
    BY DEF Threads
  <2>2. pc' \in [Threads -> Places]
    BY <1>1 DEF PlaceInv, Goto
  <2>3. Top' = Top /\ FrameEnd(Top)' = FrameEnd(Top) /\ Fetched' = Fetched
    BY DEF MachineSame, StreamSame, walkVars, kickVars, Top, FrameEnd, IsRing, Fetched
  <2>4. \A u \in Threads : pc'[u] = "mask" => pc[u] = "mask"
    BY <1>3 DEF Critical
  <2>5. \A u \in Threads : pc'[u] = "mask" => (Top.pos # FrameEnd(Top))' /\ (Fetched.op = "int")'
    BY <1>1, <2>3, <2>4 DEF PlaceInv
  <2>6. \A u \in Threads : pc'[u] \in Critical <=> mutex' = u
    BY <1>1, <1>3 DEF PlaceInv, Critical
  <2>7. async' = async
    BY DEF MachineSame
  <2>8. CASE pc' = pc
    BY <1>1, <2>2, <2>5, <2>6, <2>7, <2>8 DEF PlaceInv, Critical
  <2>9. CASE pc' # pc
    <3>1. pc' = [pc EXCEPT ![t] = label] /\ pc["guest"] # "setup"
      BY <2>9 DEF Goto
    <3>2. pc'["guest"] \in {"idle", "kick", "resume", "walk", "mask", "report"}
      BY <1>1, <2>1, <3>1 DEF PlaceInv
    <3>3. pc'["worker"] # "wait" => async
      BY <1>1, <2>1, <3>1 DEF PlaceInv
    <3>4. pc'["guest"] = "kick" => ~async
      BY <1>1, <2>1, <3>1 DEF PlaceInv
    <3> QED
      BY <1>1, <2>2, <2>5, <2>6, <2>7, <3>2, <3>3, <3>4 DEF PlaceInv, Critical
  <2> QED
    BY <2>8, <2>9
<1>5. CASE pc["guest"] = "setup"
  <2>1. pc'["guest"] = "setup" /\ Blank
    BY <1>5 DEF WalkInv
  <2>2. Blank'
    BY <2>1 DEF Blank, MachineSame, StreamSame, walkVars, kickVars
  <2> QED
    BY <1>2, <1>4, <2>1, <2>2 DEF WalkInv
<1>6. CASE pc["guest"] # "setup"
  <2>1. PICK r \in Nat, c \in Nat, w \in Nat, k \in Nat : Stands(r, c, w, k)
    BY <1>6 DEF WalkInv
  <2>2. RingInv(r)' /\ r <= c /\ FrameInv(r, c)'
    BY <2>1, RingSame, FrameSame DEF Stands, MachineSame, FramesKept, walkVars
  <2>3. \E d \in Nat : PointerInv(c, w, d)'
    <3>1. wpos \in Nat /\ PointerInv(c, w, k)
      BY <1>1, <2>1 DEF Counts, Stands
    <3>2. CASE pending_wptr_raw' = pending_wptr_raw
      <4>1. PointerInv(c, w, k)'
        BY <3>1, <3>2 DEF PointerInv, MachineSame, StreamSame, kickVars
      <4> QED
        BY <4>1
    <3>3. CASE pending_wptr_raw' = wpos % N
      <4>1. \A d : d = wpos => PointerInv(c, w, d)'
        BY <3>1, <3>3 DEF PointerInv, MachineSame, StreamSame, kickVars
      <4> QED
        BY <3>1, <4>1
    <3> QED
      BY <3>2, <3>3
  <2>4. \E d \in Nat : Stands(r, c, w, d)'
    BY <2>2, <2>3 DEF Stands
  <2>5. RestInv'
    <3>1. RestInv
      BY <1>6 DEF WalkInv
    <3>2. Top' = Top /\ pm4_stack' = pm4_stack /\ ring_wptr_words' = ring_wptr_words /\ pm4_parked' = pm4_parked
      BY DEF MachineSame, walkVars, kickVars, Top
    <3> QED
      BY <1>3, <3>1, <3>2 DEF RestInv, Critical
  <2>6. pc'["guest"] # "setup"
    BY <1>1, <1>6 DEF Goto, PlaceInv, Threads
  <2> QED
    BY <1>2, <1>4, <2>4, <2>5, <2>6 DEF WalkInv
<1> QED
  BY <1>5, <1>6
-----------------------------------------------------------------------------
(* The start, and the start of a walk.                                     *)

LEMMA BlankHolds == Init => WalkInv
<1> SUFFICES ASSUME Init PROVE WalkInv
  OBVIOUS
<1>1. Counts
  BY GpuPumpAssumption DEF Init, Counts
<1>2. PlaceInv
  BY GpuPumpAssumption DEF Init, PlaceInv, Threads, Places
<1>3. pc["guest"] = "setup" /\ Blank
  BY DEF Init, Blank, Threads
<1> QED
  BY <1>1, <1>2, <1>3 DEF WalkInv

LEMMA SetUpHolds == WalkInv /\ SetUp => WalkInv'
<1> SUFFICES ASSUME WalkInv, SetUp PROVE WalkInv'
  OBVIOUS
<1>1. Counts /\ PlaceInv /\ Blank /\ pc["guest"] = "setup"
  BY DEF WalkInv, SetUp
<1>2. /\ StreamSame /\ UNCHANGED <<async, mutex, parsed, last_kick_wptr_raw, ring_ib_call_pos>>
      /\ pm4_stack' = <<RingFrame>> /\ ring_wptr_words' = 0 /\ pending_wptr_raw' = 0
      /\ pc' = [pc EXCEPT !["guest"] = "idle", !["pump"] = "top"]
  BY DEF SetUp, StreamSame, guestVars
<1>3. Counts'
  BY <1>1, <1>2 DEF Counts, StreamSame
<1>4. \A t \in Threads : pc[t] \notin Critical /\ pc'[t] \notin Critical
  BY <1>1, <1>2 DEF PlaceInv, Threads, Critical
<1>5. PlaceInv'
  <2>1. /\ pc' \in [Threads -> Places] /\ pc'["guest"] = "idle" /\ pc'["worker"] = "wait"
    BY <1>1, <1>2 DEF PlaceInv, Threads, Places
  <2> QED
    BY <1>1, <1>2, <1>4, <2>1 DEF PlaceInv, Critical
<1>6. 0 % N = 0
  BY Words
<1>7. pm4_stack' = <<Base(0)>>' /\ Len(pm4_stack') = 1 /\ Top'.pos = 0
  <2>1. Base(0)' = RingFrame /\ Base(0).pos = 0
    BY <1>6 DEF Base, RingFrame
  <2> QED
    BY <1>2, <2>1, Tuples DEF Top, Base
<1>8. RingInv(0)'
  <2>1. wpos' = 0 /\ issued' = 0 /\ rptr' = 0
    BY <1>1, <1>2 DEF Blank, StreamSame
  <2>2. NoAt(0)' = 1
    BY <2>1 DEF NoAt
  <2> QED
    BY <2>1, <2>2, Words DEF RingInv
<1>9. AtRing(0)'
  BY <1>1, <1>2, <1>7 DEF AtRing, NoAt, Blank, StreamSame
<1>10. PointerInv(0, 0, 0)'
  BY <1>1, <1>2, <1>6 DEF PointerInv, Blank, StreamSame
<1>11. RestInv' /\ pc'["guest"] # "setup"
  BY <1>1, <1>2, <1>7 DEF RestInv, PlaceInv, Threads
<1>12. \E r, c, w, k \in Nat : Stands(r, c, w, k)'
  BY <1>8, <1>9, <1>10 DEF Stands, FrameInv
<1> QED
  BY <1>3, <1>5, <1>11, <1>12 DEF WalkInv

LEMMA StartHolds ==
  ASSUME WalkInv, NEW t \in Threads, pc[t] \in {"kick", "resume", "lock"}, pc["guest"] # "setup",
         NEW raw, StartWalk(t, raw),
         UNCHANGED wakeVars,
         \/ raw = wpos % N /\ ~async
         \/ raw = last_kick_wptr_raw
         \/ raw = pending_wptr_raw /\ async
  PROVE  WalkInv'
<1>1. Counts /\ PlaceInv
  BY DEF WalkInv
<1>2. /\ FramesKept /\ UNCHANGED <<async, pending_wptr_raw, capture_pending>>
      /\ mutex = None /\ mutex' = t /\ pc' = [pc EXCEPT ![t] = "walk"]
      /\ ring_wptr_words' = raw /\ last_kick_wptr_raw' = raw
  BY DEF StartWalk, Goto, FramesKept, StreamSame, guestVars, wakeVars
<1>3. Counts'
  BY <1>1, <1>2 DEF Counts, FramesKept, StreamSame
<1>4. \A u \in Threads : pc[u] \notin Critical
  BY <1>1, <1>2, GpuPumpAssumption DEF PlaceInv, Critical
<1>5. PlaceInv'
  <2>1. pc' \in [Threads -> Places]
    BY <1>1, <1>2 DEF PlaceInv, Places
  <2>2. \A u \in Threads : pc'[u] \in Critical <=> mutex' = u
    BY <1>1, <1>2, <1>4 DEF PlaceInv, Critical
  <2>3. \A u \in Threads : pc'[u] # "mask"
    BY <1>1, <1>2, <1>4 DEF PlaceInv, Critical
  <2>4. /\ pc'["guest"] \in {"setup", "idle", "kick", "resume", "walk", "mask", "report"}
        /\ pc'["worker"] # "wait" => async
        /\ pc'["guest"] = "kick" => ~async
        /\ pc'["guest"] # "setup"
    BY <1>1, <1>2 DEF PlaceInv, Threads
  <2> QED
    BY <1>2, <2>1, <2>2, <2>3, <2>4 DEF PlaceInv, Critical
<1>6. PICK r \in Nat, c \in Nat, w \in Nat, k \in Nat : Stands(r, c, w, k)
  BY DEF WalkInv
<1>7. PICK v \in Nat : raw = v % N /\ w <= v /\ v <= wpos /\ (async => v <= k)
  BY <1>1, <1>6 DEF Stands, PointerInv, Counts
<1>8. RingInv(r)' /\ FrameInv(r, c)'
  BY <1>2, <1>6, RingSame, FrameSame DEF Stands, FramesKept
<1>9. PointerInv(c, v, k)'
  BY <1>2, <1>6, <1>7 DEF Stands, PointerInv, FramesKept, StreamSame
<1>10. Stands(r, c, v, k)'
  BY <1>6, <1>8, <1>9 DEF Stands
<1>11. RestInv' /\ pc'["guest"] # "setup"
  BY <1>1, <1>2 DEF RestInv, PlaceInv, Threads
<1> QED
  BY <1>3, <1>5, <1>10, <1>11 DEF WalkInv

-----------------------------------------------------------------------------
(* Steps of the thread that holds pm4_mutex.                               *)

LEMMA HolderHolds ==
  ASSUME WalkInv, NEW t \in Threads, pc[t] \in {"walk", "mask"}, parsed' \in Nat,
         StreamSame, UNCHANGED <<async, mutex>>,
         NEW label \in Critical, pc' = [pc EXCEPT ![t] = label],
         label = "mask" => (Top.pos # FrameEnd(Top) /\ Fetched.op = "int")',
         label = "report" => pm4_parked' = TRUE \/ (Len(pm4_stack) = 1 /\ Top.pos = ring_wptr_words)',
         \E r, c, w, k \in Nat : Stands(r, c, w, k)'
  PROVE  WalkInv'
<1>1. Counts /\ PlaceInv
  BY DEF WalkInv
<1>2. Counts'
  BY <1>1 DEF Counts, StreamSame
<1>3. \A u \in Threads : u # t => pc'[u] = pc[u] /\ pc[u] \notin Critical
  BY <1>1 DEF PlaceInv, Critical
<1>4. mutex = t /\ pc'[t] = label
  BY <1>1 DEF PlaceInv
<1>5. pc["guest"] # "setup" /\ pc'["guest"] # "setup"
  BY <1>1 DEF PlaceInv, Threads, Critical
<1>6. PlaceInv'
  <2>1. pc' \in [Threads -> Places]
    BY <1>1 DEF PlaceInv, Places, Critical
  <2>2. \A u \in Threads : pc'[u] \in Critical <=> mutex' = u
    BY <1>3, <1>4
  <2>3. \A u \in Threads : pc'[u] = "mask" => (Top.pos # FrameEnd(Top) /\ Fetched.op = "int")'
    BY <1>3, <1>4 DEF Critical
  <2>4. /\ pc'["guest"] \in {"setup", "idle", "kick", "resume", "walk", "mask", "report"}
        /\ pc'["worker"] # "wait" => async
        /\ pc'["guest"] = "kick" => ~async
    BY <1>1, <1>3, <1>4 DEF PlaceInv, Threads, Critical
  <2> QED
    BY <1>1, <1>5, <2>1, <2>2, <2>3, <2>4 DEF PlaceInv, Critical
<1>7. RestInv'
  BY <1>4 DEF RestInv, Critical
<1> QED
  BY <1>2, <1>5, <1>6, <1>7 DEF WalkInv

\* The walk goes on with the machine as it is.
LEMMA StayHolds ==
  ASSUME WalkInv, FramesKept, PointersSame
  PROVE  pc["guest"] # "setup" => \E r, c, w, k \in Nat : Stands(r, c, w, k)'
<1>1. SUFFICES ASSUME pc["guest"] # "setup" PROVE \E r, c, w, k \in Nat : Stands(r, c, w, k)'
  OBVIOUS
<1>2. PICK r \in Nat, c \in Nat, w \in Nat, k \in Nat : Stands(r, c, w, k)
  BY <1>1 DEF WalkInv
<1>3. RingInv(r)' /\ FrameInv(r, c)' /\ PointerInv(c, w, k)'
  <2>1. c <= w
    BY <1>2 DEF Stands, PointerInv
  <2> QED
    BY <1>2, <2>1, RingSame, FrameSame, PointerSame DEF Stands, FramesKept
<1> QED
  BY <1>2, <1>3 DEF Stands

LEMMA Walks ==
  ASSUME WalkInv, NEW t \in Threads, pc[t] \in Critical
  PROVE  /\ pc["guest"] # "setup" /\ mutex = t /\ pc = [pc EXCEPT ![t] = pc[t]] /\ Counts
         /\ \E r, c, w, k \in Nat : Stands(r, c, w, k)
<1>1. PlaceInv /\ Counts
  BY DEF WalkInv
<1>2. pc["guest"] # "setup" /\ mutex = t /\ pc = [pc EXCEPT ![t] = pc[t]]
  BY <1>1 DEF PlaceInv, Critical, Threads
<1> QED
  BY <1>1, <1>2 DEF WalkInv

LEMMA WalkStepHolds ==
  ASSUME WalkInv, NEW t \in Threads, CaughtUp(t) \/ PopFrame(t) \/ Execute(t)
  PROVE  WalkInv'
<1>1. CASE CaughtUp(t)
  <2>1. /\ pc[t] = "walk" /\ FramesKept /\ PointersSame /\ StreamSame /\ UNCHANGED <<async, mutex>>
        /\ pc' = [pc EXCEPT ![t] = "report"] /\ Top.pos = FrameEnd(Top) /\ IsRing(Top)
        /\ UNCHANGED <<ring_wptr_words, parsed, pm4_stack>>
    BY <1>1 DEF CaughtUp, Goto, FramesKept, PointersSame, StreamSame, guestVars, walkVars,
           kickVars, wakeVars
  <2>2. pc["guest"] # "setup" /\ Counts /\ \E r, c, w, k \in Nat : Stands(r, c, w, k)
    BY <2>1, Walks DEF Critical
  <2>3. \E r, c, w, k \in Nat : Stands(r, c, w, k)'
    BY <2>1, <2>2, StayHolds
  <2>4. Len(pm4_stack) = 1 /\ Top.pos = ring_wptr_words
    <3>1. PICK r \in Nat, c \in Nat, w \in Nat, k \in Nat : Stands(r, c, w, k)
      BY <2>2
    <3>2. RingInv(r) /\ r <= c /\ PointerInv(c, w, k) /\ FrameInv(r, c) /\ c <= wpos
      BY <2>2, <3>1 DEF Stands, PointerInv, Counts
    <3>3. AtRing(c)
      BY <2>1, <2>2, <3>2, OuterTop, InnerTop DEF FrameInv
    <3>4. Len(pm4_stack) = 1
      BY <2>2, <3>2, <3>3, RingTop
    <3> QED
      BY <2>1, <3>4 DEF FrameEnd
  <2>5. (Len(pm4_stack) = 1 /\ Top.pos = ring_wptr_words)'
    BY <2>1, <2>4 DEF Top
  <2>6. parsed' \in Nat
    BY <2>1, <2>2 DEF Counts
  <2> QED
    BY <2>1, <2>3, <2>5, <2>6, HolderHolds DEF Critical
<1>2. CASE PopFrame(t)
  <2>1. /\ pc[t] = "walk" /\ StreamSame /\ UNCHANGED <<async, mutex, pc, parsed>>
    BY <1>2 DEF PopFrame, StreamSame, guestVars
  <2>2. pc["guest"] # "setup" /\ Counts /\ pc = [pc EXCEPT ![t] = "walk"] /\ \E r, c, w, k \in Nat : Stands(r, c, w, k)
    BY <2>1, Walks DEF Critical
  <2>3. \E r, c, w, k \in Nat : Stands(r, c, w, k)'
    BY <1>2, <2>2, PopHolds
  <2>4. parsed' \in Nat
    BY <2>1, <2>2 DEF Counts
  <2> QED
    BY <2>1, <2>2, <2>3, <2>4, HolderHolds DEF Critical
<1>3. CASE Draw(t) \/ Swap(t) \/ WaitPasses(t)
  <2>1. /\ pc[t] = "walk" /\ StreamSame /\ PointersSame /\ UNCHANGED <<async, mutex, pc, ring_ib_call_pos>>
        /\ Top.pos # FrameEnd(Top) /\ Fetched.op \in Ops /\ pm4_stack' = Past /\ parsed' = Fetched.no
    BY <1>3 DEF Draw, Swap, WaitPasses, At, Walking, Done, StreamSame, PointersSame, guestVars, kickVars, wakeVars, Ops
  <2>2. pc["guest"] # "setup" /\ Counts /\ pc = [pc EXCEPT ![t] = "walk"] /\ \E r, c, w, k \in Nat : Stands(r, c, w, k)
    BY <2>1, Walks DEF Critical
  <2>3. parsed' \in Nat /\ \E r, c, w, k \in Nat : Stands(r, c, w, k)'
    BY <2>1, <2>2, AdvanceHolds
  <2> QED
    BY <2>1, <2>2, <2>3, HolderHolds DEF Critical
<1>4. CASE Interrupt(t)
  <2>1. /\ pc[t] = "walk" /\ FramesKept /\ PointersSame /\ StreamSame /\ UNCHANGED <<async, mutex>>
        /\ pc' = [pc EXCEPT ![t] = "mask"] /\ Top.pos # FrameEnd(Top) /\ Fetched.op = "int"
        /\ UNCHANGED <<ring, ring_wptr_words, parsed, pm4_stack>>
    BY <1>4 DEF Interrupt, At, Walking, Goto, FramesKept, PointersSame, StreamSame, guestVars, walkVars,
           kickVars, wakeVars
  <2>2. pc["guest"] # "setup" /\ Counts
    BY <2>1, Walks DEF Critical
  <2>3. \E r, c, w, k \in Nat : Stands(r, c, w, k)'
    BY <2>1, <2>2, StayHolds
  <2>4. (Top.pos # FrameEnd(Top) /\ Fetched.op = "int")'
    BY <2>1 DEF Top, FrameEnd, IsRing, Fetched
  <2>5. parsed' \in Nat
    BY <2>1, <2>2 DEF Counts
  <2> QED
    BY <2>1, <2>3, <2>4, <2>5, HolderHolds DEF Critical
<1>5. CASE SetMask(t)
  <2>1. /\ pc[t] = "mask" /\ StreamSame /\ PointersSame /\ UNCHANGED <<async, mutex, ring_ib_call_pos>>
        /\ pc' = [pc EXCEPT ![t] = "walk"] /\ pm4_stack' = Past /\ parsed' = Fetched.no
    BY <1>5 DEF SetMask, Goto, Done, StreamSame, PointersSame, guestVars, kickVars, wakeVars
  <2>2. pc["guest"] # "setup" /\ Counts /\ \E r, c, w, k \in Nat : Stands(r, c, w, k)
    BY <2>1, Walks DEF Critical
  <2>3. Top.pos # FrameEnd(Top) /\ Fetched.op \in Ops
    BY <2>1 DEF WalkInv, PlaceInv, Ops
  <2>4. parsed' \in Nat /\ \E r, c, w, k \in Nat : Stands(r, c, w, k)'
    BY <2>1, <2>2, <2>3, AdvanceHolds
  <2> QED
    BY <2>1, <2>2, <2>4, HolderHolds DEF Critical
<1>6. CASE Park(t)
  <2>1. /\ pc[t] = "walk" /\ FramesKept /\ PointersSame /\ StreamSame /\ UNCHANGED <<async, mutex, parsed>>
        /\ pc' = [pc EXCEPT ![t] = "report"] /\ pm4_parked' = TRUE
    BY <1>6 DEF Park, At, Walking, Goto, FramesKept, PointersSame, StreamSame, guestVars, kickVars, wakeVars
  <2>2. pc["guest"] # "setup" /\ Counts
    BY <2>1, Walks DEF Critical
  <2>3. \E r, c, w, k \in Nat : Stands(r, c, w, k)'
    BY <2>1, <2>2, StayHolds
  <2>4. parsed' \in Nat
    BY <2>1, <2>2 DEF Counts
  <2> QED
    BY <2>1, <2>3, <2>4, HolderHolds DEF Critical
<1>7. CASE Call(t)
  <2>1. /\ pc[t] = "walk" /\ StreamSame /\ UNCHANGED <<async, mutex, pc>>
    BY <1>7 DEF Call, At, Walking, Done, StreamSame, guestVars
  <2>2. pc["guest"] # "setup" /\ Counts /\ pc = [pc EXCEPT ![t] = "walk"] /\ \E r, c, w, k \in Nat : Stands(r, c, w, k)
    BY <2>1, Walks DEF Critical
  <2>3. parsed' \in Nat /\ \E r, c, w, k \in Nat : Stands(r, c, w, k)'
    BY <1>7, <2>2, CallHolds
  <2> QED
    BY <2>1, <2>2, <2>3, HolderHolds DEF Critical
<1> QED
  BY <1>1, <1>2, <1>3, <1>4, <1>5, <1>6, <1>7 DEF Execute

\* WriteRingRptrLocked: the words before what it reports may be written again, and
\* their commands are executed.
LEMMA ReportHolds ==
  ASSUME WalkInv, NEW t \in Threads, Report(t)
  PROVE  /\ WalkInv'
         /\ \E r, p \in Nat : RingInv(r) /\ RingInv(p)' /\ p \in r .. wpos /\ NoAt(p) <= parsed + 1
<1> DEFINE label == CASE t = "guest" -> "idle" [] t = "pump" -> "sleep" [] t = "worker" -> "wait"
<1>a. /\ pc[t] = "report" /\ mutex' = None /\ pc' = [pc EXCEPT ![t] = label]
      /\ rptr' = (last_kick_wptr_raw - ((ring_wptr_words - Consumed) % N)) % Word
      /\ UNCHANGED <<script, ring, wpos, ibmem, owner, issued, async, pm4_stack, pm4_parked, ring_ib_call_pos, parsed>>
      /\ PointersSame
  BY DEF Report, Goto, guestVars, walkVars, kickVars, wakeVars, PointersSame
<1>b. /\ label \in Places \ Critical
      /\ t = "guest" => label = "idle"
      /\ t = "worker" => label = "wait"
  BY DEF Threads, Places, Critical
<1> HIDE DEF label
<1>1. Counts /\ PlaceInv /\ pc["guest"] # "setup" /\ mutex = t /\ \E r, c, w, k \in Nat : Stands(r, c, w, k)
  BY <1>a, Walks DEF WalkInv, Critical
<1>2. Counts'
  BY <1>1, <1>a DEF Counts
<1>3. \A u \in Threads : pc'[u] \notin Critical /\ (pc[u] \in Critical => u = t)
  BY <1>1, <1>a, <1>b DEF PlaceInv, Critical
<1>4. pc'["guest"] # "setup"
  BY <1>1, <1>a, <1>b DEF PlaceInv, Threads
<1>5. PlaceInv'
  <2>1. pc' \in [Threads -> Places]
    BY <1>1, <1>a, <1>b DEF PlaceInv
  <2>2. \A u \in Threads : (pc'[u] \in Critical <=> mutex' = u) /\ pc'[u] # "mask"
    BY <1>3, <1>a, GpuPumpAssumption DEF Critical
  <2>3. /\ pc'["guest"] \in {"setup", "idle", "kick", "resume", "walk", "mask", "report"}
        /\ pc'["worker"] # "wait" => async
        /\ pc'["guest"] = "kick" => ~async
    BY <1>1, <1>a, <1>b DEF PlaceInv, Threads
  <2> QED
    BY <1>4, <1>a, <2>1, <2>2, <2>3 DEF PlaceInv, Critical
<1>6. RestInv'
  <2>1. \A u \in Threads : pc[u] \notin {"walk", "mask"}
    BY <1>3, <1>a DEF Critical
  <2>2. pm4_parked = TRUE \/ (Len(pm4_stack) = 1 /\ Top.pos = ring_wptr_words) \/ pm4_parked
    BY <1>1, <2>1 DEF WalkInv, RestInv
  <2>3. Top' = Top /\ ring_wptr_words' = ring_wptr_words
    BY <1>a DEF Top, PointersSame
  <2> QED
    BY <1>a, <2>2, <2>3 DEF RestInv
<1>7. PICK r \in Nat, c \in Nat, w \in Nat, k \in Nat : Stands(r, c, w, k)
  BY <1>1
<1>8. /\ RingInv(r) /\ r <= c /\ FrameInv(r, c) /\ PointerInv(c, w, k) /\ c <= wpos
      /\ ring_wptr_words = w % N /\ last_kick_wptr_raw = w % N /\ w % N \in Int
  BY <1>1, <1>7, Rest DEF Stands, PointerInv, Counts
<1>9. \A p \in Int : Consumed = p % N => rptr' % N = p % N
  BY <1>8, <1>a, Reported
\* The words from a later one on are as they should be, too.
<1>10. ASSUME NEW p \in Nat, r <= p, p <= c, rptr' % N = p % N PROVE RingInv(p)'
  <2>1. \A i : NoAt(i)' = NoAt(i) /\ WordInv(i)' = WordInv(i)
    BY <1>a DEF NoAt, WordInv
  <2>2. p <= wpos /\ wpos - p < N /\ wpos' = wpos
    <3>1. wpos - r < N /\ wpos \in Nat /\ N \in Nat
      BY <1>1, <1>8, Words DEF RingInv, Counts
    <3> QED
      BY <1>8, <1>10, <1>a, <3>1
  <2>3. \A i \in p .. wpos : NoAt(i) \in 0 .. issued + 1
    <3>1. \A i \in p .. wpos : i \in r .. wpos
      BY <1>1, <1>8, <1>10 DEF Counts
    <3> QED
      BY <1>8, <3>1 DEF RingInv
  <2>4. \A i \in p .. wpos - 1 : WordInv(i)
    <3>1. wpos \in Nat /\ \A i \in p .. wpos - 1 : i \in r .. wpos - 1
      BY <1>1, <1>8, <1>10 DEF Counts
    <3>2. \A i \in r .. wpos - 1 : WordInv(i)
      BY <1>8 DEF RingInv
    <3> QED
      BY <3>1, <3>2
  <2>5. \A i, j \in p .. wpos : i <= j => NoAt(i) <= NoAt(j)
    <3>1. \A i \in p .. wpos : i \in r .. wpos
      BY <1>1, <1>8, <1>10 DEF Counts
    <3> QED
      BY <1>8, <3>1 DEF RingInv
  <2> QED
    BY <1>10, <1>a, <2>1, <2>2, <2>3, <2>4, <2>5 DEF RingInv
<1>11. PointerInv(c, w, k)'
  BY <1>8, <1>a DEF PointerInv, PointersSame
<1>12. \A j : /\ Base(c)' = Base(c) /\ Prog(c)' = Prog(c) /\ From(c)' = From(c) /\ NoAt(c)' = NoAt(c)
              /\ Outer(c, j)' = Outer(c, j) /\ Inner(c, j)' = Inner(c, j)
  BY <1>a DEF Base, Prog, From, NoAt, Outer, Inner
<1>13. CASE AtRing(c)
  <2>1. Consumed = c % N
    BY <1>13, Tuples DEF AtRing, Consumed, Base
  <2>2. RingInv(c)'
    BY <1>8, <1>9, <1>10, <2>1
  <2>3. AtRing(c)'
    BY <1>12, <1>13, <1>a DEF AtRing
  <2>4. Stands(c, c, w, k)'
    BY <1>11, <2>2, <2>3 DEF Stands, FrameInv
  <2>5. c \in r .. wpos /\ NoAt(c) <= parsed + 1
    BY <1>1, <1>8, <1>13 DEF AtRing, Counts
  <2> QED
    BY <1>2, <1>4, <1>5, <1>6, <1>8, <2>2, <2>4, <2>5 DEF WalkInv
<1>14. CASE (\E j \in Nat : InOuter(r, c, j)) \/ (\E m \in Nat : InInner(r, c, m))
  <2>1. Called(r, c) /\ Len(pm4_stack) > 1
    <3>1. \A j : InOuter(r, c, j) => Called(r, c) /\ Len(pm4_stack) > 1
      BY Tuples DEF InOuter
    <3>2. \A m : InInner(r, c, m) => Called(r, c) /\ Len(pm4_stack) > 1
      BY Tuples DEF InInner
    <3> QED
      BY <1>14, <3>1, <3>2
  <2>2. Consumed = (c - 1) % N /\ r <= c - 1 /\ c - 1 \in Nat /\ c - 1 <= c
    BY <2>1 DEF Called, Consumed
  <2>3. RingInv(c - 1)'
    BY <1>9, <1>10, <2>2
  <2>4. Called(c - 1, c)'
    BY <1>a, <2>1 DEF Called
  <2>5. CallAt(Prog(c))' = CallAt(Prog(c))
    BY <1>12
  <2>6. FrameInv(c - 1, c)'
    <3>1. ASSUME NEW j \in Nat, InOuter(r, c, j) PROVE InOuter(c - 1, c, j)'
      BY <1>12, <1>a, <2>4, <2>5, <3>1 DEF InOuter
    <3>2. ASSUME NEW m \in Nat, InInner(r, c, m) PROVE InInner(c - 1, c, m)'
      BY <1>12, <1>a, <2>4, <2>5, <3>2 DEF InInner
    <3> QED
      BY <1>14, <3>1, <3>2 DEF FrameInv
  <2>7. Stands(c - 1, c, w, k)'
    BY <1>11, <2>2, <2>3, <2>6 DEF Stands
  <2>8. c - 1 \in r .. wpos /\ c - 1 # wpos
    BY <1>1, <1>8, <2>2 DEF Counts
  <2>9. NoAt(c - 1) <= parsed + 1
    <3>1. /\ WellFormed(Prog(c)) /\ From(c) \in Nat
          /\ Len(Prog(c).inner) \in Nat /\ CallAt(Prog(c)) \in Nat
      BY <1>1, <1>8, <2>1, InBuffer, Buffer
    <3>2. NoAt(c - 1) = ring[(c - 1) % N].no /\ From(c) = ring[(c - 1) % N].no + 1
      BY <2>8 DEF NoAt, From
    <3>3. NoAt(c - 1) \in Int
      BY <1>8, <2>8 DEF RingInv
    <3>4. From(c) <= parsed + 1
      <4>1. ASSUME NEW j \in Nat, InOuter(r, c, j) PROVE From(c) <= parsed + 1
        <5> DEFINE x == IF j >= CallAt(Prog(c)) THEN Len(Prog(c).inner) ELSE 0
        <5>1. parsed + 1 = From(c) + j + x /\ x \in Nat
          BY <3>1, <4>1 DEF InOuter
        <5> HIDE DEF x
        <5> QED
          BY <3>1, <5>1
      <4>2. ASSUME NEW m \in Nat, InInner(r, c, m) PROVE From(c) <= parsed + 1
        BY <3>1, <4>2 DEF InInner
      <4> QED
        BY <1>14, <4>1, <4>2
    <3> QED
      BY <1>1, <3>1, <3>2, <3>3, <3>4 DEF Counts
  <2> QED
    BY <1>2, <1>4, <1>5, <1>6, <1>8, <2>2, <2>3, <2>7, <2>8, <2>9 DEF WalkInv
<1> QED
  BY <1>8, <1>13, <1>14 DEF FrameInv

-----------------------------------------------------------------------------
(* The guest writes the next word.                                         *)

\* The word and the buffer it takes are none of those the machine has still to read.
LEMMA IssueIsFree ==
  ASSUME Counts, NEW r \in Nat, RingInv(r), Issue
  PROVE  /\ Unread = wpos - r /\ wpos - r < N - 1
         /\ \A i \in r .. wpos - 1 : i % N # wpos % N /\ ring'[i % N] = ring[i % N]
         /\ \A i \in r .. wpos : NoAt(i)' = NoAt(i)
<1>1. /\ r <= wpos /\ wpos - r < N /\ rptr % N = r % N /\ rptr \in Int
      /\ wpos \in Nat /\ N \in Nat /\ N > 0 /\ DOMAIN ring = 0 .. N - 1
  BY Words DEF RingInv, Counts
<1>2. Unread = wpos - r
  <2>1. 0 <= wpos - r /\ r \in Int /\ wpos \in Int
    BY <1>1
  <2> QED
    BY <1>1, <2>1, Distance DEF Unread
<1>3. Unread < N - 1 /\ wpos' = wpos + 1
  BY DEF Issue
<1>4. PICK e : ring' = [ring EXCEPT ![wpos % N] = e] /\ e.no = issued + 1
  <2>1. CASE script[wpos + 1].op = "ib"
    <3>1. PICK b \in Bufs : ring' = [ring EXCEPT ![wpos % N] = [op |-> "ib", arg |-> b, no |-> issued + 1]]
      BY <2>1 DEF Issue
    <3>2. [op |-> "ib", arg |-> b, no |-> issued + 1].no = issued + 1
      OBVIOUS
    <3> QED
      BY <3>1, <3>2, Zenon
  <2>2. CASE script[wpos + 1].op # "ib"
    <3>1. ring' = [ring EXCEPT ![wpos % N] =
                     [op |-> script[wpos + 1].op, arg |-> script[wpos + 1].arg, no |-> issued + 1]]
      BY <2>2 DEF Issue
    <3>2. [op |-> script[wpos + 1].op, arg |-> script[wpos + 1].arg, no |-> issued + 1].no = issued + 1
      OBVIOUS
    <3> QED
      BY <3>1, <3>2, Zenon
  <2> QED
    BY <2>1, <2>2
<1>5. \A i \in r .. wpos - 1 : i % N # wpos % N
  <2>1. SUFFICES ASSUME NEW i \in r .. wpos - 1, i % N = wpos % N PROVE FALSE
    OBVIOUS
  <2>2. -N < i - wpos /\ i - wpos < N /\ i # wpos /\ i \in Int
    BY <1>1
  <2> QED
    BY <1>1, <2>1, <2>2, OnePlace
<1>6. \A i \in r .. wpos - 1 : ring'[i % N] = ring[i % N]
  <2>1. \A i \in r .. wpos - 1 : i % N \in DOMAIN ring
    BY <1>1, Rest
  <2> QED
    BY <1>4, <1>5, <2>1
<1>7. ring'[wpos % N] = e
  BY <1>1, <1>4, Rest
<1>8. \A i \in r .. wpos : NoAt(i)' = NoAt(i)
  <2>1. ASSUME NEW i \in r .. wpos - 1 PROVE NoAt(i)' = NoAt(i)
    <3>1. i # wpos /\ i # wpos'
      BY <1>1, <1>3
    <3> QED
      BY <1>6, <3>1 DEF NoAt
  <2>2. ASSUME NEW i, i = wpos PROVE NoAt(i)' = NoAt(i)
    <3>1. i # wpos'
      BY <1>1, <1>3, <2>2
    <3>2. NoAt(i)' = ring'[i % N].no
      BY <3>1 DEF NoAt
    <3>3. NoAt(i) = issued + 1
      BY <2>2 DEF NoAt
    <3> QED
      BY <1>4, <1>7, <2>2, <3>2, <3>3
  <2>3. \A i \in r .. wpos : i \in r .. wpos - 1 \/ i = wpos
    BY <1>1
  <2> QED
    BY <2>1, <2>2, <2>3
<1> QED
  BY <1>2, <1>3, <1>5, <1>6, <1>8

\* The new number is behind all others.
LEMMA IssueOrder ==
  ASSUME Counts, NEW r \in Nat, RingInv(r), Issue, issued' \in Nat, issued' >= issued
  PROVE  \A i, j \in r .. wpos' : i <= j => NoAt(i)' <= NoAt(j)'
<1>1. /\ wpos \in Nat /\ wpos' = wpos + 1 /\ issued \in Nat /\ r <= wpos
      /\ \A i, j \in r .. wpos : i <= j => NoAt(i) <= NoAt(j)
      /\ \A i \in r .. wpos : NoAt(i) \in 0 .. issued + 1 /\ NoAt(i)' = NoAt(i)
  BY IssueIsFree DEF Counts, RingInv, Issue
<1>2. \A i : i = wpos' => NoAt(i)' = issued' + 1
  BY DEF NoAt
<1>3. ASSUME NEW i \in r .. wpos', NEW j \in r .. wpos', i <= j PROVE NoAt(i)' <= NoAt(j)'
  <2>1. CASE j \in r .. wpos
    <3>1. i \in r .. wpos
      BY <1>1, <1>3, <2>1
    <3> QED
      BY <1>1, <1>3, <2>1, <3>1
  <2>2. CASE j = wpos' /\ i \in r .. wpos
    <3>1. NoAt(j)' = issued' + 1 /\ NoAt(i)' = NoAt(i) /\ NoAt(i) \in 0 .. issued + 1
      BY <1>1, <1>2, <2>2
    <3> QED
      BY <1>1, <3>1
  <2>3. CASE j = wpos' /\ i = wpos'
    <3> DEFINE x == issued' + 1
    <3>1. NoAt(j)' = x /\ NoAt(i)' = x /\ x \in Int
      BY <1>2, <2>3
    <3> HIDE DEF x
    <3> QED
      BY <3>1
  <2>4. \A x \in r .. wpos' : x \in r .. wpos \/ x = wpos'
    BY <1>1
  <2> QED
    BY <1>1, <1>3, <2>1, <2>2, <2>3, <2>4
<1> QED
  BY <1>3

LEMMA IssueRing ==
  ASSUME Counts, NEW r \in Nat, RingInv(r), Issue
  PROVE  RingInv(r)' /\ Counts' /\ issued' > issued /\ issued' >= issued
<1>1. /\ r <= wpos /\ wpos - r < N - 1 /\ rptr % N = r % N /\ rptr' = rptr /\ script' = script
      /\ wpos \in Nat /\ N \in Nat /\ N > 0 /\ wpos' = wpos + 1 /\ issued \in Nat
      /\ wpos < Len(script) /\ Len(script) \in Nat /\ Unread = wpos - r /\ parsed' = parsed /\ async' = async
  BY Words, Long, IssueIsFree DEF RingInv, Counts, Issue, walkVars
<1>2. wpos % N \in DOMAIN ring
  BY <1>1, Rest DEF Counts
<1> DEFINE q == script[wpos + 1]
<1>3. IF q.op = "ib" THEN WellFormed(q.arg) ELSE q.op \in Ops
  BY <1>1, Issued
<1> HIDE DEF q
<1>4. CASE q.op = "ib"
  <2>1. PICK b \in Bufs :
          /\ Reusable(b)
          /\ ring' = [ring EXCEPT ![wpos % N] = [op |-> "ib", arg |-> b, no |-> issued + 1]]
          /\ ibmem' = [ibmem EXCEPT ![b] = Numbered(q.arg, issued + 2)]
          /\ owner' = [owner EXCEPT ![b] = wpos]
          /\ issued' = issued + 1 + Len(q.arg.outer) + Len(q.arg.inner)
    BY <1>4 DEF Issue, q
  <2>2. Len(q.arg.outer) \in Nat /\ Len(q.arg.inner) \in Nat
    BY <1>3, <1>4, Buffer
  <2>3. issued' \in Nat /\ issued' > issued /\ issued' >= issued
    <3> DEFINE x == Len(q.arg.outer)
               y == Len(q.arg.inner)
    <3>1. x \in Nat /\ y \in Nat /\ issued' = issued + 1 + x + y
      BY <2>1, <2>2
    <3> HIDE DEF x, y
    <3> QED
      BY <1>1, <3>1
  <2>4. owner[b] < r
    BY <1>1, <2>1 DEF Reusable
  <2>5. /\ ring'[wpos % N] = [op |-> "ib", arg |-> b, no |-> issued + 1]
        /\ owner'[b] = wpos /\ ibmem'[b] = Numbered(q.arg, issued + 2)
        /\ \A d \in Bufs : d # b => owner'[d] = owner[d] /\ ibmem'[d] = ibmem[d]
    BY <1>2, <2>1 DEF Counts
  <2>6. \A i : i = wpos + 1 => NoAt(i)' = issued + 1 + Size(q)
    <3>1. \A i : i = wpos + 1 => NoAt(i)' = issued' + 1
      BY <1>1 DEF NoAt
    <3>2. Size(q) = 1 + Len(q.arg.outer) + Len(q.arg.inner)
      BY <1>4 DEF Size
    <3> DEFINE x == Len(q.arg.outer)
               y == Len(q.arg.inner)
    <3>3. x \in Nat /\ y \in Nat /\ issued' = issued + 1 + x + y /\ Size(q) = 1 + x + y
      BY <2>1, <2>2, <3>2
    <3> HIDE DEF x, y
    <3> QED
      BY <1>1, <3>1, <3>3
  <2>7. \A i : i = wpos + 1 => NoAt(i)' \in 0 .. issued' + 1
    <3>1. \A n \in Nat : n + 1 \in 0 .. n + 1
      OBVIOUS
    <3>2. issued' + 1 \in 0 .. issued' + 1
      BY <2>3, <3>1
    <3> QED
      BY <1>1, <3>2 DEF NoAt
  <2>8. ASSUME NEW i, i = wpos PROVE WordInv(i)'
    <3>1. ring'[i % N] = [op |-> "ib", arg |-> b, no |-> issued + 1] /\ script'[i + 1] = q
      BY <1>1, <2>5, <2>8 DEF q
    <3>2. NoAt(i + 1)' = issued + 1 + Size(q)
      BY <2>6, <2>8
    <3>3. issued + 1 + 1 = issued + 2
      BY <1>1
    <3> QED
      BY <1>4, <2>5, <2>8, <3>1, <3>2, <3>3 DEF WordInv
  <2>9. ASSUME NEW i \in r .. wpos - 1 PROVE WordInv(i)'
    <3>1. /\ WordInv(i) /\ ring'[i % N] = ring[i % N] /\ NoAt(i + 1)' = NoAt(i + 1)
      <4>1. i + 1 \in r .. wpos
        BY <1>1
      <4> QED
        BY <4>1, IssueIsFree DEF RingInv
    <3>2. ASSUME script[i + 1].op = "ib" PROVE ring[i % N].arg \in Bufs /\ ring[i % N].arg # b
      <4> DEFINE a == ring[i % N].arg
      <4>1. WordInv(i)
        BY <3>1
      <4>2. a \in Bufs /\ owner[a] = i
        BY <3>2, <4>1 DEF WordInv
      <4>3. i >= r /\ i \in Nat /\ ~(i < r)
        BY <1>1
      <4> QED
        BY <2>4, <4>2, <4>3
    <3> QED
      BY <1>1, <2>5, <3>1, <3>2 DEF WordInv
  <2>10. \A i \in r .. wpos' - 1 : WordInv(i)'
    <3>1. \A i \in r .. wpos' - 1 : i \in r .. wpos - 1 \/ i = wpos
      BY <1>1
    <3> QED
      BY <2>8, <2>9, <3>1
  <2>11. \A i \in r .. wpos' : NoAt(i)' \in 0 .. issued' + 1
    <3>1. \A i \in r .. wpos' : i \in r .. wpos \/ i = wpos + 1
      BY <1>1
    <3>2. \A i \in r .. wpos : NoAt(i) \in 0 .. issued + 1 /\ NoAt(i)' = NoAt(i)
      BY IssueIsFree DEF RingInv
    <3>3. 0 .. issued + 1 \subseteq 0 .. issued' + 1
      <4>1. \A x, y \in Nat : y >= x => 0 .. x + 1 \subseteq 0 .. y + 1
        OBVIOUS
      <4> QED
        BY <1>1, <2>3, <4>1
    <3> QED
      BY <2>7, <3>1, <3>2, <3>3
  <2>12. Counts'
    <3>1. DOMAIN ring' = 0 .. N - 1 /\ DOMAIN ibmem' = Bufs /\ DOMAIN owner' = Bufs
      BY <2>1 DEF Counts
    <3>2. wpos' \in Nat /\ wpos' <= Len(script)
      BY <1>1
    <3> QED
      BY <1>1, <2>3, <3>1, <3>2 DEF Counts
  <2>13. r <= wpos' /\ wpos' - r < N
    BY <1>1
  <2>14. rptr' % N = r % N /\ \A i, j \in r .. wpos' : i <= j => NoAt(i)' <= NoAt(j)'
    BY <1>1, <2>3, IssueOrder
  <2> QED
    BY <2>3, <2>10, <2>11, <2>12, <2>13, <2>14 DEF RingInv
<1>5. CASE q.op # "ib"
  <2>1. /\ ring' = [ring EXCEPT ![wpos % N] = [op |-> q.op, arg |-> q.arg, no |-> issued + 1]]
        /\ issued' = issued + 1 /\ ibmem' = ibmem /\ owner' = owner
    BY <1>5 DEF Issue, q
  <2>2. ring'[wpos % N] = [op |-> q.op, arg |-> q.arg, no |-> issued + 1]
    BY <1>2, <2>1
  <2>3. \A i : i = wpos + 1 => NoAt(i)' = issued + 1 + Size(q) /\ NoAt(i)' \in 0 .. issued' + 1
    BY <1>1, <1>5, <2>1 DEF NoAt, Size
  <2>4. ASSUME NEW i, i = wpos PROVE WordInv(i)'
    <3>1. ring'[i % N] = [op |-> q.op, arg |-> q.arg, no |-> issued + 1] /\ script'[i + 1] = q
      BY <1>1, <2>2, <2>4 DEF q
    <3>2. NoAt(i + 1)' = issued + 1 + Size(q)
      BY <2>3, <2>4
    <3> QED
      BY <1>5, <3>1, <3>2 DEF WordInv
  <2>5. ASSUME NEW i \in r .. wpos - 1 PROVE WordInv(i)'
    <3>1. /\ WordInv(i) /\ ring'[i % N] = ring[i % N] /\ NoAt(i + 1)' = NoAt(i + 1)
      <4>1. i + 1 \in r .. wpos
        BY <1>1
      <4> QED
        BY <4>1, IssueIsFree DEF RingInv
    <3> QED
      BY <1>1, <2>1, <3>1 DEF WordInv
  <2>6. \A i \in r .. wpos' - 1 : WordInv(i)'
    <3>1. \A i \in r .. wpos' - 1 : i \in r .. wpos - 1 \/ i = wpos
      BY <1>1
    <3> QED
      BY <2>4, <2>5, <3>1
  <2>7. \A i \in r .. wpos' : NoAt(i)' \in 0 .. issued' + 1
    <3>1. \A i \in r .. wpos' : i \in r .. wpos \/ i = wpos + 1
      BY <1>1
    <3>2. \A i \in r .. wpos : NoAt(i) \in 0 .. issued + 1 /\ NoAt(i)' = NoAt(i)
      BY IssueIsFree DEF RingInv
    <3>3. 0 .. issued + 1 \subseteq 0 .. issued' + 1
      BY <1>1, <2>1
    <3> QED
      BY <2>3, <3>1, <3>2, <3>3
  <2>8. Counts'
    BY <1>1, <2>1 DEF Counts
  <2>9. r <= wpos' /\ wpos' - r < N
    BY <1>1
  <2>10. issued' \in Nat /\ issued' > issued /\ issued' >= issued
    BY <1>1, <2>1
  <2>11. rptr' % N = r % N /\ \A i, j \in r .. wpos' : i <= j => NoAt(i)' <= NoAt(j)'
    BY <1>1, <2>10, IssueOrder
  <2> QED
    BY <2>6, <2>7, <2>8, <2>9, <2>10, <2>11 DEF RingInv
<1> QED
  BY <1>4, <1>5
LEMMA IssueHolds == WalkInv /\ Issue => WalkInv'
<1> SUFFICES ASSUME WalkInv, Issue PROVE WalkInv'
  OBVIOUS
<1>1. Counts /\ PlaceInv /\ pc["guest"] = "idle"
  BY DEF WalkInv, Issue
<1>2. /\ UNCHANGED <<async, script, mutex, pc, pm4_stack, pm4_parked, ring_ib_call_pos, parsed, rptr, capture_pending>>
      /\ PointersSame /\ wpos' = wpos + 1
  BY DEF Issue, walkVars, kickVars, wakeVars, PointersSame
<1>3. PICK r \in Nat, c \in Nat, w \in Nat, k \in Nat : Stands(r, c, w, k)
  BY <1>1 DEF WalkInv
<1>4. RingInv(r)' /\ Counts'
  BY <1>1, <1>3, IssueRing DEF Stands
<1>5. /\ RingInv(r) /\ r <= c /\ c <= w /\ w <= wpos /\ c <= wpos /\ wpos \in Nat
      /\ FrameInv(r, c) /\ PointerInv(c, w, k)
  BY <1>1, <1>3 DEF Stands, PointerInv, Counts
<1>6. PointerInv(c, w, k)'
  BY <1>2, <1>5 DEF PointerInv, PointersSame
<1>7. NoAt(c)' = NoAt(c)
  <2>1. c \in r .. wpos
    BY <1>5
  <2> QED
    BY <1>1, <1>5, <2>1, IssueIsFree
<1>8. FrameInv(r, c)'
  <2>1. CASE AtRing(c)
    <3>1. AtRing(c)'
      BY <1>2, <1>7, <2>1 DEF AtRing, Base
    <3> QED
      BY <3>1 DEF FrameInv
  <2>2. CASE (\E j \in Nat : InOuter(r, c, j)) \/ (\E m \in Nat : InInner(r, c, m))
    <3>1. r < c
      BY <2>2 DEF InOuter, InInner, Called
    <3>2. c - 1 \in r .. wpos - 1
      BY <1>5, <3>1
    <3>3. ring'[(c - 1) % N] = ring[(c - 1) % N]
      BY <1>1, <1>5, <3>2, IssueIsFree
    <3>4. \A j : /\ Base(c)' = Base(c) /\ Prog(c)' = Prog(c) /\ From(c)' = From(c)
                 /\ Outer(c, j)' = Outer(c, j) /\ Inner(c, j)' = Inner(c, j)
      BY <1>2, <3>3 DEF Base, Prog, From, Outer, Inner
    <3>5. CallAt(Prog(c))' = CallAt(Prog(c)) /\ Called(r, c)' = Called(r, c)
      BY <1>2, <3>4 DEF Called
    <3>6. \A j \in Nat : InOuter(r, c, j) => InOuter(r, c, j)'
      BY <1>2, <3>4, <3>5 DEF InOuter
    <3>7. \A m \in Nat : InInner(r, c, m) => InInner(r, c, m)'
      BY <1>2, <3>4, <3>5 DEF InInner
    <3> QED
      BY <2>2, <3>6, <3>7 DEF FrameInv
  <2> QED
    BY <1>5, <2>1, <2>2 DEF FrameInv
<1>9. Top' = Top /\ FrameEnd(Top)' = FrameEnd(Top)
  BY <1>2 DEF Top, FrameEnd, IsRing, PointersSame
<1>10. Top.pos # FrameEnd(Top) => Fetched' = Fetched
  <2>1. CASE AtRing(c)
    <3>1. Top.pos # FrameEnd(Top) => c < w /\ Top.pos = c % N
      BY <1>1, <1>5, <2>1, RingTop DEF Base
    <3>2. c < w => c \in r .. wpos - 1
      BY <1>5
    <3>3. c < w => ring'[c % N] = ring[c % N]
      BY <1>1, <1>5, <3>2, IssueIsFree
    <3> QED
      BY <1>9, <3>1, <3>3 DEF Fetched, IsRing
  <2>2. CASE ~AtRing(c)
    <3>1. ~IsRing(Top)
      BY <1>1, <1>5, <2>2, OuterTop, InnerTop DEF FrameInv
    <3> QED
      BY <1>9, <3>1 DEF Fetched, IsRing
  <2> QED
    BY <2>1, <2>2
<1>11. PlaceInv'
  <2>1. \A t \in Threads : pc'[t] = "mask" => (Top.pos # FrameEnd(Top))' /\ (Fetched.op = "int")'
    BY <1>1, <1>2, <1>9, <1>10 DEF PlaceInv
  <2> QED
    BY <1>1, <1>2, <2>1 DEF PlaceInv
<1>12. RestInv'
  <2>1. RestInv
    BY <1>1 DEF WalkInv
  <2> QED
    BY <1>2, <1>9, <2>1 DEF RestInv, PointersSame
<1>13. Stands(r, c, w, k)'
  BY <1>4, <1>5, <1>6, <1>8 DEF Stands
<1> QED
  BY <1>1, <1>2, <1>4, <1>11, <1>12, <1>13 DEF WalkInv

-----------------------------------------------------------------------------
(* All steps.                                                              *)

\* Steps that move no thread.
LEMMA StillHolds ==
  ASSUME WalkInv, MachineSame, UNCHANGED <<pc, mutex, wakeVars>>
  PROVE  WalkInv'
<1>1. "guest" \in Threads /\ "idle" \in Places \ Critical
  BY DEF Threads, Places, Critical
<1> QED
  BY <1>1, QuietHolds DEF wakeVars

\* The guest and the worker without pm4_mutex.
LEMMA GuestQuietHolds ==
  ASSUME WalkInv, Kick \/ MmioWrite \/ WorkerWake
  PROVE  WalkInv'
<1>1. Threads = {"guest", "pump", "worker"} /\ {"idle", "kick", "resume", "lock"} \subseteq Places \ Critical
  BY DEF Threads, Places, Critical
<1>2. CASE Kick
  <2>1. MachineSame /\ UNCHANGED mutex /\ pc["guest"] = "idle"
    BY <1>2 DEF Kick, MachineSame, StreamSame, guestVars
  <2>2. CASE async
    <3>1. pending_wptr_raw' = wpos % N /\ UNCHANGED pc
      BY <1>2, <2>2 DEF Kick
    <3> QED
      BY <1>1, <2>1, <2>2, <3>1, QuietHolds
  <2>3. CASE ~async
    <3>1. Goto("guest", "kick") /\ UNCHANGED <<pending_wptr_raw, capture_pending>>
      BY <1>2, <2>3 DEF Kick, wakeVars
    <3> QED
      BY <1>1, <2>1, <2>3, <3>1, QuietHolds DEF Critical
  <2> QED
    BY <2>2, <2>3
<1>3. CASE MmioWrite
  <2>1. MachineSame /\ UNCHANGED <<mutex, pending_wptr_raw>> /\ pc["guest"] = "idle"
    BY <1>3 DEF MmioWrite, TryResume, MachineSame, StreamSame, guestVars
  <2>2. Goto("guest", "idle") \/ Goto("guest", "resume")
    BY <1>3 DEF MmioWrite, TryResume
  <2> QED
    BY <1>1, <2>1, <2>2, QuietHolds DEF Critical
<1>4. CASE WorkerWake
  <2>1. MachineSame /\ UNCHANGED <<mutex, pending_wptr_raw>> /\ pc["worker"] = "wait" /\ async
        /\ Goto("worker", "lock") /\ capture_pending' = FALSE /\ capture_pending
    BY <1>4 DEF WorkerWake, MachineSame, StreamSame, guestVars
  <2>2. pc["guest"] # "setup"
    BY <2>1 DEF WalkInv, PlaceInv
  <2> QED
    BY <1>1, <2>1, <2>2, QuietHolds DEF Critical
<1> QED
  BY <1>2, <1>3, <1>4

LEMMA PumpQuietHolds ==
  ASSUME WalkInv, PumpLoop
  PROVE  WalkInv'
<1>1. /\ "pump" \in Threads
      /\ {"top", "isr", "acks", "blanket", "poll", "resume", "sleep", "done"} \subseteq Places \ Critical
  BY DEF Threads, Places, Critical
<1>2. pc["pump"] \in {"top", "isr", "acks", "blanket", "poll", "sleep"}
  BY DEF PumpLoop, PumpTake, PumpDispatch, PumpReadSeen, PumpTakeAcks, PumpBlanket, PumpPoll, PumpWake
<1>3. pc["guest"] # "setup" /\ pc["pump"] \notin Critical
  BY <1>2 DEF WalkInv, PlaceInv, Critical
<1>4. MachineSame /\ UNCHANGED <<mutex, pending_wptr_raw>>
  BY DEF PumpLoop, PumpTake, PumpDispatch, PumpReadSeen, PumpTakeAcks, PumpBlanket, PumpPoll, PumpWake,
         PumpUnchanged, TryResume, MachineSame, StreamSame, guestVars, wakeVars
<1>5. \/ UNCHANGED pc
      \/ \E label \in {"top", "isr", "acks", "blanket", "poll", "resume", "sleep", "done"} : Goto("pump", label)
  BY DEF PumpLoop, PumpTake, PumpDispatch, PumpReadSeen, PumpTakeAcks, PumpBlanket, PumpPoll, PumpWake, TryResume
<1>6. CASE UNCHANGED pc
  BY <1>1, <1>3, <1>4, <1>6, QuietHolds
<1>7. CASE \E label \in {"top", "isr", "acks", "blanket", "poll", "resume", "sleep", "done"} : Goto("pump", label)
  BY <1>1, <1>3, <1>4, <1>7, QuietHolds
<1> QED
  BY <1>5, <1>6, <1>7

LEMMA StreamStep == WalkInv /\ [Next]_vars => WalkInv'
<1> SUFFICES ASSUME WalkInv, [Next]_vars PROVE WalkInv'
  OBVIOUS
<1>1. CASE GuestStep
  BY <1>1, SetUpHolds, IssueHolds, GuestQuietHolds DEF GuestStep
<1>2. CASE KickWalk
  <2>1. pc["guest"] = "kick" /\ ~async /\ "guest" \in Threads /\ StartWalk("guest", wpos % N) /\ UNCHANGED wakeVars
    BY <1>2 DEF KickWalk, WalkInv, PlaceInv, Threads
  <2> QED
    BY <2>1, StartHolds
<1>3. ASSUME NEW t \in {"guest", "pump"}, Resume(t) PROVE WalkInv'
  <2>1. pc[t] = "resume" /\ t \in Threads /\ StartWalk(t, last_kick_wptr_raw) /\ UNCHANGED wakeVars
    BY <1>3 DEF Resume, Threads
  <2>2. pc["guest"] # "setup"
    BY <2>1 DEF WalkInv, PlaceInv, Threads
  <2> QED
    BY <2>1, <2>2, StartHolds
<1>4. CASE WorkerWalk
  <2>1. pc["worker"] = "lock" /\ "worker" \in Threads /\ StartWalk("worker", pending_wptr_raw) /\ UNCHANGED wakeVars
    BY <1>4 DEF WorkerWalk, Threads
  <2>2. pc["guest"] # "setup" /\ async
    BY <2>1 DEF WalkInv, PlaceInv
  <2> QED
    BY <2>1, <2>2, StartHolds
<1>5. ASSUME NEW t \in Threads, Walk(t) PROVE WalkInv'
  BY <1>5, WalkStepHolds, ReportHolds DEF Walk
<1>6. CASE WorkerStep
  BY <1>4, <1>5, <1>6, GuestQuietHolds DEF WorkerStep, Threads
<1>7. CASE PumpLoop
  BY <1>7, PumpQuietHolds
<1>8. CASE WriteFence \/ Stop \/ Deactivate \/ UNCHANGED vars
  BY <1>8, StillHolds DEF WriteFence, Stop, Deactivate, vars, MachineSame, StreamSame, guestVars
<1>9. CASE GuestWalk
  BY <1>2, <1>3, <1>5, <1>9 DEF GuestWalk, Threads
<1>10. CASE PumpWalk
  BY <1>3, <1>5, <1>10 DEF PumpWalk, Threads
<1> QED
  BY <1>1, <1>6, <1>7, <1>8, <1>9, <1>10 DEF Next

LEMMA StreamIsWalked == WalkInv => CommandsInOrder /\ NotParkedIsDone
<1> SUFFICES ASSUME WalkInv PROVE CommandsInOrder /\ NotParkedIsDone
  OBVIOUS
<1>1. Counts /\ PlaceInv
  BY DEF WalkInv
<1>2. CommandsInOrder
  <2>1. SUFFICES ASSUME NEW t \in Threads, Walking(t) \/ pc[t] = "mask" PROVE Fetched.no = parsed + 1
    BY DEF CommandsInOrder
  <2>2. pc[t] \in Critical /\ Top.pos # FrameEnd(Top)
    BY <1>1, <2>1 DEF Walking, PlaceInv, Critical
  <2>3. PICK r \in Nat, c \in Nat, w \in Nat, k \in Nat : Stands(r, c, w, k)
    BY <2>2, Walks
  <2>4. RingInv(r) /\ r <= c /\ PointerInv(c, w, k) /\ FrameInv(r, c) /\ c <= wpos
    BY <1>1, <2>3 DEF Stands, PointerInv, Counts
  <2>5. CASE AtRing(c)
    BY <1>1, <2>2, <2>4, <2>5, RingTop
  <2>6. ASSUME NEW j \in Nat, InOuter(r, c, j) PROVE Fetched.no = parsed + 1
    BY <1>1, <2>2, <2>4, <2>6, OuterTop
  <2>7. ASSUME NEW m \in Nat, InInner(r, c, m) PROVE Fetched.no = parsed + 1
    BY <1>1, <2>2, <2>4, <2>7, InnerTop
  <2> QED
    BY <2>4, <2>5, <2>6, <2>7 DEF FrameInv
<1>3. NotParkedIsDone
  <2>1. SUFFICES ASSUME mutex = None, pm4_stack # <<>>, ~pm4_parked
                 PROVE  Len(pm4_stack) = 1 /\ Top.pos = ring_wptr_words
    BY DEF NotParkedIsDone
  <2>2. \A t \in Threads : pc[t] \notin {"walk", "mask"}
    BY <1>1, <2>1, GpuPumpAssumption DEF PlaceInv
  <2>3. pc["guest"] # "setup"
    BY <2>1 DEF WalkInv, Blank
  <2> QED
    BY <2>1, <2>2, <2>3 DEF WalkInv, RestInv
<1> QED
  BY <1>2, <1>3

-----------------------------------------------------------------------------
(* The other types, and what a kick leaves behind.                         *)

PumpPlaces   == {"off", "top", "isr", "acks", "blanket", "poll", "resume", "walk", "mask", "report", "sleep", "done"}
WorkerPlaces == {"wait", "lock", "walk", "mask", "report"}

\* What the invariants above do not say of the types.
SlotTypes ==
  /\ async \in Asyncs /\ owner \in [Bufs -> Int] /\ fence \in 0 .. MaxFence
  /\ kicked \in 0 .. issued /\ rptr \in 0 .. Word - 1
  /\ pc["pump"] \in PumpPlaces /\ pc["worker"] \in WorkerPlaces
  /\ ring_wptr_words \in 0 .. N - 1 /\ ring_ib_call_pos \in 0 .. N - 1
  /\ pending_interrupt_mask \subseteq Cpus /\ hand \subseteq Cpus
  /\ early <= pending_swap_acks

\* The number of the first command that a write pointer leaves out.
FirstOut(raw) == IF raw = wpos % N THEN issued + 1 ELSE ring[raw].no

\* The write pointer that is left for the worker, or the one of the last walk, takes
\* in what was kicked, no more and no less; a worker that is behind is woken, or on
\* its way.
KickInv ==
  /\ pc["guest"] = "kick" => kicked = issued
  /\ FirstOut(ring_wptr_words) <= kicked + 1
  /\ IF async THEN /\ FirstOut(pending_wptr_raw) = kicked + 1
                   /\ pending_wptr_raw # ring_wptr_words => capture_pending \/ pc["worker"] = "lock"
     ELSE FirstOut(ring_wptr_words) = kicked + 1 \/ pc["guest"] = "kick"

Inv == IInv /\ WalkInv /\ SlotTypes /\ KickInv

\* The frames, and how far the machine is.
LEMMA FramesTyped ==
  ASSUME WalkInv
  PROVE  /\ parsed \in 0 .. issued
         /\ \A i \in DOMAIN pm4_stack :
              /\ pm4_stack[i].buf \in Bufs <=> i > 1
              /\ pm4_stack[i].pos \in 0 .. IF i = 1 THEN N - 1 ELSE Len(pm4_stack[i].code)
<1>1. Counts
  BY DEF WalkInv
<1>2. CASE pc["guest"] = "setup"
  <2>1. pm4_stack = <<>> /\ parsed = 0 /\ issued = 0
    BY <1>2 DEF WalkInv, Blank
  <2>2. DOMAIN pm4_stack = {}
    BY <2>1
  <2> QED
    BY <2>1, <2>2
<1>3. CASE pc["guest"] # "setup"
  <2>1. PICK r \in Nat, c \in Nat, w \in Nat, k \in Nat : Stands(r, c, w, k)
    BY <1>3 DEF WalkInv
  <2>2. /\ RingInv(r) /\ r <= c /\ c <= wpos /\ FrameInv(r, c) /\ issued \in Nat /\ parsed \in Nat
        /\ NoAt(c) \in 0 .. issued + 1
    <3>1. RingInv(r) /\ r <= c /\ c <= wpos /\ FrameInv(r, c)
      BY <1>1, <2>1 DEF Stands, PointerInv, Counts
    <3>2. c \in r .. wpos
      BY <1>1, <3>1 DEF Counts
    <3> QED
      BY <1>1, <3>1, <3>2 DEF RingInv, Counts
  <2>3. Base(c).buf \notin Bufs /\ Base(c).pos \in 0 .. N - 1
    BY GpuPumpAssumption, Rest DEF Base
  <2>4. CASE AtRing(c)
    <3>1. pm4_stack = <<Base(c)>> /\ parsed + 1 = NoAt(c)
      BY <2>4 DEF AtRing
    <3>2. DOMAIN pm4_stack = 1 .. 1 /\ pm4_stack[1] = Base(c)
      BY <3>1
    <3>3. parsed \in 0 .. issued
      BY <2>2, <3>1
    <3> QED
      BY <2>3, <3>2, <3>3
  <2>5. ASSUME Called(r, c)
        PROVE  /\ Len(Prog(c).outer) \in Nat /\ Len(Prog(c).inner) \in Nat /\ CallAt(Prog(c)) \in Nat /\ From(c) \in Nat
               /\ From(c) + Len(Prog(c).outer) + Len(Prog(c).inner) <= issued + 1
               /\ \A j : /\ Outer(c, j).buf \in Bufs /\ Outer(c, j).pos = j
                         /\ Len(Outer(c, j).code) = Len(Prog(c).outer)
                         /\ Inner(c, j).buf \in Bufs /\ Inner(c, j).pos = j
                         /\ Len(Inner(c, j).code) = Len(Prog(c).inner)
    <3>1. /\ WellFormed(Prog(c)) /\ From(c) \in Nat /\ ring[(c - 1) % N].arg \in Bufs
          /\ NoAt(c) = From(c) + Len(Prog(c).outer) + Len(Prog(c).inner)
      BY <1>1, <2>2, <2>5, InBuffer
    <3>2. Len(Prog(c).outer) \in Nat /\ Len(Prog(c).inner) \in Nat /\ CallAt(Prog(c)) \in Nat
      BY <3>1, Buffer
    <3>3. /\ Len(Numbered(Prog(c), From(c)).outer) = Len(Prog(c).outer)
          /\ Len(Numbered(Prog(c), From(c)).inner) = Len(Prog(c).inner)
      BY <3>1, NumberedIs
    <3>4. \A j : /\ Outer(c, j).buf \in Bufs /\ Outer(c, j).pos = j
                 /\ Len(Outer(c, j).code) = Len(Prog(c).outer)
                 /\ Inner(c, j).buf \in Bufs /\ Inner(c, j).pos = j
                 /\ Len(Inner(c, j).code) = Len(Prog(c).inner)
      BY <3>1, <3>3 DEF Outer, Inner
    <3>5. From(c) + Len(Prog(c).outer) + Len(Prog(c).inner) <= issued + 1
      BY <2>2, <3>1
    <3> QED
      BY <3>1, <3>2, <3>4, <3>5
  <2>6. ASSUME NEW j \in Nat, InOuter(r, c, j)
        PROVE  /\ parsed \in 0 .. issued
               /\ \A i \in DOMAIN pm4_stack :
                    /\ pm4_stack[i].buf \in Bufs <=> i > 1
                    /\ pm4_stack[i].pos \in 0 .. IF i = 1 THEN N - 1 ELSE Len(pm4_stack[i].code)
    <3> DEFINE x == Len(Prog(c).outer)
               y == Len(Prog(c).inner)
               d == CallAt(Prog(c))
               f == From(c)
    <3>1. /\ pm4_stack = <<Base(c), Outer(c, j)>> /\ j <= x
          /\ parsed + 1 = f + j + IF j >= d THEN y ELSE 0
      BY <2>6 DEF InOuter
    <3>2. x \in Nat /\ y \in Nat /\ d \in Nat /\ f \in Nat /\ f + x + y <= issued + 1
      BY <2>5, <2>6 DEF InOuter
    <3>3. DOMAIN pm4_stack = 1 .. 2 /\ pm4_stack[1] = Base(c) /\ pm4_stack[2] = Outer(c, j)
      BY <3>1
    <3>4. Outer(c, j).buf \in Bufs /\ Outer(c, j).pos = j /\ Len(Outer(c, j).code) = x
      BY <2>5, <2>6 DEF InOuter
    <3> HIDE DEF x, y, d, f
    <3>5. parsed \in 0 .. issued
      BY <2>2, <3>1, <3>2
    <3>6. \A i \in 1 .. 2 : i = 1 \/ (i = 2 /\ i > 1)
      OBVIOUS
    <3>7. j \in 0 .. x
      BY <3>1, <3>2
    <3> QED
      BY <2>3, <3>3, <3>4, <3>5, <3>6, <3>7
  <2>7. ASSUME NEW m \in Nat, InInner(r, c, m)
        PROVE  /\ parsed \in 0 .. issued
               /\ \A i \in DOMAIN pm4_stack :
                    /\ pm4_stack[i].buf \in Bufs <=> i > 1
                    /\ pm4_stack[i].pos \in 0 .. IF i = 1 THEN N - 1 ELSE Len(pm4_stack[i].code)
    <3> DEFINE x == Len(Prog(c).outer)
               y == Len(Prog(c).inner)
               d == CallAt(Prog(c))
               f == From(c)
    <3>1. /\ pm4_stack = <<Base(c), Outer(c, d), Inner(c, m)>> /\ m <= y /\ d <= x /\ parsed + 1 = f + d + m
      BY <2>7 DEF InInner
    <3>2. x \in Nat /\ y \in Nat /\ d \in Nat /\ f \in Nat /\ f + x + y <= issued + 1
      BY <2>5, <2>7 DEF InInner
    <3>3. /\ DOMAIN pm4_stack = 1 .. 3 /\ pm4_stack[1] = Base(c) /\ pm4_stack[2] = Outer(c, d)
          /\ pm4_stack[3] = Inner(c, m)
      BY <3>1
    <3>4. /\ Outer(c, d).buf \in Bufs /\ Outer(c, d).pos = d /\ Len(Outer(c, d).code) = x
          /\ Inner(c, m).buf \in Bufs /\ Inner(c, m).pos = m /\ Len(Inner(c, m).code) = y
      BY <2>5, <2>7 DEF InInner
    <3> HIDE DEF x, y, d, f
    <3>5. parsed \in 0 .. issued
      BY <2>2, <3>1, <3>2
    <3>6. \A i \in 1 .. 3 : i = 1 \/ (i = 2 /\ i > 1) \/ (i = 3 /\ i > 1)
      OBVIOUS
    <3>7. d \in 0 .. x /\ m \in 0 .. y
      BY <3>1, <3>2
    <3> QED
      BY <2>3, <3>3, <3>4, <3>5, <3>6, <3>7
  <2> QED
    BY <2>2, <2>4, <2>6, <2>7 DEF FrameInv
<1> QED
  BY <1>2, <1>3

\* PM4_INTERRUPT asks for CPUs that there are, in the ring and in the buffers.
LEMMA MaskAimed ==
  ASSUME WalkInv, NEW t \in Threads, pc[t] = "mask"
  PROVE  Fetched.arg \subseteq Cpus
<1>1. Counts /\ Top.pos # FrameEnd(Top) /\ Fetched.op = "int"
  BY DEF WalkInv, PlaceInv
<1>2. PICK r \in Nat, c \in Nat, w \in Nat, k \in Nat : Stands(r, c, w, k)
  BY Walks DEF Critical
<1>3. RingInv(r) /\ r <= c /\ PointerInv(c, w, k) /\ FrameInv(r, c) /\ c <= wpos
  BY <1>1, <1>2 DEF Stands, PointerInv, Counts
<1>4. CASE AtRing(c)
  <2>1. Fetched = ring[c % N] /\ Fetched.op = script[c + 1].op /\ c < wpos /\ WordInv(c)
    BY <1>1, <1>3, <1>4, RingTop
  <2>2. Fetched.arg = script[c + 1].arg
    BY <1>1, <2>1 DEF WordInv
  <2>3. Aimed(script[c + 1])
    <3>1. c < Len(script)
      BY <1>1, <2>1, Long DEF Counts
    <3> QED
      BY <1>1, <2>1, <3>1, Issued
  <2> QED
    BY <1>1, <2>1, <2>2, <2>3 DEF Aimed
<1>5. ASSUME NEW j \in Nat, InOuter(r, c, j) PROVE Aimed(Fetched)
  BY <1>1, <1>3, <1>5, OuterTop
<1>6. ASSUME NEW m \in Nat, InInner(r, c, m) PROVE Aimed(Fetched)
  BY <1>1, <1>3, <1>6, InnerTop
<1> QED
  BY <1>1, <1>3, <1>4, <1>5, <1>6 DEF FrameInv, Aimed

\* Steps that move threads, and nothing that has a type of its own.
SlotsSame == UNCHANGED <<async, owner, fence, kicked, issued, rptr, ring_wptr_words, ring_ib_call_pos,
                         pending_interrupt_mask, hand, early, pending_swap_acks>>

LEMMA SlotMove ==
  ASSUME SlotTypes, SlotsSame, pc'["pump"] \in PumpPlaces, pc'["worker"] \in WorkerPlaces
  PROVE  SlotTypes'
  BY DEF SlotTypes, SlotsSame

LEMMA WalkerPlaces ==
  ASSUME SlotTypes, CountTypes, NEW t \in Threads, NEW label \in {"walk", "mask", "report"}, Goto(t, label) \/ pc' = pc
  PROVE  pc'["pump"] \in PumpPlaces /\ pc'["worker"] \in WorkerPlaces
  BY DEF SlotTypes, CountTypes, Goto, PumpPlaces, WorkerPlaces, Threads

\* Steps without pm4_mutex.
LEMMA GuestSlots ==
  ASSUME Inv, WalkInv', GuestStep \/ WriteFence \/ Stop \/ Deactivate \/ WorkerWake \/ UNCHANGED vars
  PROVE  SlotTypes'
<1>1. SlotTypes /\ CountTypes /\ Counts /\ WalkInv
  BY DEF Inv, IInv, WalkInv
<1> USE DEF Threads
<1>2. CASE SetUp
  <2>1. /\ UNCHANGED <<async, owner, fence, kicked, issued, rptr, ring_ib_call_pos, pending_interrupt_mask, hand,
                       early, pending_swap_acks>>
        /\ ring_wptr_words' = 0 /\ pc' = [pc EXCEPT !["guest"] = "idle", !["pump"] = "top"]
    BY <1>2 DEF SetUp, guestVars, raiseVars, pumpVars
  <2> QED
    BY <1>1, <2>1, Words DEF SlotTypes, CountTypes, PumpPlaces
<1>3. CASE Issue
  <2>1. UNCHANGED <<async, fence, kicked, rptr, pc, ring_wptr_words, ring_ib_call_pos, pending_interrupt_mask, hand,
                    early, pending_swap_acks>>
    BY <1>3 DEF Issue, walkVars, kickVars, raiseVars, pumpVars
  <2>2. owner' = owner \/ \E b \in Bufs : owner' = [owner EXCEPT ![b] = wpos]
    BY <1>3 DEF Issue
  <2>3. owner' \in [Bufs -> Int]
    BY <1>1, <2>2 DEF SlotTypes, Counts
  <2>4. PICK r \in Nat : RingInv(r)
    BY <1>1, <1>3 DEF WalkInv, Stands, Issue
  <2>5. issued' >= issued /\ Counts'
    BY <1>1, <1>3, <2>4, IssueRing
  <2>6. kicked' \in 0 .. issued'
    BY <1>1, <2>1, <2>5 DEF SlotTypes, Counts
  <2> QED
    BY <1>1, <2>1, <2>3, <2>6 DEF SlotTypes
<1>4. CASE Kick
  <2>1. /\ UNCHANGED <<async, owner, fence, issued, rptr, ring_wptr_words, ring_ib_call_pos, pending_interrupt_mask,
                       hand, early, pending_swap_acks>>
        /\ kicked' = issued /\ (pc' = pc \/ Goto("guest", "kick"))
    BY <1>4 DEF Kick, guestVars, walkVars, kickVars, raiseVars, pumpVars
  <2>2. issued \in 0 .. issued
    BY <1>1 DEF Counts
  <2> QED
    BY <1>1, <2>1, <2>2 DEF SlotTypes, CountTypes, Goto
<1>5. CASE MmioWrite
  <2>1. SlotsSame /\ \E label : Goto("guest", label)
    BY <1>5 DEF MmioWrite, TryResume, SlotsSame, guestVars, walkVars, kickVars, raiseVars, pumpVars
  <2> QED
    BY <1>1, <2>1, SlotMove DEF SlotTypes, CountTypes, Goto
<1>6. CASE WorkerWake
  <2>1. SlotsSame /\ Goto("worker", "lock")
    BY <1>6 DEF WorkerWake, SlotsSame, guestVars, walkVars, kickVars, raiseVars, pumpVars
  <2> QED
    BY <1>1, <2>1, SlotMove DEF SlotTypes, CountTypes, Goto, WorkerPlaces
<1>7. CASE WriteFence
  <2>1. UNCHANGED <<async, owner, kicked, issued, rptr, pc, ring_wptr_words, ring_ib_call_pos,
                    pending_interrupt_mask, hand, early, pending_swap_acks>>
    BY <1>7 DEF WriteFence, guestVars, walkVars, kickVars, raiseVars, pumpVars
  <2>2. fence' \in 0 .. MaxFence
    BY <1>1, <1>7, GpuPumpAssumption DEF WriteFence, SlotTypes
  <2> QED
    BY <1>1, <2>1, <2>2 DEF SlotTypes
<1>8. CASE Stop \/ Deactivate \/ UNCHANGED vars
  <2>1. SlotsSame /\ pc' = pc
    BY <1>8 DEF Stop, Deactivate, vars, SlotsSame, guestVars, walkVars, kickVars, raiseVars, pumpVars
  <2> QED
    BY <1>1, <2>1, SlotMove DEF SlotTypes
<1> QED
  BY <1>2, <1>3, <1>4, <1>5, <1>6, <1>7, <1>8 DEF GuestStep

LEMMA PumpSlots ==
  ASSUME Inv, PumpLoop
  PROVE  SlotTypes'
<1>1. SlotTypes /\ CountTypes
  BY DEF Inv, IInv
<1>2. UNCHANGED <<async, owner, fence, kicked, issued, rptr, ring_wptr_words, ring_ib_call_pos>>
  BY DEF PumpLoop, PumpTake, PumpDispatch, PumpReadSeen, PumpTakeAcks, PumpBlanket, PumpPoll, PumpWake,
         PumpUnchanged, TryResume, guestVars, walkVars, kickVars
<1>3. \/ pc' = pc
      \/ \E label \in {"top", "isr", "acks", "blanket", "poll", "resume", "sleep", "done"} : Goto("pump", label)
  BY DEF PumpLoop, PumpTake, PumpDispatch, PumpReadSeen, PumpTakeAcks, PumpBlanket, PumpPoll, PumpWake, TryResume
<1>4. pc'["pump"] \in PumpPlaces /\ pc'["worker"] \in WorkerPlaces
  BY <1>1, <1>3 DEF SlotTypes, CountTypes, Goto, PumpPlaces, Threads
<1>5. pending_interrupt_mask' \subseteq Cpus /\ hand' \subseteq Cpus
  BY <1>1 DEF SlotTypes, PumpLoop, PumpTake, PumpDispatch, PumpReadSeen, PumpTakeAcks, PumpBlanket, PumpPoll,
              PumpWake, TryResume, raiseVars, pumpVars
<1>6. early' <= pending_swap_acks'
  BY <1>1 DEF SlotTypes, PumpLoop, PumpTake, PumpDispatch, PumpReadSeen, PumpTakeAcks, PumpBlanket, PumpPoll,
              PumpWake, TryResume, raiseVars, pumpVars
<1> QED
  BY <1>1, <1>2, <1>4, <1>5, <1>6 DEF SlotTypes

\* Steps with pm4_mutex.
LEMMA StartSlots ==
  ASSUME Inv, WalkInv', pc["guest"] # "setup", NEW t \in Threads, NEW raw, StartWalk(t, raw)
  PROVE  SlotTypes'
<1>1. SlotTypes /\ CountTypes /\ PlaceInv
  BY DEF Inv, IInv, WalkInv
<1>2. /\ UNCHANGED <<async, owner, fence, kicked, issued, rptr, ring_ib_call_pos, pending_interrupt_mask, hand,
                     early, pending_swap_acks>>
      /\ Goto(t, "walk")
  BY DEF StartWalk, guestVars, raiseVars, pumpVars
<1>3. pc'["pump"] \in PumpPlaces /\ pc'["worker"] \in WorkerPlaces
  BY <1>1, <1>2, WalkerPlaces
<1>4. pc'["guest"] # "setup"
  BY <1>1, <1>2 DEF Goto, PlaceInv, Threads
<1>5. \E w \in Nat : ring_wptr_words' = w % N
  BY <1>4 DEF WalkInv, Stands, PointerInv
<1>6. ring_wptr_words' \in 0 .. N - 1
  BY <1>5, Rest
<1> QED
  BY <1>1, <1>2, <1>3, <1>6 DEF SlotTypes

LEMMA WalkSlots ==
  ASSUME Inv, NEW t \in Threads, Walk(t)
  PROVE  SlotTypes'
<1>1. SlotTypes /\ CountTypes /\ WalkInv
  BY DEF Inv, IInv
<1>2. CASE CaughtUp(t) \/ PopFrame(t) \/ Draw(t) \/ Interrupt(t) \/ WaitPasses(t) \/ Park(t)
  <2>1. SlotsSame /\ \E label \in {"walk", "mask", "report"} : Goto(t, label) \/ pc' = pc
    BY <1>2 DEF CaughtUp, PopFrame, Draw, Interrupt, WaitPasses, Park, Done, SlotsSame, guestVars, walkVars, kickVars,
                raiseVars, pumpVars
  <2> QED
    BY <1>1, <2>1, WalkerPlaces, SlotMove
<1>3. CASE Swap(t)
  <2>1. /\ UNCHANGED <<async, owner, fence, kicked, issued, rptr, pc, ring_wptr_words, ring_ib_call_pos,
                       pending_interrupt_mask, hand>>
        /\ pending_swap_acks' = pending_swap_acks + 1
        /\ early' = IF seen_pm4_interrupt THEN early ELSE early + 1
    BY <1>3 DEF Swap, Done, guestVars, kickVars, pumpVars
  <2>2. early' <= pending_swap_acks'
    BY <1>1, <2>1 DEF SlotTypes, CountTypes
  <2> QED
    BY <1>1, <2>1, <2>2 DEF SlotTypes
<1>4. CASE SetMask(t)
  <2>1. /\ UNCHANGED <<async, owner, fence, kicked, issued, rptr, ring_wptr_words, ring_ib_call_pos, hand, early,
                       pending_swap_acks>>
        /\ Goto(t, "walk") /\ pc[t] = "mask" /\ pending_interrupt_mask' = pending_interrupt_mask \cup Fetched.arg
    BY <1>4 DEF SetMask, Done, guestVars, kickVars, pumpVars
  <2>2. pending_interrupt_mask' \subseteq Cpus
    BY <1>1, <2>1, MaskAimed DEF SlotTypes
  <2>3. pc'["pump"] \in PumpPlaces /\ pc'["worker"] \in WorkerPlaces
    BY <1>1, <2>1, WalkerPlaces
  <2> QED
    BY <1>1, <2>1, <2>2, <2>3 DEF SlotTypes
<1>5. CASE Call(t)
  <2>1. /\ UNCHANGED <<async, owner, fence, kicked, issued, rptr, pc, ring_wptr_words, hand, early,
                       pending_swap_acks, pending_interrupt_mask>>
        /\ pc[t] = "walk"
        /\ ring_ib_call_pos' = ring_ib_call_pos \/ (IsRing(Top) /\ ring_ib_call_pos' = Top.pos)
    BY <1>5 DEF Call, At, Walking, Done, guestVars, kickVars, raiseVars, pumpVars
  <2>2. IsRing(Top) => Top.pos \in 0 .. N - 1
    <3>1. PICK r \in Nat, c \in Nat, w \in Nat, k \in Nat : Stands(r, c, w, k)
      BY <1>1, <2>1, Walks DEF Critical
    <3>2. Counts /\ RingInv(r) /\ r <= c /\ PointerInv(c, w, k) /\ FrameInv(r, c) /\ c <= wpos
      BY <1>1, <3>1 DEF WalkInv, Stands, PointerInv, Counts
    <3>3. ASSUME AtRing(c) PROVE Top.pos = c % N
      <4>1. Top = Base(c)
        BY <3>2, <3>3, RingTop
      <4> QED
        BY <4>1 DEF Base
    <3>4. ~AtRing(c) => ~IsRing(Top)
      BY <3>2, OuterTop, InnerTop DEF FrameInv
    <3> QED
      BY <3>3, <3>4, Rest
  <2> QED
    BY <1>1, <2>1, <2>2 DEF SlotTypes
<1>6. CASE Report(t)
  <2>1. /\ UNCHANGED <<async, owner, fence, kicked, issued, ring_wptr_words, ring_ib_call_pos, hand, early,
                       pending_swap_acks, pending_interrupt_mask>>
        /\ rptr' = (last_kick_wptr_raw - ((ring_wptr_words - Consumed) % N)) % Word
        /\ pc[t] = "report"
        /\ Goto(t, CASE t = "guest" -> "idle" [] t = "pump" -> "sleep" [] t = "worker" -> "wait")
    BY <1>6 DEF Report, guestVars, walkVars, kickVars, raiseVars, pumpVars
  <2>2. pc'["pump"] \in PumpPlaces /\ pc'["worker"] \in WorkerPlaces
    BY <1>1, <2>1 DEF SlotTypes, CountTypes, Goto, PumpPlaces, WorkerPlaces, Threads
  <2>3. Consumed \in Int
    <3>1. pm4_stack # <<>> /\ Len(pm4_stack) >= 1 /\ 1 \in DOMAIN pm4_stack
      <4>1. PICK r \in Nat, c \in Nat, w \in Nat, k \in Nat : Stands(r, c, w, k)
        BY <1>1, <2>1, Walks DEF Critical
      <4>2. FrameInv(r, c)
        BY <4>1 DEF Stands
      <4> QED
        BY <4>2 DEF FrameInv, AtRing, InOuter, InInner
    <3>2. pm4_stack[1].pos \in 0 .. N - 1
      BY <1>1, <3>1, FramesTyped
    <3> QED
      BY <1>1, <3>2, Words DEF Consumed, SlotTypes
  <2>4. last_kick_wptr_raw \in Int
    <3>1. \E w \in Nat : last_kick_wptr_raw = w % N
      BY <1>1, <2>1, Walks DEF Critical, Stands, PointerInv
    <3> QED
      BY <3>1, Rest
  <2>5. (ring_wptr_words - Consumed) % N \in Int
    <3>1. ring_wptr_words - Consumed \in Int
      BY <1>1, <2>3, Words DEF SlotTypes
    <3> QED
      BY <3>1, Rest
  <2>6. rptr' \in 0 .. Word - 1
    <3>1. last_kick_wptr_raw - ((ring_wptr_words - Consumed) % N) \in Int
      BY <2>4, <2>5
    <3>2. \A x \in Int : x % Word \in 0 .. Word - 1
      BY Words
    <3> QED
      BY <2>1, <3>1, <3>2
  <2> QED
    BY <1>1, <2>1, <2>2, <2>6 DEF SlotTypes
<1> QED
  BY <1>2, <1>3, <1>4, <1>5, <1>6 DEF Walk, Execute

-----------------------------------------------------------------------------
(* Kicks.                                                                  *)

\* Write pointers are remainders of positions that are still in the ring.
LEMMA FirstOutIs ==
  ASSUME Counts, NEW r \in Nat, RingInv(r), NEW i \in r .. wpos
  PROVE  FirstOut(i % N) = NoAt(i)
<1>1. wpos \in Nat /\ wpos - r < N /\ r <= wpos
  BY DEF Counts, RingInv
<1>2. i \in Int /\ -N < i - wpos /\ i - wpos < N
  BY <1>1, Words
<1>3. i % N = wpos % N => i = wpos
  BY <1>1, <1>2, OnePlace
<1> QED
  BY <1>3 DEF FirstOut, NoAt

\* The guest writes behind all of them.
LEMMA FirstOutStays ==
  ASSUME Counts, NEW r \in Nat, RingInv(r), NEW i \in r .. wpos, Issue
  PROVE  FirstOut(i % N)' = FirstOut(i % N)
<1>1. wpos \in Nat /\ wpos - r < N - 1 /\ r <= wpos /\ wpos' = wpos + 1
  BY IssueIsFree DEF Counts, RingInv, Issue
<1>2. i \in Int /\ wpos + 1 \in Int /\ -N < i - (wpos + 1) /\ i - (wpos + 1) < N /\ i # wpos + 1
  BY <1>1, Words
<1>3. i % N # wpos' % N /\ i # wpos'
  BY <1>1, <1>2, OnePlace
<1>4. FirstOut(i % N)' = NoAt(i)'
  BY <1>3 DEF FirstOut, NoAt
<1>5. NoAt(i)' = NoAt(i)
  BY IssueIsFree
<1> QED
  BY <1>4, <1>5, FirstOutIs

\* A step that kicks nothing, and after which who was going to walk still is.
LEMMA KickSame ==
  ASSUME KickInv, UNCHANGED <<async, kicked, ring, wpos, issued, pending_wptr_raw, ring_wptr_words>>,
         async /\ (capture_pending \/ pc["worker"] = "lock") => capture_pending' \/ pc'["worker"] = "lock",
         pc'["guest"] = "kick" <=> pc["guest"] = "kick"
  PROVE  KickInv'
  BY DEF KickInv, FirstOut

LEMMA GuestKicks ==
  ASSUME Inv, GuestStep \/ WriteFence \/ Stop \/ Deactivate \/ WorkerWake \/ UNCHANGED vars
  PROVE  KickInv'
<1>1. KickInv /\ SlotTypes /\ CountTypes /\ Counts /\ WalkInv
  BY DEF Inv, IInv, WalkInv
<1>2. CASE SetUp
  <2>1. /\ wpos' = 0 /\ issued' = 0 /\ kicked' = kicked /\ kicked \in 0 .. issued /\ issued = 0
        /\ ring_wptr_words' = 0 /\ pending_wptr_raw' = 0
    BY <1>1, <1>2 DEF SetUp, WalkInv, Blank, SlotTypes, guestVars
  <2>2. 0 % N = 0
    BY Words
  <2>3. FirstOut(0)' = 1
    BY <2>1, <2>2 DEF FirstOut
  <2>4. kicked' = 0
    BY <2>1
  <2>5. FirstOut(ring_wptr_words)' = kicked' + 1 /\ FirstOut(pending_wptr_raw)' = kicked' + 1
    BY <2>1, <2>3, <2>4 DEF FirstOut
  <2> QED
    BY <2>1, <2>4, <2>5 DEF KickInv
<1>3. CASE Issue
  <2>1. UNCHANGED <<async, kicked, pc, capture_pending, pending_wptr_raw, ring_wptr_words>> /\ pc["guest"] = "idle"
    BY <1>3 DEF Issue, kickVars, wakeVars
  <2>2. PICK r \in Nat, c \in Nat, w \in Nat, k \in Nat : Stands(r, c, w, k)
    BY <1>1, <1>3 DEF WalkInv, Issue
  <2>3. RingInv(r) /\ w \in r .. wpos /\ ring_wptr_words = w % N
        /\ (async => k \in r .. wpos /\ pending_wptr_raw = k % N)
    BY <1>1, <2>2 DEF Stands, PointerInv, Counts
  <2>4. FirstOut(w % N)' = FirstOut(w % N)
    BY <1>1, <1>3, <2>3, FirstOutStays
  <2>5. async => FirstOut(k % N)' = FirstOut(k % N)
    BY <1>1, <1>3, <2>3, FirstOutStays
  <2>6. FirstOut(ring_wptr_words)' = FirstOut(ring_wptr_words)
    BY <2>1, <2>3, <2>4 DEF FirstOut
  <2>7. async => FirstOut(pending_wptr_raw)' = FirstOut(pending_wptr_raw)
    BY <2>1, <2>3, <2>5 DEF FirstOut
  <2> QED
    BY <1>1, <2>1, <2>6, <2>7 DEF KickInv
<1>4. CASE Kick
  <2>1. UNCHANGED <<async, ring, wpos, issued, ring_wptr_words>> /\ kicked' = issued
    BY <1>4 DEF Kick, guestVars, kickVars
  <2>4. FirstOut(ring_wptr_words)' <= kicked' + 1 /\ FirstOut(ring_wptr_words)' = FirstOut(ring_wptr_words)
    <3>1. PICK r \in Nat, c \in Nat, w \in Nat, k \in Nat : Stands(r, c, w, k)
      BY <1>1, <1>4 DEF WalkInv, Kick
    <3>2. RingInv(r) /\ w \in r .. wpos /\ ring_wptr_words = w % N
      BY <1>1, <3>1 DEF Stands, PointerInv, Counts
    <3>3. FirstOut(ring_wptr_words) \in 0 .. issued + 1
      BY <1>1, <3>2, FirstOutIs DEF RingInv
    <3>4. FirstOut(ring_wptr_words)' = FirstOut(ring_wptr_words)
      BY <2>1 DEF FirstOut
    <3> QED
      BY <1>1, <2>1, <3>3, <3>4 DEF Counts
  <2>2. CASE async
    <3>1. pending_wptr_raw' = wpos % N /\ capture_pending' = TRUE
      BY <1>4, <2>2 DEF Kick
    <3>2. FirstOut(pending_wptr_raw)' = issued + 1
      BY <2>1, <3>1 DEF FirstOut
    <3>3. FirstOut(pending_wptr_raw)' = kicked' + 1
      BY <1>1, <2>1, <3>2 DEF Counts
    <3> QED
      BY <2>1, <2>2, <2>4, <3>1, <3>3 DEF KickInv
  <2>3. CASE ~async
    <3>1. pc'["guest"] = "kick"
      BY <1>1, <1>4, <2>3 DEF Kick, Goto, CountTypes, Threads
    <3> QED
      BY <2>1, <2>3, <2>4, <3>1 DEF KickInv
  <2> QED
    BY <2>2, <2>3
<1>5. CASE MmioWrite
  <2>1. /\ UNCHANGED <<async, kicked, ring, wpos, issued, pending_wptr_raw, ring_wptr_words>>
        /\ pc["guest"] = "idle" /\ (capture_pending => capture_pending')
        /\ Goto("guest", "idle") \/ Goto("guest", "resume")
    BY <1>5 DEF MmioWrite, TryResume, guestVars, kickVars
  <2>2. pc'["worker"] = pc["worker"] /\ pc'["guest"] # "kick"
    BY <1>1, <2>1 DEF Goto, CountTypes, Threads
  <2> QED
    BY <1>1, <2>1, <2>2, KickSame
<1>6. CASE WorkerWake
  <2>1. /\ UNCHANGED <<async, kicked, ring, wpos, issued, pending_wptr_raw, ring_wptr_words>>
        /\ Goto("worker", "lock") /\ async
    BY <1>6 DEF WorkerWake, guestVars, kickVars
  <2>2. pc'["worker"] = "lock" /\ pc'["guest"] = pc["guest"]
    BY <1>1, <2>1 DEF Goto, CountTypes, Threads
  <2> QED
    BY <1>1, <2>1, <2>2, KickSame
<1>7. CASE WriteFence \/ Stop \/ Deactivate \/ UNCHANGED vars
  <2>1. UNCHANGED <<async, kicked, ring, wpos, issued, pending_wptr_raw, ring_wptr_words, capture_pending, pc>>
    BY <1>7 DEF WriteFence, Stop, Deactivate, vars, guestVars, kickVars, wakeVars
  <2> QED
    BY <1>1, <2>1, KickSame
<1> QED
  BY <1>2, <1>3, <1>4, <1>5, <1>6, <1>7 DEF GuestStep

LEMMA PumpKicks ==
  ASSUME Inv, PumpLoop
  PROVE  KickInv'
<1>1. KickInv /\ CountTypes
  BY DEF Inv, IInv
<1>2. /\ UNCHANGED <<async, kicked, ring, wpos, issued, pending_wptr_raw, ring_wptr_words>>
      /\ capture_pending => capture_pending'
  BY DEF PumpLoop, PumpTake, PumpDispatch, PumpReadSeen, PumpTakeAcks, PumpBlanket, PumpPoll, PumpWake,
         PumpUnchanged, TryResume, guestVars, kickVars, wakeVars
<1>3. pc' = pc \/ \E label : Goto("pump", label)
  BY DEF PumpLoop, PumpTake, PumpDispatch, PumpReadSeen, PumpTakeAcks, PumpBlanket, PumpPoll, PumpWake, TryResume
<1>4. pc'["guest"] = pc["guest"] /\ pc'["worker"] = pc["worker"]
  BY <1>1, <1>3 DEF Goto, CountTypes, Threads
<1> QED
  BY <1>1, <1>2, <1>4, KickSame

\* A kick, a resume and the worker take the write pointer they have to take.
LEMMA StartKicks ==
  ASSUME Inv, KickWalk \/ Resume("guest") \/ Resume("pump") \/ WorkerWalk
  PROVE  KickInv'
<1>1. KickInv /\ CountTypes /\ Counts /\ PlaceInv
  BY DEF Inv, IInv, WalkInv
<1>2. ASSUME NEW t \in Threads, NEW raw, StartWalk(t, raw), UNCHANGED wakeVars
      PROVE  /\ UNCHANGED <<async, kicked, ring, wpos, issued, pending_wptr_raw, capture_pending>>
             /\ ring_wptr_words' = raw /\ pc' = [pc EXCEPT ![t] = "walk"]
  BY <1>2 DEF StartWalk, Goto, guestVars, wakeVars
<1>3. CASE KickWalk
  <2>1. /\ UNCHANGED <<async, kicked, ring, wpos, issued, pending_wptr_raw, capture_pending>>
        /\ ring_wptr_words' = wpos % N /\ pc["guest"] = "kick"
    BY <1>2, <1>3 DEF KickWalk, Threads
  <2>2. ~async /\ kicked = issued /\ pc'["guest"] = "walk"
    BY <1>1, <1>2, <1>3, <2>1 DEF PlaceInv, KickInv, KickWalk, CountTypes, Threads
  <2>3. FirstOut(ring_wptr_words)' = issued + 1
    BY <2>1 DEF FirstOut
  <2>4. issued + 1 <= kicked' + 1
    BY <1>1, <2>1, <2>2 DEF Counts
  <2> QED
    BY <2>1, <2>2, <2>3, <2>4 DEF KickInv
<1>4. ASSUME NEW t \in {"guest", "pump"}, Resume(t) PROVE KickInv'
  <2>1. /\ UNCHANGED <<async, kicked, ring, wpos, issued, pending_wptr_raw, capture_pending>>
        /\ ring_wptr_words' = last_kick_wptr_raw /\ pc' = [pc EXCEPT ![t] = "walk"] /\ pc[t] = "resume"
    BY <1>2, <1>4 DEF Resume, Threads
  <2>2. pc["guest"] # "setup"
    BY <1>1, <2>1 DEF PlaceInv, Threads
  <2>3. last_kick_wptr_raw = ring_wptr_words
    BY <2>2 DEF Inv, WalkInv, Stands, PointerInv
  <2>4. pc'["worker"] = pc["worker"] /\ (pc'["guest"] = "kick" <=> pc["guest"] = "kick")
    BY <1>1, <2>1 DEF CountTypes, Threads
  <2> QED
    BY <1>1, <2>1, <2>3, <2>4, KickSame
<1>5. CASE WorkerWalk
  <2>1. /\ UNCHANGED <<async, kicked, ring, wpos, issued, pending_wptr_raw>>
        /\ ring_wptr_words' = pending_wptr_raw /\ pc["worker"] = "lock" /\ pc' = [pc EXCEPT !["worker"] = "walk"]
    BY <1>2, <1>5 DEF WorkerWalk, Threads
  <2>2. async /\ pc'["guest"] = pc["guest"]
    BY <1>1, <2>1 DEF PlaceInv
  <2>3. /\ FirstOut(ring_wptr_words)' = FirstOut(pending_wptr_raw)
        /\ FirstOut(pending_wptr_raw)' = FirstOut(pending_wptr_raw)
    BY <2>1 DEF FirstOut
  <2>4. FirstOut(pending_wptr_raw) = kicked + 1 /\ kicked + 1 <= kicked + 1
    BY <1>1, <2>2 DEF KickInv, Inv, SlotTypes, Counts
  <2> QED
    BY <1>1, <2>1, <2>2, <2>3, <2>4 DEF KickInv
<1> QED
  BY <1>3, <1>4, <1>5

LEMMA WalkKicks ==
  ASSUME Inv, NEW t \in Threads, Walk(t)
  PROVE  KickInv'
<1>1. KickInv /\ CountTypes
  BY DEF Inv, IInv
<1>2. UNCHANGED <<async, kicked, ring, wpos, issued, pending_wptr_raw, capture_pending, ring_wptr_words>>
  BY DEF Walk, Execute, CaughtUp, PopFrame, Draw, Swap, Interrupt, SetMask, WaitPasses, Park, Call, Report, Done,
         guestVars, kickVars, wakeVars
<1>3. pc[t] \in Critical /\ (pc' = pc \/ \E label \in {"walk", "mask", "report", "idle", "sleep", "wait"} : Goto(t, label))
  BY DEF Walk, Execute, CaughtUp, PopFrame, Draw, Swap, Interrupt, SetMask, WaitPasses, Park, Call, Report, At,
         Walking, Critical, Threads
<1>4. /\ pc["worker"] = "lock" => pc'["worker"] = "lock"
      /\ pc'["guest"] = "kick" <=> pc["guest"] = "kick"
  BY <1>1, <1>3 DEF Goto, CountTypes, Critical, Threads
<1> QED
  BY <1>1, <1>2, <1>4, KickSame

-----------------------------------------------------------------------------
LEMMA SlotsStart == Init => SlotTypes /\ KickInv
<1> SUFFICES ASSUME Init PROVE SlotTypes /\ KickInv
  OBVIOUS
<1>1. SlotTypes
  BY Words, GpuPumpAssumption DEF Init, SlotTypes, PumpPlaces, WorkerPlaces, Threads
<1>2. 0 % N = 0
  BY Words
<1>3. FirstOut(0) = 1
  BY <1>2 DEF Init, FirstOut
<1> QED
  BY <1>1, <1>3 DEF Init, KickInv

LEMMA SlotsStep == Inv /\ WalkInv' /\ [Next]_vars => SlotTypes' /\ KickInv'
<1> SUFFICES ASSUME Inv, WalkInv', [Next]_vars PROVE SlotTypes' /\ KickInv'
  OBVIOUS
<1>1. PlaceInv /\ "guest" \in Threads /\ "pump" \in Threads /\ "worker" \in Threads
  BY DEF Inv, WalkInv, Threads
<1>2. CASE GuestStep \/ WriteFence \/ Stop \/ Deactivate \/ WorkerWake \/ UNCHANGED vars
  BY <1>2, GuestSlots, GuestKicks
<1>3. CASE PumpLoop
  BY <1>3, PumpSlots, PumpKicks
<1>4. CASE KickWalk \/ Resume("guest") \/ Resume("pump") \/ WorkerWalk
  <2>1. pc["guest"] # "setup" /\ \E t \in Threads : \E raw : StartWalk(t, raw)
    BY <1>1, <1>4 DEF KickWalk, Resume, WorkerWalk, PlaceInv
  <2> QED
    BY <1>4, <2>1, StartSlots, StartKicks
<1>5. ASSUME NEW t \in Threads, Walk(t) PROVE SlotTypes' /\ KickInv'
  BY <1>5, WalkSlots, WalkKicks
<1> QED
  BY <1>1, <1>2, <1>3, <1>4, <1>5 DEF Next, GuestWalk, PumpWalk, WorkerStep

LEMMA AllHold == Spec => []Inv
<1>1. Spec => []WalkInv
  BY BlankHolds, StreamStep, PTL DEF Spec
<1>2. IInv /\ WalkInv /\ SlotTypes /\ KickInv /\ WalkInv' /\ [Next]_vars => SlotTypes' /\ KickInv'
  BY SlotsStep DEF Inv
<1>3. IInv /\ WalkInv /\ SlotTypes /\ KickInv => Inv
  BY DEF Inv
<1> QED
  BY <1>1, <1>2, <1>3, Invariance, SlotsStart, PTL DEF Spec

\* Any ring, buffers, scripts, CPUs and bounds: the types; among them that the frames
\* of pm4_stack stay within the ring and the buffers they walk, and that no command
\* is executed that was not issued (native_backend_vk.cpp, RunPm4Machine).
THEOREM TypeCorrect == Spec => []TypeOK
<1>1. Inv => TypeOK
  <2> SUFFICES ASSUME Inv PROVE TypeOK
    OBVIOUS
  <2>1. Counts /\ PlaceInv /\ SlotTypes /\ CountTypes
    BY DEF Inv, IInv, WalkInv
  <2>2. /\ parsed \in 0 .. issued
        /\ \A i \in DOMAIN pm4_stack :
             /\ pm4_stack[i].buf \in Bufs <=> i > 1
             /\ pm4_stack[i].pos \in 0 .. IF i = 1 THEN N - 1 ELSE Len(pm4_stack[i].code)
    BY FramesTyped DEF Inv
  <2>3. early \in 0 .. pending_swap_acks
    BY <2>1 DEF CountTypes, SlotTypes
  <2> QED
    BY <2>1, <2>2, <2>3 DEF TypeOK, Counts, PlaceInv, SlotTypes, CountTypes, PumpPlaces, WorkerPlaces
<1> QED
  BY <1>1, AllHold, PTL

LEMMA KicksAreOwed == Inv => KickIsOwed
<1> SUFFICES ASSUME Inv, kicked > parsed, ~pm4_parked, ~capture_pending,
                    \A t \in Threads : pc[t] \notin {"kick", "lock", "walk", "mask"}
             PROVE  FALSE
  BY DEF KickIsOwed
<1>1. Counts /\ WalkInv /\ SlotTypes /\ KickInv /\ "guest" \in Threads /\ "worker" \in Threads
  BY DEF Inv, WalkInv, Threads
<1>2. pc["guest"] # "setup"
  <2>1. parsed \in Nat /\ kicked \in 0 .. issued /\ kicked > 0
    BY <1>1 DEF Counts, SlotTypes
  <2>2. issued # 0
    BY <2>1
  <2> QED
    BY <1>1, <2>2 DEF WalkInv, Blank
<1>3. PICK r \in Nat, c \in Nat, w \in Nat, k \in Nat : Stands(r, c, w, k)
  BY <1>1, <1>2 DEF WalkInv
<1>4. /\ RingInv(r) /\ r <= c /\ PointerInv(c, w, k) /\ FrameInv(r, c) /\ c <= w /\ w \in r .. wpos /\ c <= wpos
      /\ ring_wptr_words = w % N
  BY <1>1, <1>3 DEF Stands, PointerInv, Counts
<1>5. Len(pm4_stack) = 1 /\ Top.pos = ring_wptr_words
  BY <1>1, <1>2 DEF WalkInv, RestInv
<1>6. AtRing(c)
  BY <1>1, <1>4, <1>5, OuterTop, InnerTop DEF FrameInv
<1>7. Top = Base(c) /\ IsRing(Top) /\ (Top.pos # FrameEnd(Top) <=> c < w)
  BY <1>1, <1>4, <1>6, RingTop
<1>8. c = w
  BY <1>4, <1>5, <1>7 DEF FrameEnd
<1>9. FirstOut(ring_wptr_words) = parsed + 1
  BY <1>1, <1>4, <1>6, <1>8, FirstOutIs DEF AtRing
<1>10. kicked < FirstOut(ring_wptr_words)
  BY <1>1 DEF KickInv, SlotTypes, Counts
<1> QED
  BY <1>1, <1>9, <1>10 DEF Counts, SlotTypes

-----------------------------------------------------------------------------
(* The abstract stream.                                                    *)

LEMMA Back ==
  ASSUME NEW x \in Int, NEW y \in Int, NEW z \in Int
  PROVE  (x - y = 0 <=> y = x) /\ x - (x - y) = y /\ (z + 1) - 1 = z
  OBVIOUS

\* What the guest takes for consumed lies before the word its read pointer stands at.
LEMMA FreedIs ==
  ASSUME Counts, NEW r \in Nat, RingInv(r)
  PROVE  Freed = NoAt(r) - 1
<1>1. r <= wpos /\ wpos - r < N /\ rptr % N = r % N /\ rptr \in Int /\ wpos \in Nat /\ issued \in Nat
  BY DEF Counts, RingInv
<1>2. Unread = wpos - r
  BY <1>1, Distance DEF Unread
<1>3. Freed = IF wpos - r = 0 THEN issued ELSE ring[(wpos - (wpos - r)) % N].no - 1
  BY <1>2 DEF Freed
<1>4. wpos \in Int /\ issued \in Int /\ r \in Int
  BY <1>1
<1>5. (wpos - r = 0 <=> r = wpos) /\ wpos - (wpos - r) = r /\ (issued + 1) - 1 = issued
  BY <1>4, Back
<1>6. NoAt(r) = IF r = wpos THEN issued + 1 ELSE ring[r % N].no
  BY DEF NoAt
<1> QED
  BY <1>3, <1>5, <1>6

LEMMA FreedIsNext ==
  ASSUME Counts', NEW r \in Nat, RingInv(r)'
  PROVE  Freed' = NoAt(r)' - 1
<1>1. r <= wpos' /\ wpos' - r < N /\ rptr' % N = r % N /\ rptr' \in Int /\ wpos' \in Nat /\ issued' \in Nat
  BY DEF Counts, RingInv
<1>2. Unread' = wpos' - r
  BY <1>1, Distance DEF Unread
<1>3. Freed' = IF wpos' - r = 0 THEN issued' ELSE ring'[(wpos' - (wpos' - r)) % N].no - 1
  BY <1>2 DEF Freed
<1>4. wpos' \in Int /\ issued' \in Int /\ r \in Int
  BY <1>1
<1>5. (wpos' - r = 0 <=> r = wpos') /\ wpos' - (wpos' - r) = r /\ (issued' + 1) - 1 = issued'
  BY <1>4, Back
<1>6. NoAt(r)' = IF r = wpos' THEN issued' + 1 ELSE ring'[r % N].no
  BY DEF NoAt
<1> QED
  BY <1>3, <1>5, <1>6

\* A thread that has a command to read has one that was kicked.
LEMMA ReadIsKicked ==
  ASSUME Inv, NEW t \in Threads, pc[t] \in Critical, Top.pos # FrameEnd(Top)
  PROVE  parsed < kicked
<1>1. Counts /\ WalkInv /\ parsed \in Nat /\ kicked \in Nat
  BY DEF Inv, WalkInv, SlotTypes, Counts
<1>2. PICK r \in Nat, c \in Nat, w \in Nat, k \in Nat : Stands(r, c, w, k)
  BY <1>1, Walks
<1>3. /\ RingInv(r) /\ r <= c /\ PointerInv(c, w, k) /\ FrameInv(r, c) /\ c <= w /\ w \in r .. wpos /\ c <= wpos
      /\ c \in r .. wpos /\ ring_wptr_words = w % N
  BY <1>1, <1>2 DEF Stands, PointerInv, Counts
<1>4. /\ \A i \in r .. wpos : NoAt(i) \in Int
      /\ \A i \in r .. w : NoAt(i) <= NoAt(w)
  <2>1. \A i \in r .. w : i \in r .. wpos /\ i <= w
    BY <1>1, <1>3 DEF Counts
  <2> QED
    BY <1>3, <2>1 DEF RingInv
<1>5. NoAt(w) \in Int /\ NoAt(w) <= kicked + 1
  <2>1. NoAt(w) = FirstOut(ring_wptr_words)
    BY <1>1, <1>3, FirstOutIs
  <2> QED
    BY <1>3, <1>4, <2>1 DEF Inv, KickInv
<1>6. CASE AtRing(c)
  <2>1. c < w /\ c < wpos /\ WordInv(c) /\ Fetched = ring[c % N] /\ Fetched.no = parsed + 1
    BY <1>1, <1>3, <1>6, RingTop
  <2>2. Size(script[c + 1]) \in Nat /\ Size(script[c + 1]) >= 1
    <3>1. c < Len(script)
      BY <1>1, <2>1, Long DEF Counts
    <3>2. script[c + 1].op = "ib" => WellFormed(script[c + 1].arg)
      BY <1>1, <3>1, Issued
    <3>3. script[c + 1].op = "ib" =>
            Len(script[c + 1].arg.outer) \in Nat /\ Len(script[c + 1].arg.inner) \in Nat
      BY <3>2, Buffer
    <3> DEFINE x == Len(script[c + 1].arg.outer)
               y == Len(script[c + 1].arg.inner)
    <3>4. Size(script[c + 1]) = IF script[c + 1].op = "ib" THEN 1 + x + y ELSE 1
      BY DEF Size
    <3> HIDE DEF x, y
    <3>5. script[c + 1].op = "ib" => x \in Nat /\ y \in Nat
      BY <3>3 DEF x, y
    <3> QED
      BY <3>4, <3>5
  <2>3. NoAt(c + 1) = parsed + 1 + Size(script[c + 1])
    BY <2>1 DEF WordInv
  <2>4. c + 1 \in r .. w
    BY <1>3, <2>1
  <2>5. NoAt(c + 1) <= NoAt(w)
    BY <1>4, <2>4
  <2> QED
    BY <1>1, <1>5, <2>2, <2>3, <2>5
<1>7. ASSUME Called(r, c) PROVE parsed + 1 < NoAt(c) => parsed < kicked
  <2>1. NoAt(c) \in Int /\ NoAt(c) <= NoAt(w)
    BY <1>3, <1>4
  <2> QED
    BY <1>1, <1>5, <2>1
<1>8. ASSUME Called(r, c)
      PROVE  /\ From(c) \in Nat /\ Len(Prog(c).outer) \in Nat /\ Len(Prog(c).inner) \in Nat
             /\ CallAt(Prog(c)) \in Nat
             /\ NoAt(c) = From(c) + Len(Prog(c).outer) + Len(Prog(c).inner)
  BY <1>1, <1>3, <1>8, InBuffer, Buffer
<1>9. ASSUME NEW j \in Nat, InOuter(r, c, j) PROVE parsed < kicked
  <2>1. Called(r, c) /\ j < Len(Prog(c).outer)
    BY <1>1, <1>3, <1>9, OuterTop DEF InOuter
  <2> DEFINE x == IF j >= CallAt(Prog(c)) THEN Len(Prog(c).inner) ELSE 0
             y == Len(Prog(c).outer)
             z == Len(Prog(c).inner)
  <2>2. /\ parsed + 1 = From(c) + j + x /\ x \in Nat /\ x <= z /\ y \in Nat /\ z \in Nat /\ j < y
        /\ NoAt(c) = From(c) + y + z /\ From(c) \in Nat
    BY <1>8, <1>9, <2>1 DEF InOuter
  <2> HIDE DEF x, y, z
  <2>3. parsed + 1 < NoAt(c)
    BY <1>1, <2>2
  <2> QED
    BY <1>7, <2>1, <2>3
<1>10. ASSUME NEW m \in Nat, InInner(r, c, m) PROVE parsed < kicked
  <2>1. Called(r, c) /\ m < Len(Prog(c).inner)
    BY <1>1, <1>3, <1>10, InnerTop DEF InInner
  <2> DEFINE x == CallAt(Prog(c))
             y == Len(Prog(c).outer)
             z == Len(Prog(c).inner)
  <2>2. /\ parsed + 1 = From(c) + x + m /\ x \in Nat /\ x <= y /\ y \in Nat /\ z \in Nat /\ m < z
        /\ NoAt(c) = From(c) + y + z /\ From(c) \in Nat
    BY <1>8, <1>10, <2>1 DEF InInner
  <2> HIDE DEF x, y, z
  <2>3. parsed + 1 < NoAt(c)
    BY <1>1, <2>2
  <2> QED
    BY <1>7, <2>1, <2>3
<1> QED
  BY <1>3, <1>6, <1>9, <1>10 DEF FrameInv

\* What the stream is shown as.
Shown == <<ring, wpos, rptr, issued, kicked, parsed>>

LEMMA ShownSame == UNCHANGED Shown => UNCHANGED Stream!vars
  BY DEF Shown, Stream!vars, Freed, Unread

\* The machine executes the next command.
LEMMA DoneRefines ==
  ASSUME Inv, NEW t \in Threads, Walking(t) \/ pc[t] = "mask", Done,
         UNCHANGED <<ring, wpos, rptr, issued, kicked>>
  PROVE  Stream!Execute
<1>1. pc[t] \in Critical /\ Top.pos # FrameEnd(Top)
  BY DEF Inv, WalkInv, PlaceInv, Walking, Critical
<1>2. parsed < kicked
  BY <1>1, ReadIsKicked
<1>3. parsed' = parsed + 1
  BY StreamIsWalked DEF Inv, Done, CommandsInOrder
<1>4. Freed' = Freed
  BY DEF Freed, Unread
<1> QED
  BY <1>2, <1>3, <1>4 DEF Stream!Execute

LEMMA IssueRefines ==
  ASSUME Inv, Inv', Issue
  PROVE  Stream!Issue
<1>1. Counts /\ Counts' /\ UNCHANGED <<kicked, parsed>> /\ pc["guest"] = "idle"
  BY DEF Inv, WalkInv, Issue, walkVars
<1>2. PICK r \in Nat : RingInv(r)
  BY <1>1 DEF Inv, WalkInv, Stands
<1>3. RingInv(r)' /\ NoAt(r)' = NoAt(r)
  <2>1. r \in r .. wpos
    BY <1>1, <1>2 DEF RingInv, Counts
  <2> QED
    BY <1>1, <1>2, <2>1, IssueRing, IssueIsFree
<1>4. Freed' = Freed
  BY <1>1, <1>2, <1>3, FreedIs, FreedIsNext
<1>5. issued' \in Nat /\ issued' > issued
  BY <1>1, <1>2, IssueRing DEF Counts
<1> QED
  BY <1>1, <1>4, <1>5 DEF Stream!Issue

\* What is reported is executed.
LEMMA ReportRefines ==
  ASSUME Inv, Inv', NEW t \in Threads, Report(t)
  PROVE  Stream!Free
<1>1. Counts /\ Counts' /\ WalkInv /\ UNCHANGED <<ring, wpos, issued, kicked, parsed>>
  BY DEF Inv, WalkInv, Report, guestVars, walkVars
<1>2. PICK r \in Nat, p \in Nat : RingInv(r) /\ RingInv(p)' /\ p \in r .. wpos /\ NoAt(p) <= parsed + 1
  BY <1>1, ReportHolds
<1>3. Freed = NoAt(r) - 1 /\ Freed' = NoAt(p) - 1
  <2>1. NoAt(p)' = NoAt(p)
    BY <1>1 DEF NoAt
  <2> QED
    BY <1>1, <1>2, <2>1, FreedIs, FreedIsNext
<1>4. NoAt(r) \in Int /\ NoAt(p) \in Int /\ NoAt(r) <= NoAt(p)
  <2>1. r \in r .. wpos /\ r <= p
    BY <1>1, <1>2 DEF Counts
  <2> QED
    BY <1>2, <2>1 DEF RingInv
<1> QED
  BY <1>1, <1>2, <1>3, <1>4 DEF Stream!Free, Counts

LEMMA StepRefines == Inv /\ Inv' /\ [Next]_vars => [Stream!Next]_(Stream!vars)
<1> SUFFICES ASSUME Inv, Inv', [Next]_vars PROVE [Stream!Next]_(Stream!vars)
  OBVIOUS
<1>1. CASE Issue
  BY <1>1, IssueRefines DEF Stream!Next
<1>2. CASE Kick
  <2>1. UNCHANGED <<ring, wpos, rptr, issued, parsed>> /\ kicked' = issued
    BY <1>2 DEF Kick, guestVars, walkVars
  <2>2. Freed' = Freed
    BY <2>1 DEF Freed, Unread
  <2> QED
    BY <2>1, <2>2 DEF Stream!Kick, Stream!Next
<1>3. ASSUME NEW t \in Threads, Report(t) PROVE Stream!Next
  BY <1>3, ReportRefines DEF Stream!Next
<1>4. ASSUME NEW t \in Threads, Draw(t) \/ Swap(t) \/ SetMask(t) \/ WaitPasses(t) \/ Call(t)
      PROVE  Stream!Next
  <2>1. /\ Walking(t) \/ pc[t] = "mask"
        /\ Done /\ UNCHANGED <<ring, wpos, rptr, issued, kicked>>
    BY <1>4 DEF Draw, Swap, SetMask, WaitPasses, Call, At, Done, guestVars
  <2> QED
    BY <2>1, DoneRefines DEF Stream!Next
<1>5. ASSUME NEW t \in Threads, CaughtUp(t) \/ PopFrame(t) \/ Interrupt(t) \/ Park(t)
      PROVE  UNCHANGED Stream!vars
  BY <1>5, ShownSame DEF CaughtUp, PopFrame, Interrupt, Park, Shown, guestVars, walkVars
<1>6. ASSUME NEW t \in Threads, Walk(t) PROVE [Stream!Next]_(Stream!vars)
  BY <1>3, <1>4, <1>5, <1>6 DEF Walk, Execute
<1>7. CASE SetUp \/ MmioWrite \/ KickWalk \/ Resume("guest") \/ Resume("pump") \/ WorkerWalk \/ WorkerWake
  BY <1>7, ShownSame DEF SetUp, MmioWrite, TryResume, KickWalk, Resume, WorkerWalk, StartWalk, WorkerWake, Shown,
       guestVars, walkVars
<1>8. CASE PumpLoop
  BY <1>8, ShownSame DEF PumpLoop, PumpTake, PumpDispatch, PumpReadSeen, PumpTakeAcks, PumpBlanket, PumpPoll,
       PumpWake, PumpUnchanged, TryResume, Shown, guestVars, walkVars
<1>9. CASE WriteFence \/ Stop \/ Deactivate \/ UNCHANGED vars
  BY <1>9, ShownSame DEF WriteFence, Stop, Deactivate, vars, Shown, guestVars, walkVars
<1> QED
  BY <1>1, <1>2, <1>6, <1>7, <1>8, <1>9 DEF Next, GuestStep, GuestWalk, PumpWalk, WorkerStep, Threads

LEMMA StartRefines == Init => Stream!Init
<1>1. 0 % N = 0
  BY Words
<1> QED
  BY <1>1 DEF Init, Stream!Init, Freed, Unread

\* Any ring, buffers and scripts: the machine executes what the guest issued, each
\* command once and in order, although the guest writes over words and buffers as
\* soon as the read pointer has passed them; a machine that is not parked owes no
\* walk, and what was kicked and not executed has somebody who is going to walk.
\* Ring, buffers, threads and parking left aside, that is CommandStream: nothing is
\* executed that was not kicked, and nothing is freed that was not executed
\* (native_backend_vk.cpp, RunPm4Machine, WriteRingRptrLocked, TryResumePm4,
\* OnRingBufferKick, CaptureWorkerMain).
THEOREM NothingSkipped == Spec => NothingIsSkipped
<1>1. Inv => CommandsInOrder /\ NotParkedIsDone /\ KickIsOwed
  BY StreamIsWalked, KicksAreOwed DEF Inv
<1> QED
  BY <1>1, StartRefines, StepRefines, AllHold, PTL DEF Spec, NothingIsSkipped, Stream!Spec
=============================================================================
