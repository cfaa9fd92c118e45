-------------------------------- MODULE GpuPump --------------------------------
(***************************************************************************)
(* The guest's command ring and the GPU pump                               *)
(* (src/renderer/native_backend_vk.cpp).  The guest writes commands into a *)
(* ring and into indirect buffers and kicks; the PM4 machine walks them on *)
(* the kicking thread, on the pump thread or on the capture worker, always *)
(* under pm4_mutex, and parks at a WAIT_REG_MEM that is not satisfied.     *)
(* After each walk the consumed position is written where the guest reads  *)
(* it, and the guest reuses what lies before it.  The pump gives the guest *)
(* source-1 interrupts: those PM4_INTERRUPT asked for, and as long as none *)
(* has been seen one for each swap.                                        *)
(*                                                                         *)
(* A command takes one word, and carries the number the guest gave it in   *)
(* stream order.  Register writes, draws and shader loads are one command, *)
(* "draw": what they capture is in FrameQueue and VertexRing.  The guest   *)
(* is external: it never fills the last free word and reuses what the read *)
(* pointer has passed.  The pump's sleep is timed, so that notifying it    *)
(* only saves time and is left out, as are the vblank interrupt and the    *)
(* bound of 2^22 packets for one walk.                                     *)
(*                                                                         *)
(* Operators named Bad... are faulty variants the properties are tested    *)
(* against; Next uses none.                                                *)
(***************************************************************************)
EXTENDS Integers, Sequences, FiniteSets

CONSTANTS
  N,           \* words of the ring
  Word,        \* 2^32 in the code: the read pointer is an unsigned word
  Cpus,        \* CPU numbers
  Bufs,        \* the guest's indirect buffers
  Scripts,     \* what it issues: sequences of commands [op, arg]; the argument of
               \* "ib" is what it puts into the buffer, [outer, inner], where
               \* "call" in outer calls inner
  Asyncs,      \* whether RESTUFF_ASYNC_CAPTURE is set
  MaxFence,    \* bound: values of the fence its waits poll
  None

Threads == {"guest", "pump", "worker"}

\* Commands, in the ring or in a buffer.
Commands == [op : {"draw", "swap"}, arg : {0}] \cup [op : {"int"}, arg : SUBSET Cpus]
              \cup [op : {"wait"}, arg : 0 .. MaxFence]

\* A buffer calls one other at most, which calls none.
WellFormed(p) ==
  /\ p.outer \in Seq(Commands \cup [op : {"call"}, arg : {0}]) /\ p.inner \in Seq(Commands)
  /\ \A i, j \in DOMAIN p.outer : p.outer[i].op = "call" /\ p.outer[j].op = "call" => i = j
  /\ p.inner # <<>> => \E i \in DOMAIN p.outer : p.outer[i].op = "call"

ASSUME GpuPumpAssumption ==
  /\ N \in Nat \ {0} /\ Word \in Nat \ {0} /\ Word % N = 0
  /\ Cpus \subseteq Nat /\ IsFiniteSet(Cpus)
  /\ Asyncs \subseteq BOOLEAN /\ MaxFence \in Nat
  /\ None \notin Threads /\ None \notin Bufs
  /\ \A s \in Scripts : \A i \in DOMAIN s : IF s[i].op = "ib" THEN WellFormed(s[i].arg) ELSE s[i] \in Commands
  /\ \A s \in Scripts : Len(s) \in Nat /\ DOMAIN s = 1 .. Len(s)

VARIABLES
  async,
  script,              \* what the guest is going to issue
  \* guest memory
  ring, wpos,          \* words of the ring; words the guest has written
  ibmem, owner,        \* indirect buffers, and the ring position that calls each
  rptr,                \* the write-back slot
  fence,               \* what the waits poll
  issued, kicked,      \* commands numbered so far, and at the last kick
  \* the PM4 machine
  mutex,               \* pm4_mutex: its holder
  pc,                  \* where each thread stands
  pm4_stack, pm4_parked,
  ring_wptr_words, last_kick_wptr_raw, ring_ib_call_pos,
  pending_wptr_raw, capture_pending,
  parsed,              \* history: number of the last command executed
  \* interrupts
  seen_pm4_interrupt, pending_interrupt_mask, pending_swap_acks,
  hand,                \* pump: CPUs of the mask it took
  pm4_int, batch, handed_over, \* pump: flag and acknowledgements it took
  early,               \* history: pending acknowledgements of swaps before the flag
  raised, given, swaps, blanket, \* history: interrupts asked for and delivered
  pump_running, active

guestVars == <<ring, wpos, ibmem, owner, issued>>
walkVars  == <<pm4_stack, pm4_parked, ring_ib_call_pos, parsed>>
kickVars  == <<ring_wptr_words, last_kick_wptr_raw>>
wakeVars  == <<pending_wptr_raw, capture_pending>>
raiseVars == <<seen_pm4_interrupt, pending_interrupt_mask, pending_swap_acks, early, raised, swaps>>
pumpVars  == <<hand, pm4_int, batch, handed_over, given, blanket>>
lifeVars  == <<pump_running, active>>
vars == <<async, script, guestVars, kicked, rptr, fence, mutex, pc, walkVars, kickVars, wakeVars, raiseVars,
          pumpVars, lifeVars>>

Nop == [op |-> "draw", arg |-> 0, no |-> 0]

Init ==
  /\ async \in Asyncs /\ script \in Scripts
  /\ ring = [i \in 0 .. N - 1 |-> Nop] /\ wpos = 0
  /\ ibmem = [b \in Bufs |-> [outer |-> <<>>, inner |-> <<>>]]
  /\ owner = [b \in Bufs |-> -1]
  /\ rptr = 0 /\ fence = 0 /\ issued = 0 /\ kicked = 0
  /\ mutex = None
  /\ pc = [t \in Threads |-> IF t = "guest" THEN "setup" ELSE IF t = "pump" THEN "off" ELSE "wait"]
  /\ pm4_stack = <<>> /\ pm4_parked = FALSE /\ ring_ib_call_pos = 0 /\ parsed = 0
  /\ ring_wptr_words = 0 /\ last_kick_wptr_raw = 0
  /\ pending_wptr_raw = 0 /\ capture_pending = FALSE
  /\ seen_pm4_interrupt = FALSE /\ pending_interrupt_mask = {} /\ pending_swap_acks = 0
  /\ hand = {} /\ pm4_int = FALSE /\ batch = 0 /\ handed_over = FALSE
  /\ early = 0 /\ swaps = 0 /\ blanket = 0
  /\ raised = [c \in Cpus |-> 0] /\ given = [c \in Cpus |-> 0]
  /\ pump_running = FALSE /\ active = TRUE

Goto(t, label) == pc' = [pc EXCEPT ![t] = label]

-----------------------------------------------------------------------------
(* The guest.                                                              *)

RingFrame == [buf |-> None, pos |-> 0, code |-> <<>>]

\* SetRingBuffer and SetRingWritebackSlot, then SetGuestInterruptCallback, which
\* starts the threads.
SetUp ==
  /\ pc["guest"] = "setup"
  /\ pm4_stack' = <<RingFrame>>
  /\ ring_wptr_words' = 0 /\ pending_wptr_raw' = 0 /\ pm4_parked' = FALSE
  /\ pump_running' = TRUE
  /\ pc' = [pc EXCEPT !["guest"] = "idle", !["pump"] = "top"]
  /\ UNCHANGED <<async, script, guestVars, kicked, rptr, fence, mutex, ring_ib_call_pos, parsed,
                 last_kick_wptr_raw, capture_pending, raiseVars, pumpVars, active>>

\* Words the guest takes for unread, going by the slot.
Unread == (wpos - rptr) % N

\* Where a buffer calls another one; behind its end if it does not.
CallAt(p) == IF \E i \in DOMAIN p.outer : p.outer[i].op = "call"
             THEN CHOOSE i \in DOMAIN p.outer : p.outer[i].op = "call"
             ELSE Len(p.outer) + 1

\* The numbers of the commands of a program in stream order, from `first' on.
Numbered(p, first) ==
  LET at == CallAt(p)
      Cmd(c, no) == [op |-> c.op, arg |-> c.arg, no |-> no]
  IN [outer |-> [i \in 1 .. Len(p.outer) |->
                   Cmd(p.outer[i], first + i - 1 + IF i > at THEN Len(p.inner) ELSE 0)],
      inner |-> [i \in 1 .. Len(p.inner) |-> Cmd(p.inner[i], first + at - 1 + i)]]

\* A buffer is filled again once the read pointer has passed the call.
Reusable(b) == owner[b] < wpos - Unread

\* The next command of the script, a call with its buffer filled.
Issue ==
  /\ pc["guest"] = "idle" /\ Unread < N - 1 /\ wpos < Len(script)
  /\ wpos' = wpos + 1
  /\ LET c == script[wpos + 1]
     IN IF c.op = "ib"
        THEN \E b \in Bufs :
               /\ Reusable(b)
               /\ ring' = [ring EXCEPT ![wpos % N] = [op |-> "ib", arg |-> b, no |-> issued + 1]]
               /\ ibmem' = [ibmem EXCEPT ![b] = Numbered(c.arg, issued + 2)]
               /\ owner' = [owner EXCEPT ![b] = wpos]
               /\ issued' = issued + 1 + Len(c.arg.outer) + Len(c.arg.inner)
        ELSE /\ ring' = [ring EXCEPT ![wpos % N] = [op |-> c.op, arg |-> c.arg, no |-> issued + 1]]
             /\ issued' = issued + 1
             /\ UNCHANGED <<ibmem, owner>>
  /\ UNCHANGED <<async, script, kicked, rptr, fence, mutex, pc, walkVars, kickVars, wakeVars,
                 raiseVars, pumpVars, lifeVars>>

\* The guest's other threads satisfy the waits by writing memory, which no MMIO
\* handler sees.
WriteFence ==
  /\ fence < MaxFence
  /\ fence' = fence + 1
  /\ UNCHANGED <<async, script, guestVars, kicked, rptr, mutex, pc, walkVars, kickVars, wakeVars,
                 raiseVars, pumpVars, lifeVars>>

-----------------------------------------------------------------------------
(* Who walks.                                                              *)

\* OnRingBufferKick: leave the write pointer for the worker, or take the mutex.
Kick ==
  /\ pc["guest"] = "idle" /\ active /\ kicked < issued
  /\ kicked' = issued
  /\ IF async
     THEN /\ pending_wptr_raw' = wpos % N /\ capture_pending' = TRUE
          /\ UNCHANGED pc
     ELSE /\ Goto("guest", "kick")
          /\ UNCHANGED wakeVars
  /\ UNCHANGED <<async, script, guestVars, rptr, fence, mutex, walkVars, kickVars, raiseVars, pumpVars,
                 lifeVars>>

\* RunPm4Machine from its first line, with the write pointer `raw'.
StartWalk(t, raw) ==
  /\ mutex = None /\ mutex' = t
  /\ ring_wptr_words' = raw /\ last_kick_wptr_raw' = raw
  /\ pm4_parked' = FALSE
  /\ Goto(t, "walk")
  /\ UNCHANGED <<async, script, guestVars, kicked, rptr, fence, pm4_stack, ring_ib_call_pos, parsed,
                 raiseVars, pumpVars, lifeVars>>

KickWalk == pc["guest"] = "kick" /\ StartWalk("guest", wpos % N) /\ UNCHANGED wakeVars

\* TryResumePm4, from an MMIO write of the guest or from the pump: the flag is
\* read before the mutex is taken, and the worker has to be told.
BadMustResume == pm4_parked /\ ~async
MustResume    == pm4_parked

TryResume(t, next) ==
  /\ IF MustResume
     THEN IF async THEN capture_pending' = TRUE /\ Goto(t, next)
                   ELSE Goto(t, "resume") /\ UNCHANGED capture_pending
     ELSE Goto(t, next) /\ UNCHANGED capture_pending
  /\ UNCHANGED <<async, script, guestVars, kicked, rptr, fence, mutex, walkVars, kickVars,
                 pending_wptr_raw, raiseVars, pumpVars, lifeVars>>

MmioWrite == pc["guest"] = "idle" /\ pm4_parked /\ TryResume("guest", "idle")

Resume(t) == pc[t] = "resume" /\ StartWalk(t, last_kick_wptr_raw) /\ UNCHANGED wakeVars

\* CaptureWorkerMain: take the wake-up, then the mutex and the last write pointer.
WorkerWake ==
  /\ async /\ pc["worker"] = "wait" /\ capture_pending
  /\ capture_pending' = FALSE
  /\ Goto("worker", "lock")
  /\ UNCHANGED <<async, script, guestVars, kicked, rptr, fence, mutex, walkVars, kickVars,
                 pending_wptr_raw, raiseVars, pumpVars, lifeVars>>

WorkerWalk == pc["worker"] = "lock" /\ StartWalk("worker", pending_wptr_raw) /\ UNCHANGED wakeVars

-----------------------------------------------------------------------------
(* The PM4 machine: one command of the innermost frame.                    *)

Top         == pm4_stack[Len(pm4_stack)]
IsRing(f)   == f.buf = None
FrameEnd(f) == IF IsRing(f) THEN ring_wptr_words ELSE Len(f.code)
Fetched     == IF IsRing(Top) THEN ring[Top.pos] ELSE Top.code[Top.pos + 1]
BadPassed(f) == [f EXCEPT !.pos = @ + 1]
Passed(f)   == [f EXCEPT !.pos = IF IsRing(f) THEN (@ + 1) % N ELSE @ + 1]
Past        == [pm4_stack EXCEPT ![Len(pm4_stack)] = Passed(Top)]

Walking(t) == pc[t] = "walk" /\ Top.pos # FrameEnd(Top)
At(t, op)  == Walking(t) /\ Fetched.op = op

CaughtUp(t) ==
  /\ pc[t] = "walk" /\ Top.pos = FrameEnd(Top) /\ IsRing(Top)
  /\ Goto(t, "report")
  /\ UNCHANGED <<async, script, guestVars, kicked, rptr, fence, mutex, walkVars, kickVars, wakeVars,
                 raiseVars, pumpVars, lifeVars>>

PopFrame(t) ==
  /\ pc[t] = "walk" /\ Top.pos = FrameEnd(Top) /\ ~IsRing(Top)
  /\ pm4_stack' = SubSeq(pm4_stack, 1, Len(pm4_stack) - 1)
  /\ UNCHANGED <<async, script, guestVars, kicked, rptr, fence, mutex, pc, pm4_parked, ring_ib_call_pos,
                 parsed, kickVars, wakeVars, raiseVars, pumpVars, lifeVars>>

\* The command is done.
Done ==
  /\ parsed' = Fetched.no
  /\ UNCHANGED <<async, script, guestVars, kicked, rptr, fence, mutex, pm4_parked, kickVars, wakeVars,
                 pumpVars, lifeVars>>

Draw(t) ==
  /\ At(t, "draw") /\ Done
  /\ pm4_stack' = Past
  /\ UNCHANGED <<pc, ring_ib_call_pos, raiseVars>>

\* PM4_XE_SWAP; that the frame is published is in FrameQueue.
Swap(t) ==
  /\ At(t, "swap") /\ Done
  /\ pm4_stack' = Past
  /\ pending_swap_acks' = pending_swap_acks + 1 /\ swaps' = swaps + 1
  /\ early' = IF seen_pm4_interrupt THEN early ELSE early + 1
  /\ UNCHANGED <<pc, ring_ib_call_pos, seen_pm4_interrupt, pending_interrupt_mask, raised>>

\* PM4_INTERRUPT: the flag first, then the mask.
Interrupt(t) ==
  /\ At(t, "int")
  /\ seen_pm4_interrupt' = TRUE
  /\ Goto(t, "mask")
  /\ UNCHANGED <<async, script, guestVars, kicked, rptr, fence, mutex, walkVars, kickVars, wakeVars,
                 pending_interrupt_mask, pending_swap_acks, early, raised, swaps, pumpVars,
                 lifeVars>>

SetMask(t) ==
  /\ pc[t] = "mask" /\ Done
  /\ pending_interrupt_mask' = pending_interrupt_mask \cup Fetched.arg
  /\ raised' = [c \in Cpus |-> raised[c] + IF c \in Fetched.arg THEN 1 ELSE 0]
  /\ pm4_stack' = Past
  /\ Goto(t, "walk")
  /\ UNCHANGED <<ring_ib_call_pos, seen_pm4_interrupt, pending_swap_acks, early, swaps>>

\* PM4_WAIT_REG_MEM on memory.
WaitPasses(t) ==
  /\ At(t, "wait") /\ fence >= Fetched.arg /\ Done
  /\ pm4_stack' = Past
  /\ UNCHANGED <<pc, ring_ib_call_pos, raiseVars>>

\* The position goes back to the command.
Park(t) ==
  /\ At(t, "wait") /\ fence < Fetched.arg
  /\ pm4_parked' = TRUE
  /\ Goto(t, "report")
  /\ UNCHANGED <<async, script, guestVars, kicked, rptr, fence, mutex, pm4_stack, ring_ib_call_pos,
                 parsed, kickVars, wakeVars, raiseVars, pumpVars, lifeVars>>

\* PM4_INDIRECT_BUFFER copies the buffer and remembers where the ring called it.
\* The call of one buffer by another lies in the buffer with it.
Callee == IF IsRing(Top) THEN Fetched.arg ELSE Top.buf
Code   == IF IsRing(Top) THEN ibmem[Callee].outer ELSE ibmem[Callee].inner

Call(t) ==
  /\ At(t, "ib") \/ At(t, "call")
  /\ Done
  /\ IF Len(pm4_stack) < 8 /\ Code # <<>>
     THEN /\ pm4_stack' = Append(Past, [buf |-> Callee, pos |-> 0, code |-> Code])
          /\ ring_ib_call_pos' = IF IsRing(Top) THEN Top.pos ELSE ring_ib_call_pos
     ELSE pm4_stack' = Past /\ UNCHANGED ring_ib_call_pos
  /\ UNCHANGED <<pc, raiseVars>>

\* WriteRingRptrLocked: the oldest command that is not consumed.
BadConsumed == pm4_stack[1].pos
Consumed    == IF Len(pm4_stack) > 1 THEN ring_ib_call_pos ELSE pm4_stack[1].pos

Report(t) ==
  /\ pc[t] = "report"
  /\ rptr' = (last_kick_wptr_raw - ((ring_wptr_words - Consumed) % N)) % Word
  /\ mutex' = None
  /\ Goto(t, CASE t = "guest" -> "idle" [] t = "pump" -> "sleep" [] t = "worker" -> "wait")
  /\ UNCHANGED <<async, script, guestVars, kicked, fence, walkVars, kickVars, wakeVars, raiseVars,
                 pumpVars, lifeVars>>

Execute(t) == Draw(t) \/ Swap(t) \/ Interrupt(t) \/ SetMask(t) \/ WaitPasses(t) \/ Park(t) \/ Call(t)

Walk(t) == CaughtUp(t) \/ PopFrame(t) \/ Execute(t) \/ Report(t)

-----------------------------------------------------------------------------
(* The pump.                                                               *)

PumpUnchanged == UNCHANGED <<async, script, guestVars, kicked, rptr, fence, mutex, walkVars, kickVars,
                             wakeVars, lifeVars>>

PumpTake ==
  /\ pc["pump"] = "top" /\ pump_running
  /\ hand' = pending_interrupt_mask /\ pending_interrupt_mask' = {}
  /\ Goto("pump", "isr")
  /\ PumpUnchanged
  /\ UNCHANGED <<seen_pm4_interrupt, pending_swap_acks, early, raised, swaps, pm4_int, batch,
                 handed_over, given, blanket>>

\* DispatchGuestInterrupt(1, cpu) for the lowest CPU that is left.
PumpDispatch ==
  /\ pc["pump"] = "isr" /\ hand # {}
  /\ \E c \in hand : /\ \A d \in hand : c <= d
                     /\ hand' = hand \ {c}
                     /\ given' = [given EXCEPT ![c] = @ + 1]
  /\ PumpUnchanged
  /\ UNCHANGED <<pc, raiseVars, pm4_int, batch, handed_over, blanket>>

PumpReadSeen ==
  /\ pc["pump"] = "isr" /\ hand = {}
  /\ pm4_int' = seen_pm4_interrupt
  /\ Goto("pump", "acks")
  /\ PumpUnchanged
  /\ UNCHANGED <<raiseVars, hand, batch, handed_over, given, blanket>>

\* Acknowledgements are dropped only when the hand-over is behind us.
BadFallback == ~pm4_int
Fallback    == ~pm4_int \/ ~handed_over

PumpTakeAcks ==
  /\ pc["pump"] = "acks"
  /\ pending_swap_acks' = 0 /\ early' = 0
  /\ batch' = IF Fallback THEN pending_swap_acks ELSE 0
  /\ Goto("pump", IF Fallback THEN "blanket" ELSE "poll")
  /\ PumpUnchanged
  /\ UNCHANGED <<seen_pm4_interrupt, pending_interrupt_mask, raised, swaps, hand, pm4_int,
                 handed_over, given, blanket>>

\* One swap after the other, on all CPUs.
PumpBlanket ==
  /\ pc["pump"] = "blanket"
  /\ blanket' = blanket + batch /\ batch' = 0
  /\ handed_over' = (handed_over \/ pm4_int)
  /\ Goto("pump", "poll")
  /\ PumpUnchanged
  /\ UNCHANGED <<raiseVars, hand, pm4_int, given>>

PumpPoll == pc["pump"] = "poll" /\ TryResume("pump", "sleep")

\* The sleep has a deadline; after it, or at the top, the loop's condition.
BadWakes == pm4_parked \/ ~pump_running
Wakes    == TRUE

PumpWake ==
  /\ (pc["pump"] = "sleep" /\ Wakes) \/ (pc["pump"] = "top" /\ ~pump_running)
  /\ Goto("pump", IF pump_running THEN "top" ELSE "done")
  /\ PumpUnchanged
  /\ UNCHANGED <<raiseVars, pumpVars>>

\* Shutdown raises the flag and waits for the pump.
Stop ==
  /\ pump_running
  /\ pump_running' = FALSE
  /\ UNCHANGED <<async, script, guestVars, kicked, rptr, fence, mutex, pc, walkVars, kickVars, wakeVars,
                 raiseVars, pumpVars, active>>

Deactivate ==
  /\ pc["pump"] = "done" /\ active
  /\ active' = FALSE
  /\ UNCHANGED <<async, script, guestVars, kicked, rptr, fence, mutex, pc, walkVars, kickVars, wakeVars,
                 raiseVars, pumpVars, pump_running>>

-----------------------------------------------------------------------------
GuestStep  == SetUp \/ Issue \/ Kick \/ MmioWrite
GuestWalk  == KickWalk \/ Resume("guest") \/ Walk("guest")
PumpLoop   == PumpTake \/ PumpDispatch \/ PumpReadSeen \/ PumpTakeAcks \/ PumpBlanket \/ PumpPoll \/ PumpWake
PumpWalk   == Resume("pump") \/ Walk("pump")
WorkerStep == WorkerWake \/ WorkerWalk \/ Walk("worker")

Next == GuestStep \/ GuestWalk \/ WriteFence \/ PumpLoop \/ PumpWalk \/ WorkerStep \/ Stop \/ Deactivate

Spec == Init /\ [][Next]_vars

\* The pump's loop goes on, of the threads that walk or want to walk one does, and
\* the guest satisfies its waits.  It need not issue or kick.
Fairness ==
  /\ WF_vars(PumpLoop) /\ WF_vars(WriteFence)
  /\ WF_vars(GuestWalk \/ PumpWalk \/ WorkerStep)

FairSpec == Spec /\ Fairness

-----------------------------------------------------------------------------
\* The variables keep their types.
TypeOK ==
  /\ async \in Asyncs /\ wpos \in Nat /\ issued \in Nat /\ kicked \in 0 .. issued
  /\ DOMAIN ring = 0 .. N - 1 /\ owner \in [Bufs -> Int]
  /\ rptr \in 0 .. Word - 1 /\ fence \in 0 .. MaxFence /\ parsed \in 0 .. issued
  /\ mutex \in Threads \cup {None}
  /\ pc["guest"] \in {"setup", "idle", "kick", "resume", "walk", "mask", "report"}
  /\ pc["pump"] \in {"off", "top", "isr", "acks", "blanket", "poll", "resume", "walk", "mask", "report", "sleep", "done"}
  /\ pc["worker"] \in {"wait", "lock", "walk", "mask", "report"}
  /\ \A t \in Threads : pc[t] \in {"walk", "mask", "report"} <=> mutex = t
  /\ ring_wptr_words \in 0 .. N - 1 /\ ring_ib_call_pos \in 0 .. N - 1
  /\ \A i \in DOMAIN pm4_stack :
       /\ pm4_stack[i].buf \in Bufs <=> i > 1
       /\ pm4_stack[i].pos \in 0 .. IF i = 1 THEN N - 1 ELSE Len(pm4_stack[i].code)
  /\ pending_interrupt_mask \subseteq Cpus /\ hand \subseteq Cpus
  /\ early \in 0 .. pending_swap_acks /\ batch \in Nat

\* The guest reuses ring words and indirect buffers as soon as the read pointer
\* has passed them; the command the machine reads next is none the less always
\* the one the guest issued after the last, wherever it parked or resumed.
CommandsInOrder == \A t \in Threads : Walking(t) \/ pc[t] = "mask" => Fetched.no = parsed + 1

\* The flag TryResumePm4 reads without the mutex is never down while a walk is
\* owed: a machine that is not parked has consumed all that was kicked.
NotParkedIsDone ==
  mutex = None /\ pm4_stack # <<>> /\ ~pm4_parked
    => Len(pm4_stack) = 1 /\ Top.pos = ring_wptr_words

\* What was kicked and is not executed has somebody who is going to walk: the machine
\* is parked, or the worker is woken, or a thread walks or is about to.
KickIsOwed ==
  kicked > parsed =>
    pm4_parked \/ capture_pending \/ \E t \in Threads : pc[t] \in {"kick", "lock", "walk", "mask"}

\* The number of the last command that the guest takes for consumed, going by the
\* read pointer.
Freed == IF Unread = 0 THEN issued ELSE ring[(wpos - Unread) % N].no - 1

\* Threads, frames, parking and remainders left aside, commands are executed in
\* order, none before its kick, and freed when they are executed.
Stream == INSTANCE CommandStream WITH done <- parsed, freed <- Freed

\* No command is skipped, repeated, read after its memory was reused, or forgotten.
NothingIsSkipped == [](CommandsInOrder /\ NotParkedIsDone /\ KickIsOwed) /\ Stream!Spec

\* A CPU gets no more source-1 interrupts than packets asked for, and the blanket ones
\* are no more than the swaps. They may be fewer: the mask has one bit for a CPU, and
\* packets that come before the pump has taken it share one interrupt.
InterruptsAreCaused ==
  /\ \A c \in Cpus : given[c] + Cardinality({c} \cap pending_interrupt_mask)
                              + Cardinality({c} \cap hand) <= raised[c]
  /\ blanket + batch + pending_swap_acks <= swaps

\* Acknowledgements of swaps that came before the first PM4_INTERRUPT are handed
\* to the guest, whenever the flag flips between the pump's reads.
EarlyAcksAreServed == [][early' < early => batch' = pending_swap_acks]_vars

\* One batch at most is acknowledged to all CPUs once PM4_INTERRUPT has been seen:
\* it is the hand-over, and none comes after it.
HandOverIsLast == [][blanket' # blanket => ~handed_over /\ (pm4_int => handed_over')]_vars

\* "must NOT be duplicated" (native_backend_vk.cpp:4325): no interrupt and no
\* acknowledgement is given more often than it was caused, those from before the flag
\* are not dropped, and the batch that hands them over is the last.
NoInterruptIsInvented == []InterruptsAreCaused /\ EarlyAcksAreServed /\ HandOverIsLast

\* What PM4_INTERRUPT asked for does not stay behind: the mask is always drained again.
InterruptsArrive == pending_interrupt_mask # {} ~> (pending_interrupt_mask \cup hand = {} \/ ~pump_running)

\* All that was kicked is executed once its waits are satisfied, although no MMIO
\* write tells the machine so.
StreamDrains == kicked > parsed ~> (kicked <= parsed \/ ~pump_running)
=============================================================================
