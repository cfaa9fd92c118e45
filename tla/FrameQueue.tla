------------------------------ MODULE FrameQueue ------------------------------
(***************************************************************************)
(* The hand-off of guest frames from the PM4 walker to the present thread  *)
(* (renderer/guest_d3d_hooks.cpp, renderer/native_backend_vk.cpp and the   *)
(* present loop of native_vk.cpp).                                         *)
(*                                                                         *)
(* The walker collects draws and, at each XE_SWAP, publishes what it has   *)
(* as a chunk in a one-place mailbox: an unconsumed chunk is overwritten.  *)
(* The present thread takes chunks, merges them until the frame's own      *)
(* front-buffer resolve arrives, and shows the result.  Both queues, of    *)
(* raw draws and of decoded ones, are swapped by the same call.            *)
(*                                                                         *)
(* A draw is its number in submission order and, for a resolve, the        *)
(* address it writes (0 for other draws).  Time is left out: the repaint   *)
(* of the overlay is due, and a wait times out, at any moment; the pacing  *)
(* sleep only delays the loop.  The opt-in diagnostics of the loop (the    *)
(* legacy poll, RESTUFF_CHUNK_HOLD, the traces) are not modelled.          *)
(*                                                                         *)
(* Operators named Bad... are faulty variants the properties are tested    *)
(* against; Next uses none.                                                *)
(***************************************************************************)
EXTENDS Integers, Sequences

CONSTANTS
  Fbs,          \* physical addresses of front buffers, 0 excluded
  Modes,        \* values of the cvar use_translated_shaders: FALSE, TRUE
  Refreshes,    \* whether RefreshGuestOutput reaches the callback: FALSE, TRUE
  kMaxBuilding, \* [Kinds -> Nat]: the runaway guards, 4096 and 8192 draws
  kMaxPending,  \* draws a held frame may reach, 6000
  kMaxHolds,    \* chunks held in a row, 3
  MaxDraws,     \* bound: draws the guest submits
  MaxSwaps      \* bound: XE_SWAP packets

Kinds == {"decoded", "raw"}
Dests == Fbs \cup {0}
Draws == [no : 1 .. MaxDraws, dest : Dests]

ASSUME FrameQueueAssumption ==
  /\ Fbs \subseteq Nat \ {0}
  /\ Modes \subseteq BOOLEAN /\ Refreshes \subseteq BOOLEAN
  /\ kMaxBuilding \in [Kinds -> Nat]
  /\ kMaxPending \in Nat /\ kMaxHolds \in Nat
  /\ MaxDraws \in Nat /\ MaxSwaps \in Nat

VARIABLES
  building, ready, \* s_building and s_raw_building, s_ready and s_raw_ready
  fresh,           \* s_ready_fresh, s_raw_ready_fresh
  ready_fb,        \* s_raw_ready_fb
  front_buffer,    \* s_front_buffer_phys, the pointer of the latest XE_SWAP
  submitted,       \* s_submitted
  frames,          \* s_frames
  wpc, swap_fb,    \* where the walker stands, and the pointer of its XE_SWAP
  ppc,             \* where the present thread stands
  frame, frame_fb, \* what it shows: [Kinds -> draws], tl.frame_fb
  pending, holds,  \* tl.pending_chunks, tl.pending_holds
  translated,      \* use_translated_shaders, set before the threads start
  running,         \* running_
  swaps,           \* history: the pointers of all XE_SWAPs
  held             \* history: chunks taken since a frame was last completed

queueVars   == <<building, ready, fresh, ready_fb, submitted, frames>>
walkerVars  == <<front_buffer, wpc, swap_fb, swaps>>
presentVars == <<frame, frame_fb, pending, holds, held>>
procVars    == <<translated, running>>
vars == <<queueVars, walkerVars, presentVars, ppc, procVars>>

Init ==
  /\ building = [k \in Kinds |-> <<>>] /\ ready = [k \in Kinds |-> <<>>]
  /\ fresh = [k \in Kinds |-> FALSE]
  /\ ready_fb = 0 /\ front_buffer = 0 /\ submitted = 0 /\ frames = 0
  /\ wpc = "walk" /\ swap_fb = 0 /\ swaps = <<>>
  /\ ppc = "top" /\ running = TRUE /\ translated \in Modes
  /\ frame = [k \in Kinds |-> <<>>] /\ frame_fb = 0
  /\ pending = <<>> /\ holds = 0 /\ held = 0

-----------------------------------------------------------------------------
(* The walker.                                                             *)

\* Draws are decoded on the guest side unless they are translated; a resolve is
\* always submitted raw.
KindOf(dest) == IF translated \/ dest # 0 THEN "raw" ELSE "decoded"

BadHasRoom(k) == Len(building[k]) <= kMaxBuilding[k]
HasRoom(k)    == Len(building[k]) < kMaxBuilding[k]

SubmitDraw(dest) ==
  LET k == KindOf(dest)
  IN /\ wpc = "walk" /\ submitted < MaxDraws
     /\ HasRoom(k)
     /\ submitted' = submitted + 1
     /\ building' = [building EXCEPT ![k] = Append(@, [no |-> submitted + 1, dest |-> dest])]
     /\ UNCHANGED <<ready, fresh, ready_fb, frames, walkerVars, presentVars, ppc, procVars>>

\* PM4_XE_SWAP; the pointer is 0 when the packet has no valid surface.
Swap(fb) ==
  /\ wpc = "walk" /\ Len(swaps) < MaxSwaps
  /\ swap_fb' = fb
  /\ front_buffer' = IF fb = 0 THEN front_buffer ELSE fb
  /\ swaps' = Append(swaps, fb)
  /\ wpc' = "end"
  /\ UNCHANGED <<queueVars, presentVars, ppc, procVars>>

BadCleared == building
Cleared    == [k \in Kinds |-> <<>>]

\* The section of EndGuestFrame under s_frame_mutex.
EndGuestFrame ==
  /\ wpc = "end"
  /\ ready' = building /\ building' = Cleared
  /\ fresh' = [k \in Kinds |-> TRUE]
  /\ ready_fb' = swap_fb
  /\ frames' = frames + 1
  /\ wpc' = "notify"
  /\ UNCHANGED <<submitted, front_buffer, swap_fb, swaps, presentVars, ppc, procVars>>

BadWoken == ppc
Woken    == IF ppc = "asleep" THEN "woken" ELSE ppc

\* notify_all, after the mutex is free.
NotifyAll ==
  /\ wpc = "notify"
  /\ wpc' = "walk" /\ ppc' = Woken
  /\ UNCHANGED <<queueVars, front_buffer, swap_fb, swaps, presentVars, procVars>>

-----------------------------------------------------------------------------
(* The present thread.                                                     *)

\* The head of the loop: HasRawFrame, and the overlay's repaint.
FrameDue ==
  /\ ppc = "top" /\ running /\ fresh["raw"]
  /\ ppc' = "present"
  /\ UNCHANGED <<queueVars, walkerVars, presentVars, procVars>>

OverlayDue ==
  /\ ppc = "top" /\ running /\ ~fresh["raw"]
  /\ ppc' = "repaint"
  /\ UNCHANGED <<queueVars, walkerVars, presentVars, procVars>>

NothingDue ==
  /\ ppc = "top" /\ running /\ ~fresh["raw"]
  /\ ppc' = "wait"
  /\ UNCHANGED <<queueVars, walkerVars, presentVars, procVars>>

LoopEnd ==
  /\ ppc = "top" /\ ~running
  /\ ppc' = "exited"
  /\ UNCHANGED <<queueVars, walkerVars, presentVars, procVars>>

Resolves(draws) == {i \in DOMAIN draws : draws[i].dest # 0}

\* The last resolve of the merged chunks writes the frame's own front buffer.
Complete(draws, fb) ==
  \/ fb = 0
  \/ \E i \in Resolves(draws) : draws[i].dest = fb /\ \A j \in Resolves(draws) : j <= i

BadFbOf(fb) == front_buffer
FbOf(fb)    == fb

MayHold(draws) == Len(draws) <= kMaxPending /\ holds + 1 <= kMaxHolds

Hold(draws) ==
  /\ pending' = draws /\ holds' = holds + 1 /\ held' = held + 1
  /\ UNCHANGED <<frame, frame_fb>>

Show(draws) ==
  /\ frame' = [frame EXCEPT !["raw"] = draws]
  /\ frame_fb' = IF ready_fb = 0 THEN frame_fb ELSE FbOf(ready_fb)
  /\ pending' = <<>> /\ holds' = 0 /\ held' = 0

Merge ==
  LET draws == pending \o ready["raw"]
  IN IF ~Complete(draws, ready_fb) /\ MayHold(draws) THEN Hold(draws) ELSE Show(draws)

BadConsumed(k) == fresh
Consumed(k)    == [fresh EXCEPT ![k] = FALSE]

\* ConsumeRawFrame or ConsumeReadyFrame: takes the queue's chunk if there is one.
Consume(k) ==
  /\ fresh' = Consumed(k)
  /\ ready' = [ready EXCEPT ![k] = <<>>]
  /\ UNCHANGED <<building, ready_fb, submitted, frames>>

\* PresentClearFrame: the decoded queue is read before the presenter is called,
\* the raw one inside its callback.
Takes(k, called) ==
  /\ fresh[k]
  /\ IF k = "raw" THEN translated /\ called ELSE ~translated

PresentTranslated ==
  /\ Takes("raw", TRUE) /\ TRUE \in Refreshes
  /\ Consume("raw") /\ Merge

PresentDecoded ==
  /\ Takes("decoded", FALSE)
  /\ Consume("decoded")
  /\ frame' = [frame EXCEPT !["decoded"] = ready["decoded"]]
  /\ UNCHANGED <<frame_fb, pending, holds, held>>

PresentSame ==
  /\ \E called \in Refreshes : \A k \in Kinds : ~Takes(k, called)
  /\ UNCHANGED <<queueVars, presentVars>>

PresentClearFrame ==
  /\ ppc \in {"present", "repaint"}
  /\ PresentTranslated \/ PresentDecoded \/ PresentSame
  /\ ppc' = "top"
  /\ UNCHANGED <<walkerVars, procVars>>

\* WaitForRawFrame: the predicate is checked before the first sleep and after
\* each notification; a timeout returns whatever it says.
WaitCheck ==
  /\ ppc \in {"wait", "woken"}
  /\ ppc' = IF fresh["raw"] THEN "top" ELSE "asleep"
  /\ UNCHANGED <<queueVars, walkerVars, presentVars, procVars>>

BadTimesOut == FALSE
TimesOut    == ppc = "asleep"

WaitTimeout ==
  /\ TimesOut
  /\ ppc' = "top"
  /\ UNCHANGED <<queueVars, walkerVars, presentVars, procVars>>

PresentStep ==
  \/ FrameDue \/ OverlayDue \/ NothingDue \/ LoopEnd
  \/ PresentClearFrame \/ WaitCheck \/ WaitTimeout

\* NativeVulkanGraphicsSystem::Shutdown; it does not notify s_frame_cv.
Shutdown ==
  /\ running /\ running' = FALSE /\ translated' = translated
  /\ UNCHANGED <<queueVars, walkerVars, presentVars, ppc>>

WalkerStep == EndGuestFrame \/ NotifyAll

Next ==
  \/ \E d \in Dests : SubmitDraw(d)
  \/ \E fb \in Dests : Swap(fb)
  \/ WalkerStep
  \/ PresentStep
  \/ Shutdown

Spec == Init /\ [][Next]_vars

\* Both threads are scheduled, and a presenter that is asked again and again
\* calls back; the guest may stop drawing at any time.
FairSpec == /\ Spec
            /\ WF_vars(WalkerStep) /\ WF_vars(PresentStep)
            /\ SF_vars(PresentClearFrame /\ PresentTranslated)

-----------------------------------------------------------------------------
\* The variables keep their types, and a chunk stays below the runaway guard.
TypeOK ==
  /\ building \in [Kinds -> Seq(Draws)] /\ ready \in [Kinds -> Seq(Draws)]
  /\ frame \in [Kinds -> Seq(Draws)] /\ pending \in Seq(Draws)
  /\ \A k \in Kinds : Len(building[k]) <= kMaxBuilding[k]
  /\ fresh \in [Kinds -> BOOLEAN] /\ running \in BOOLEAN /\ translated \in BOOLEAN
  /\ ready_fb \in Dests /\ front_buffer \in Dests /\ swap_fb \in Dests /\ frame_fb \in Dests
  /\ submitted \in 0 .. MaxDraws /\ frames \in Nat
  /\ holds \in Nat /\ held \in Nat
  /\ wpc \in {"walk", "end", "notify"}
  /\ ppc \in {"top", "present", "repaint", "wait", "woken", "asleep", "exited"}
  /\ swaps \in Seq(Dests)

\* The raw draws not yet replaced on the screen, from the oldest: the frame
\* shown, the fragments held, the mailbox, and the chunk being built.
RawLine == frame["raw"] \o pending \o ready["raw"] \o building["raw"]
DecodedLine == frame["decoded"] \o ready["decoded"] \o building["decoded"]

Increasing(s) == \A i, j \in DOMAIN s : i < j => s[i].no < s[j].no

\* Through publishing, overwriting, taking, holding and merging, draws stay in
\* the order the guest submitted them and none is there twice: the mailbox never
\* gives a chunk a second time, and a merge never puts an older chunk behind a
\* newer one.
DrawsInOrder == Increasing(RawLine) /\ Increasing(DecodedLine)

\* A chunk without its front-buffer resolve is held, but never more than
\* kMaxHolds of them in a row and never more draws than kMaxPending, so a guest
\* that never resolves to its front buffer is still shown.
HoldsAreBounded == held <= kMaxHolds /\ Len(pending) <= kMaxPending

TakesChunk == fresh["raw"] /\ ~fresh'["raw"]

\* A fragment is shown as it is only after kMaxHolds of them were held since the
\* last frame, or when it has grown too large: a split frame does not flash.
FragmentsWait ==
  [][TakesChunk /\ ~Complete(pending \o ready["raw"], ready_fb) /\ held < kMaxHolds
        /\ Len(pending \o ready["raw"]) <= kMaxPending
     => frame'["raw"] = frame["raw"] /\ held' = held + 1]_vars

\* The front-buffer pointer travels with the frame: what is displayed for a
\* frame is the buffer named by the XE_SWAP that published its last chunk, also
\* when the guest has already executed the next XE_SWAP.
FbTravels ==
  [][TakesChunk /\ held' = 0 /\ swaps[frames] # 0 => frame_fb' = swaps[frames]]_vars

\* A frame is shown when its last chunk has come, whatever chunks of it were overwritten
\* in the mailbox, or when it has waited as long as the limits allow, and it is shown
\* from its own buffer.
FramesAreWhole == []HoldsAreBounded /\ FragmentsWait /\ FbTravels

\* The present thread does not sleep through a published frame: if it sleeps
\* while one is there, the notification is still to come.
NoLostWakeup == ppc = "asleep" /\ fresh["raw"] => wpc = "notify"

\* In translated mode every published chunk, or one that replaced it, is taken
\* unless the program is closed.
ChunkTaken == translated /\ fresh["raw"] ~> (~fresh["raw"] \/ ~running)

\* Shutdown joins the present thread: no wait outlives running_.
PresentThreadEnds == ~running ~> ppc = "exited"
=============================================================================
