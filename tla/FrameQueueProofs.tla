--------------------------- MODULE FrameQueueProofs ---------------------------
(***************************************************************************)
(* Proofs about FrameQueue for any front buffers, limits and number of     *)
(* draws and swaps.  The inductive invariant has three parts beyond the    *)
(* types: the order of the draws between any two of the queues (OrderInv), *)
(* what the counters of held chunks say (HoldInv), and the pointer that    *)
(* lies in the mailbox (PointerInv).                                       *)
(***************************************************************************)
EXTENDS FrameQueue, TLAPS

\* Every draw of s comes before every draw of t.
Before(s, t) == \A i \in DOMAIN s, j \in DOMAIN t : s[i].no < t[j].no

\* No draw of s is newer than the newest submitted one.
Upto(s, n) == \A i \in DOMAIN s : s[i].no <= n

\* DrawsInOrder, one pair of queues at a time.
OrderInv ==
  /\ \A k \in Kinds :
       /\ Increasing(building[k]) /\ Increasing(ready[k]) /\ Increasing(frame[k])
       /\ Before(frame[k], ready[k]) /\ Before(frame[k], building[k])
       /\ Before(ready[k], building[k])
       /\ Upto(frame[k], submitted) /\ Upto(ready[k], submitted) /\ Upto(building[k], submitted)
  /\ Increasing(pending) /\ Upto(pending, submitted)
  /\ Before(frame["raw"], pending) /\ Before(pending, ready["raw"])
  /\ Before(pending, building["raw"])

\* holds counts the chunks held since the last frame was shown.
HoldInv == holds = held /\ HoldsAreBounded

\* The mailbox holds the pointer of the swap that published the chunk; the walker
\* is at most one swap ahead.
PointerInv ==
  /\ Len(swaps) = IF wpc = "end" THEN frames + 1 ELSE frames
  /\ wpc = "end" => swaps[Len(swaps)] = swap_fb
  /\ fresh["raw"] => frames > 0 /\ ready_fb = swaps[frames]

-----------------------------------------------------------------------------
(* Sequences of draws.                                                     *)

\* Appending draws that come later keeps the order.
LEMMA Joined ==
  ASSUME NEW s \in Seq(Draws), NEW t \in Seq(Draws), Increasing(s), Increasing(t), Before(s, t)
  PROVE  s \o t \in Seq(Draws) /\ Increasing(s \o t)
<1>1. \A i \in DOMAIN (s \o t) : (s \o t)[i] = IF i <= Len(s) THEN s[i] ELSE t[i - Len(s)]
  OBVIOUS
<1>2. \A i \in DOMAIN (s \o t) : i <= Len(s) => i \in DOMAIN s
  OBVIOUS
<1>3. \A i \in DOMAIN (s \o t) : ~ (i <= Len(s)) => i - Len(s) \in DOMAIN t
  OBVIOUS
<1>4. ASSUME NEW i \in DOMAIN (s \o t), NEW j \in DOMAIN (s \o t), i < j
      PROVE  (s \o t)[i].no < (s \o t)[j].no
  <2>1. i \in Nat /\ j \in Nat /\ Len(s) \in Nat
    OBVIOUS
  <2>2. CASE j <= Len(s)
    <3>1. i <= Len(s)
      BY <1>4, <2>1, <2>2
    <3> QED
      BY <1>1, <1>2, <1>4, <2>2, <3>1 DEF Increasing
  <2>3. CASE ~ (j <= Len(s)) /\ i <= Len(s)
    BY <1>1, <1>2, <1>3, <2>3 DEF Before
  <2>4. CASE ~ (j <= Len(s)) /\ ~ (i <= Len(s))
    <3>1. i - Len(s) < j - Len(s)
      BY <1>4, <2>1
    <3> QED
      BY <1>1, <1>3, <2>4, <3>1 DEF Increasing
  <2> QED
    BY <2>2, <2>3, <2>4
<1> QED
  BY <1>4 DEF Increasing

\* What comes before, or after, both parts comes before, or after, the whole.
LEMMA JoinedBefore ==
  ASSUME NEW s \in Seq(Draws), NEW t \in Seq(Draws), NEW u \in Seq(Draws)
  PROVE  /\ Before(s, u) /\ Before(t, u) => Before(s \o t, u)
         /\ Before(u, s) /\ Before(u, t) => Before(u, s \o t)
         /\ \A n \in Nat : Upto(s, n) /\ Upto(t, n) => Upto(s \o t, n)
<1>1. \A i \in DOMAIN (s \o t) :
        \/ i \in DOMAIN s /\ (s \o t)[i] = s[i]
        \/ i - Len(s) \in DOMAIN t /\ (s \o t)[i] = t[i - Len(s)]
  OBVIOUS
<1> QED
  BY <1>1 DEF Before, Upto

\* A draw's number is a natural number.
LEMMA DrawNo == \A d \in Draws : d.no \in Nat
  BY DEF Draws

\* A draw with the next number may be appended.
LEMMA Appended ==
  ASSUME NEW s \in Seq(Draws), NEW d \in Draws, NEW n \in Nat, Upto(s, n), d.no = n + 1
  PROVE  /\ Append(s, d) \in Seq(Draws)
         /\ Increasing(s) => Increasing(Append(s, d))
         /\ Upto(Append(s, d), n + 1)
         /\ \A u \in Seq(Draws) : Upto(u, n) /\ Before(u, s) => Before(u, Append(s, d))
<1>1. \A i \in DOMAIN Append(s, d) :
        \/ i \in DOMAIN s /\ Append(s, d)[i] = s[i]
        \/ i = Len(s) + 1 /\ Append(s, d)[i] = d
  OBVIOUS
<1>3. \A u \in Seq(Draws) : \A i \in DOMAIN u : u[i].no \in Nat
  <2> SUFFICES ASSUME NEW u \in Seq(Draws), NEW i \in DOMAIN u PROVE u[i].no \in Nat
    OBVIOUS
  <2>1. u[i] \in Draws
    OBVIOUS
  <2> QED
    BY <2>1, DrawNo
<1>4. Upto(Append(s, d), n + 1)
  BY <1>1, <1>3 DEF Upto
<1>5. Increasing(s) => Increasing(Append(s, d))
  <2> SUFFICES ASSUME Increasing(s), NEW i \in DOMAIN Append(s, d),
                      NEW j \in DOMAIN Append(s, d), i < j
               PROVE  Append(s, d)[i].no < Append(s, d)[j].no
    BY DEF Increasing
  <2>1. i \in DOMAIN s
    OBVIOUS
  <2>2. Append(s, d)[i] = s[i]
    BY <2>1
  <2> QED
    BY <1>1, <1>3, <2>1, <2>2 DEF Increasing, Upto
<1>6. ASSUME NEW u \in Seq(Draws), Upto(u, n), Before(u, s) PROVE Before(u, Append(s, d))
  BY <1>1, <1>3, <1>6 DEF Before, Upto
<1> QED
  BY <1>4, <1>5, <1>6

\* The empty queue is in order with everything.
LEMMA EmptyQueue ==
  /\ <<>> \in Seq(Draws) /\ Increasing(<<>>)
  /\ \A u : Before(<<>>, u) /\ Before(u, <<>>)
  /\ \A n : Upto(<<>>, n)
  BY DEF Increasing, Before, Upto

\* An older bound is a bound.
LEMMA UptoGrows ==
  ASSUME NEW s \in Seq(Draws), NEW n \in Nat, Upto(s, n) PROVE Upto(s, n + 1)
<1>1. \A i \in DOMAIN s : s[i] \in Draws
  OBVIOUS
<1>2. \A i \in DOMAIN s : s[i].no \in Nat
  BY <1>1, DrawNo
<1> QED
  BY <1>2 DEF Upto

-----------------------------------------------------------------------------
(* Types.                                                                  *)

\* The variables have their types and a chunk stays below the runaway guard, in
\* the initial states and after every step.
LEMMA InitTypeOK == Init => TypeOK
  BY FrameQueueAssumption, EmptyQueue DEF Init, TypeOK, Dests, Kinds

\* Every step keeps the types.
LEMMA TypeStep == TypeOK /\ [Next]_vars => TypeOK'
<1> SUFFICES ASSUME TypeOK, [Next]_vars PROVE TypeOK'
  OBVIOUS
<1> USE FrameQueueAssumption
<1>1. ASSUME NEW d \in Dests, SubmitDraw(d) PROVE TypeOK'
  <2> DEFINE k == KindOf(d)
             draw == [no |-> submitted + 1, dest |-> d]
  <2>1. k \in Kinds /\ draw \in Draws
    BY <1>1 DEF SubmitDraw, KindOf, Kinds, Draws, TypeOK
  <2>2. building' = [building EXCEPT ![k] = Append(@, draw)]
    BY <1>1 DEF SubmitDraw
  <2>3. building[k] \in Seq(Draws) /\ Len(building[k]) < kMaxBuilding[k]
    BY <1>1, <2>1 DEF SubmitDraw, HasRoom, TypeOK
  <2> HIDE DEF k, draw
  <2>4. /\ Append(building[k], draw) \in Seq(Draws)
        /\ Len(Append(building[k], draw)) = Len(building[k]) + 1
    BY <2>1, <2>3
  <2>5. Len(building[k]) + 1 <= kMaxBuilding[k]
    BY <2>1, <2>3
  <2>6. building' \in [Kinds -> Seq(Draws)]
    BY <2>1, <2>2, <2>4 DEF TypeOK
  <2>7. \A q \in Kinds : Len(building'[q]) <= kMaxBuilding[q]
    BY <2>1, <2>2, <2>4, <2>5 DEF TypeOK
  <2>8. submitted' \in 0 .. MaxDraws
    BY <1>1 DEF SubmitDraw, TypeOK
  <2> QED
    BY <1>1, <2>6, <2>7, <2>8 DEF SubmitDraw, TypeOK, walkerVars, presentVars, procVars
<1>2. ASSUME NEW fb \in Dests, Swap(fb) PROVE TypeOK'
  BY <1>2 DEF Swap, TypeOK, queueVars, presentVars, procVars
<1>3. CASE EndGuestFrame
  <2>1. /\ building' \in [Kinds -> Seq(Draws)]
        /\ \A q \in Kinds : Len(building'[q]) <= kMaxBuilding[q]
    BY <1>3, EmptyQueue DEF EndGuestFrame, Cleared
  <2> QED
    BY <1>3, <2>1 DEF EndGuestFrame, TypeOK, presentVars, procVars
<1>4. CASE NotifyAll
  BY <1>4 DEF NotifyAll, Woken, TypeOK, queueVars, presentVars, procVars
<1>5. CASE FrameDue
  BY <1>5 DEF FrameDue, TypeOK, queueVars, walkerVars, presentVars, procVars
<1>6. CASE OverlayDue
  BY <1>6 DEF OverlayDue, TypeOK, queueVars, walkerVars, presentVars, procVars
<1>7. CASE NothingDue
  BY <1>7 DEF NothingDue, TypeOK, queueVars, walkerVars, presentVars, procVars
<1>8. CASE LoopEnd
  BY <1>8 DEF LoopEnd, TypeOK, queueVars, walkerVars, presentVars, procVars
<1>9. CASE PresentClearFrame
  <2> USE <1>9
  <2>1. /\ ppc' = "top" /\ UNCHANGED <<walkerVars, procVars>>
    BY DEF PresentClearFrame
  <2>2. CASE PresentTranslated
    <3> DEFINE draws == pending \o ready["raw"]
    <3>1. draws \in Seq(Draws)
      BY DEF TypeOK, Kinds
    <3>2. \/ Hold(draws)
          \/ Show(draws)
      BY <2>2 DEF PresentTranslated, Merge
    <3> HIDE DEF draws
    <3>3. /\ frame' \in [Kinds -> Seq(Draws)] /\ frame_fb' \in Dests
          /\ pending' \in Seq(Draws) /\ holds' \in Nat /\ held' \in Nat
      <4>1. CASE Hold(draws)
        BY <3>1, <4>1 DEF Hold, TypeOK
      <4>2. CASE Show(draws)
        <5>1. frame' \in [Kinds -> Seq(Draws)] /\ pending' \in Seq(Draws)
          BY <3>1, <4>2, EmptyQueue DEF Show, TypeOK
        <5>2. frame_fb' \in Dests /\ holds' \in Nat /\ held' \in Nat
          BY <4>2 DEF Show, FbOf, TypeOK
        <5> QED
          BY <5>1, <5>2
      <4> QED
        BY <3>2, <4>1, <4>2
    <3>4. ready' \in [Kinds -> Seq(Draws)] /\ fresh' \in [Kinds -> BOOLEAN]
      BY <2>2, EmptyQueue DEF PresentTranslated, Consume, Consumed, TypeOK
    <3> QED
      BY <2>1, <2>2, <3>3, <3>4 DEF PresentTranslated, Consume, TypeOK, walkerVars, procVars
  <2>3. CASE PresentDecoded
    <3>1. ready' \in [Kinds -> Seq(Draws)] /\ fresh' \in [Kinds -> BOOLEAN]
      BY <2>3, EmptyQueue DEF PresentDecoded, Consume, Consumed, TypeOK
    <3>2. frame' \in [Kinds -> Seq(Draws)]
      BY <2>3 DEF PresentDecoded, TypeOK, Kinds
    <3> QED
      BY <2>1, <2>3, <3>1, <3>2 DEF PresentDecoded, Consume, TypeOK, walkerVars, procVars
  <2>4. CASE PresentSame
    BY <2>1, <2>4 DEF PresentSame, TypeOK, queueVars, walkerVars, presentVars, procVars
  <2> QED
    BY <2>2, <2>3, <2>4 DEF PresentClearFrame
<1>10. CASE WaitCheck
  BY <1>10 DEF WaitCheck, TypeOK, queueVars, walkerVars, presentVars, procVars
<1>11. CASE WaitTimeout
  BY <1>11 DEF WaitTimeout, TypeOK, queueVars, walkerVars, presentVars, procVars
<1>12. CASE Shutdown
  BY <1>12 DEF Shutdown, TypeOK, queueVars, walkerVars, presentVars, procVars
<1>13. CASE UNCHANGED vars
  BY <1>13 DEF vars, TypeOK, queueVars, walkerVars, presentVars, procVars
<1> QED
  BY <1>1, <1>2, <1>3, <1>4, <1>5, <1>6, <1>7, <1>8, <1>9, <1>10, <1>11, <1>12, <1>13
     DEF Next, WalkerStep, PresentStep

-----------------------------------------------------------------------------
(* Held chunks, the pointer in the mailbox, and the sleeping thread.       *)

\* A step that takes no translated chunk leaves the merge alone.
LEMMA MergeStep ==
  ASSUME [Next]_vars
  PROVE  \/ PresentClearFrame /\ PresentTranslated
         \/ UNCHANGED <<pending, holds, held, frame_fb>>
  BY DEF Next, WalkerStep, PresentStep, SubmitDraw, Swap, EndGuestFrame, NotifyAll, FrameDue,
         OverlayDue, NothingDue, LoopEnd, PresentClearFrame, PresentDecoded, PresentSame,
         WaitCheck, WaitTimeout, Shutdown, vars, presentVars

\* The counters agree and stay within the limits: a chunk is held only when both
\* leave room for it.
LEMMA HoldStep == TypeOK /\ HoldInv /\ [Next]_vars => HoldInv'
<1> SUFFICES ASSUME TypeOK, HoldInv, [Next]_vars PROVE HoldInv'
  OBVIOUS
<1>1. CASE UNCHANGED <<pending, holds, held, frame_fb>>
  BY <1>1 DEF HoldInv, HoldsAreBounded
<1>2. CASE PresentClearFrame /\ PresentTranslated
  <2> DEFINE draws == pending \o ready["raw"]
  <2>1. \/ MayHold(draws) /\ Hold(draws)
        \/ Show(draws)
    BY <1>2 DEF PresentTranslated, Merge
  <2> HIDE DEF draws
  <2>2. CASE MayHold(draws) /\ Hold(draws)
    BY <2>2 DEF MayHold, Hold, HoldInv, HoldsAreBounded, TypeOK
  <2>3. CASE Show(draws)
    BY <2>3, FrameQueueAssumption, EmptyQueue DEF Show, HoldInv, HoldsAreBounded
  <2> QED
    BY <2>1, <2>2, <2>3
<1> QED
  BY <1>1, <1>2, MergeStep

\* Swaps and publishes alternate, and the mailbox keeps the pointer of its chunk.
LEMMA PointerStep == TypeOK /\ PointerInv /\ [Next]_vars => PointerInv'
<1> SUFFICES ASSUME TypeOK, PointerInv, [Next]_vars PROVE PointerInv'
  OBVIOUS
<1>1. ASSUME NEW fb \in Dests, Swap(fb) PROVE PointerInv'
  <2>1. /\ wpc = "walk" /\ wpc' = "end" /\ swap_fb' = fb /\ swaps' = Append(swaps, fb)
        /\ frames' = frames /\ fresh' = fresh /\ ready_fb' = ready_fb
    BY <1>1 DEF Swap, queueVars
  <2>2. swaps \in Seq(Dests) /\ frames \in Nat /\ Len(swaps) = frames
    BY <2>1 DEF TypeOK, PointerInv
  <2>3. /\ Len(swaps') = frames + 1 /\ swaps'[frames + 1] = fb
        /\ \A i \in 1 .. frames : swaps'[i] = swaps[i]
    BY <2>1, <2>2
  <2>4. fresh["raw"] => frames \in 1 .. frames /\ ready_fb = swaps[frames]
    BY <2>2 DEF PointerInv
  <2> QED
    BY <2>1, <2>2, <2>3, <2>4 DEF PointerInv
<1>2. CASE EndGuestFrame
  BY <1>2 DEF EndGuestFrame, PointerInv, TypeOK
<1>3. CASE NotifyAll
  BY <1>3 DEF NotifyAll, PointerInv, queueVars
<1>4. CASE /\ UNCHANGED <<swaps, wpc, swap_fb, frames, ready_fb>>
           /\ fresh'["raw"] => fresh["raw"]
  BY <1>4 DEF PointerInv
<1> QED
  <2>1. ASSUME NEW d \in Dests, SubmitDraw(d) PROVE PointerInv'
    BY <2>1, <1>4 DEF SubmitDraw, walkerVars
  <2>2. CASE PresentStep
    <3>1. CASE PresentClearFrame
      BY <1>4, <3>1 DEF PresentClearFrame, PresentTranslated, PresentDecoded, PresentSame,
             Consume, Consumed, Kinds, TypeOK, walkerVars, queueVars
    <3> QED
      BY <1>4, <2>2, <3>1 DEF PresentStep, FrameDue, OverlayDue, NothingDue, LoopEnd, WaitCheck,
             WaitTimeout, walkerVars, queueVars
  <2>3. CASE Shutdown \/ UNCHANGED vars
    BY <1>4, <2>3 DEF Shutdown, vars, walkerVars, queueVars
  <2> QED
    BY <1>1, <1>2, <1>3, <2>1, <2>2, <2>3 DEF Next, WalkerStep

\* Publishing is the only step that fills the mailbox, and the notification
\* follows it; the thread goes to sleep only on an empty mailbox.
LEMMA WakeStep == TypeOK /\ NoLostWakeup /\ [Next]_vars => NoLostWakeup'
<1> SUFFICES ASSUME TypeOK, NoLostWakeup, [Next]_vars PROVE NoLostWakeup'
  OBVIOUS
<1>1. CASE PresentClearFrame
  BY <1>1 DEF PresentClearFrame, NoLostWakeup
<1>2. CASE WalkerStep
  BY <1>2 DEF WalkerStep, EndGuestFrame, NotifyAll, Woken, NoLostWakeup, queueVars
<1>3. ASSUME NEW d \in Dests, SubmitDraw(d) \/ Swap(d) PROVE NoLostWakeup'
  BY <1>3 DEF SubmitDraw, Swap, NoLostWakeup, queueVars, walkerVars
<1>4. CASE WaitCheck
  BY <1>4 DEF WaitCheck, NoLostWakeup, queueVars, walkerVars
<1>5. CASE FrameDue \/ OverlayDue \/ NothingDue \/ LoopEnd \/ WaitTimeout
  BY <1>5 DEF FrameDue, OverlayDue, NothingDue, LoopEnd, WaitTimeout, NoLostWakeup
<1>6. CASE Shutdown \/ UNCHANGED vars
  BY <1>6 DEF Shutdown, vars, NoLostWakeup, queueVars, walkerVars
<1> QED
  BY <1>1, <1>2, <1>3, <1>4, <1>5, <1>6 DEF Next, PresentStep

-----------------------------------------------------------------------------
(* The order of the draws.                                                 *)

\* Submitting appends the newest draw to a queue that is last in its line.
LEMMA SubmitOrder ==
  ASSUME TypeOK, OrderInv, NEW d \in Dests, SubmitDraw(d) PROVE OrderInv'
<1> DEFINE k == KindOf(d)
           draw == [no |-> submitted + 1, dest |-> d]
<1>1. /\ k \in Kinds /\ draw \in Draws /\ draw.no = submitted + 1 /\ submitted \in Nat
  BY FrameQueueAssumption DEF SubmitDraw, KindOf, Kinds, Draws, TypeOK
<1>2. /\ building' = [building EXCEPT ![k] = Append(@, draw)]
      /\ ready' = ready /\ frame' = frame /\ pending' = pending /\ submitted' = submitted + 1
  BY DEF SubmitDraw, presentVars
<1> HIDE DEF k, draw
<1>3. /\ pending \in Seq(Draws)
      /\ \A q \in Kinds : building[q] \in Seq(Draws) /\ ready[q] \in Seq(Draws)
                         /\ frame[q] \in Seq(Draws)
  BY DEF TypeOK
<1>4. /\ Increasing(Append(building[k], draw))
      /\ Upto(Append(building[k], draw), submitted + 1)
      /\ \A u \in Seq(Draws) : Upto(u, submitted) /\ Before(u, building[k])
                             => Before(u, Append(building[k], draw))
  BY <1>1, <1>3, Appended DEF OrderInv
<1>5. \A q \in Kinds : building'[q] = IF q = k THEN Append(building[k], draw) ELSE building[q]
  BY <1>1, <1>2 DEF TypeOK
<1>6. \A u \in Seq(Draws) : Upto(u, submitted) => Upto(u, submitted + 1)
  BY <1>1, UptoGrows
<1>7. ASSUME NEW q \in Kinds
      PROVE  /\ Increasing(building'[q]) /\ Before(frame[q], building'[q])
             /\ Before(ready[q], building'[q]) /\ Upto(building'[q], submitted + 1)
             /\ Upto(frame[q], submitted + 1) /\ Upto(ready[q], submitted + 1)
  BY <1>1, <1>3, <1>4, <1>5, <1>6 DEF OrderInv
<1>8. Before(pending, building'["raw"]) /\ Upto(pending, submitted + 1)
  BY <1>1, <1>3, <1>4, <1>5, <1>6 DEF OrderInv, Kinds
<1> QED
  BY <1>2, <1>7, <1>8 DEF OrderInv

\* Publishing moves what was built over what was published before.
LEMMA PublishOrder == TypeOK /\ OrderInv /\ EndGuestFrame => OrderInv'
<1> SUFFICES ASSUME TypeOK, OrderInv, EndGuestFrame PROVE OrderInv'
  OBVIOUS
<1>1. /\ ready' = building /\ frame' = frame /\ pending' = pending /\ submitted' = submitted
      /\ \A q \in Kinds : building'[q] = <<>>
  BY DEF EndGuestFrame, Cleared, presentVars
<1>2. "raw" \in Kinds
  BY DEF Kinds
<1>3. ASSUME NEW q \in Kinds
      PROVE  /\ Increasing(building'[q]) /\ Increasing(ready'[q]) /\ Increasing(frame'[q])
             /\ Before(frame'[q], ready'[q]) /\ Before(frame'[q], building'[q])
             /\ Before(ready'[q], building'[q]) /\ Upto(frame'[q], submitted')
             /\ Upto(ready'[q], submitted') /\ Upto(building'[q], submitted')
  <2>1. building'[q] = <<>> /\ ready'[q] = building[q] /\ frame'[q] = frame[q]
    BY <1>1
  <2>2. /\ Increasing(building[q]) /\ Increasing(frame[q]) /\ Before(frame[q], building[q])
        /\ Upto(frame[q], submitted) /\ Upto(building[q], submitted)
    BY DEF OrderInv
  <2> QED
    BY <1>1, <2>1, <2>2, EmptyQueue
<1>4. /\ Increasing(pending') /\ Upto(pending', submitted') /\ Before(frame'["raw"], pending')
      /\ Before(pending', ready'["raw"]) /\ Before(pending', building'["raw"])
  BY <1>1, <1>2, EmptyQueue DEF OrderInv
<1> QED
  BY <1>3, <1>4 DEF OrderInv

\* Taking a translated chunk puts it behind the held ones.
LEMMA TakeOrder ==
  ASSUME TypeOK, OrderInv, PresentTranslated, UNCHANGED <<building, submitted>> PROVE OrderInv'
<1> DEFINE draws == pending \o ready["raw"]
<1>1. "raw" \in Kinds
  BY DEF Kinds
<1>2. /\ pending \in Seq(Draws) /\ ready["raw"] \in Seq(Draws) /\ submitted \in Nat
      /\ building["raw"] \in Seq(Draws) /\ frame["raw"] \in Seq(Draws)
  BY <1>1 DEF TypeOK
<1>3. draws \in Seq(Draws) /\ Increasing(draws)
  BY <1>1, <1>2, Joined DEF OrderInv
<1>4. /\ Before(draws, building["raw"]) /\ Before(frame["raw"], draws) /\ Upto(draws, submitted)
  BY <1>1, <1>2, JoinedBefore DEF OrderInv
<1>5. Hold(draws) \/ Show(draws)
  BY DEF PresentTranslated, Merge
<1> HIDE DEF draws
<1>6. \A q \in Kinds : ready'[q] = IF q = "raw" THEN <<>> ELSE ready[q]
  BY DEF PresentTranslated, Consume, TypeOK
<1>7. CASE Hold(draws)
  BY <1>1, <1>3, <1>4, <1>6, <1>7, EmptyQueue DEF Hold, OrderInv
<1>8. CASE Show(draws)
  <2>1. \A q \in Kinds : frame'[q] = IF q = "raw" THEN draws ELSE frame[q]
    BY <1>8 DEF Show, TypeOK
  <2>2. pending' = <<>>
    BY <1>8 DEF Show
  <2> QED
    BY <1>1, <1>3, <1>4, <1>6, <2>1, <2>2, EmptyQueue DEF OrderInv
<1> QED
  BY <1>5, <1>7, <1>8

\* Taking a decoded chunk replaces the decoded frame.
LEMMA TakeDecodedOrder ==
  ASSUME TypeOK, OrderInv, PresentDecoded, UNCHANGED <<building, submitted>> PROVE OrderInv'
<1>1. "raw" \in Kinds /\ "decoded" \in Kinds /\ pending' = pending
  BY DEF PresentDecoded, Kinds
<1>2. \A q \in Kinds : ready'[q] = IF q = "decoded" THEN <<>> ELSE ready[q]
  BY DEF PresentDecoded, Consume, TypeOK
<1>3. \A q \in Kinds : frame'[q] = IF q = "decoded" THEN ready[q] ELSE frame[q]
  BY DEF PresentDecoded, TypeOK
<1> QED
  BY <1>1, <1>2, <1>3, EmptyQueue DEF OrderInv

\* Every step keeps the order between the queues.
LEMMA OrderStep == TypeOK /\ OrderInv /\ [Next]_vars => OrderInv'
<1> SUFFICES ASSUME TypeOK, OrderInv, [Next]_vars PROVE OrderInv'
  OBVIOUS
<1>1. CASE UNCHANGED <<building, ready, submitted, frame, pending>>
  BY <1>1 DEF OrderInv
<1>2. CASE PresentClearFrame
  <2>1. CASE PresentTranslated
    BY <2>1, TakeOrder DEF PresentTranslated, Consume
  <2>2. CASE PresentDecoded
    BY <2>2, TakeDecodedOrder DEF PresentDecoded, Consume
  <2>3. CASE PresentSame
    BY <1>1, <2>3 DEF PresentSame, queueVars, presentVars
  <2> QED
    BY <1>2, <2>1, <2>2, <2>3 DEF PresentClearFrame
<1>3. CASE EndGuestFrame
  BY <1>3, PublishOrder
<1>4. ASSUME NEW d \in Dests, SubmitDraw(d) PROVE OrderInv'
  BY <1>4, SubmitOrder
<1> QED
  BY <1>1, <1>2, <1>3, <1>4 DEF Next, WalkerStep, PresentStep, Swap, NotifyAll, FrameDue, OverlayDue,
     NothingDue, LoopEnd, WaitCheck, WaitTimeout, Shutdown, vars, queueVars, presentVars

\* Pairwise order is the order of the whole line.
LEMMA OrderOfLines == TypeOK /\ OrderInv => DrawsInOrder
<1> SUFFICES ASSUME TypeOK, OrderInv PROVE DrawsInOrder
  OBVIOUS
<1> DEFINE f == frame["raw"]
           r == ready["raw"]
           b == building["raw"]
           fd == frame["decoded"]
           rd == ready["decoded"]
           bd == building["decoded"]
<1>1. /\ f \in Seq(Draws) /\ r \in Seq(Draws) /\ b \in Seq(Draws) /\ pending \in Seq(Draws)
      /\ fd \in Seq(Draws) /\ rd \in Seq(Draws) /\ bd \in Seq(Draws)
  BY DEF TypeOK, Kinds
<1>2. /\ Increasing(f) /\ Increasing(r) /\ Increasing(b) /\ Increasing(pending)
      /\ Before(f, r) /\ Before(f, b) /\ Before(r, b)
      /\ Before(f, pending) /\ Before(pending, r) /\ Before(pending, b)
  BY DEF OrderInv, Kinds
<1>3. /\ Increasing(fd) /\ Increasing(rd) /\ Increasing(bd)
      /\ Before(fd, rd) /\ Before(fd, bd) /\ Before(rd, bd)
  BY DEF OrderInv, Kinds
<1>4. RawLine = ((f \o pending) \o r) \o b /\ DecodedLine = (fd \o rd) \o bd
  BY DEF RawLine, DecodedLine
<1> HIDE DEF f, r, b, fd, rd, bd
<1>5. /\ f \o pending \in Seq(Draws) /\ Increasing(f \o pending)
      /\ Before(f \o pending, r) /\ Before(f \o pending, b)
  BY <1>1, <1>2, Joined, JoinedBefore
<1>6. /\ (f \o pending) \o r \in Seq(Draws) /\ Increasing((f \o pending) \o r)
      /\ Before((f \o pending) \o r, b)
  BY <1>1, <1>2, <1>5, Joined, JoinedBefore
<1>7. Increasing(((f \o pending) \o r) \o b)
  BY <1>1, <1>2, <1>6, Joined
<1>8. fd \o rd \in Seq(Draws) /\ Increasing(fd \o rd) /\ Before(fd \o rd, bd)
  BY <1>1, <1>3, Joined, JoinedBefore
<1>9. Increasing((fd \o rd) \o bd)
  BY <1>1, <1>3, <1>8, Joined
<1> QED
  BY <1>4, <1>7, <1>9 DEF DrawsInOrder

-----------------------------------------------------------------------------
(* Theorems.                                                               *)

\* The inductive invariant.
IInv == TypeOK /\ OrderInv /\ HoldInv /\ PointerInv /\ NoLostWakeup

\* The inductive invariant holds when the program starts.
LEMMA InitIInv == Init => IInv
<1> SUFFICES ASSUME Init PROVE IInv
  OBVIOUS
<1>1. OrderInv
  BY EmptyQueue DEF Init, OrderInv, Kinds
<1>2. HoldInv
  BY FrameQueueAssumption, EmptyQueue DEF Init, HoldInv, HoldsAreBounded
<1>3. PointerInv
  BY DEF Init, PointerInv, Kinds
<1> QED
  BY <1>1, <1>2, <1>3, InitTypeOK DEF Init, IInv, NoLostWakeup

\* The inductive invariant holds of the specification.
THEOREM Invariance == Spec => []IInv
<1>1. Init => IInv
  BY InitIInv
<1>2. IInv /\ [Next]_vars => IInv'
  BY TypeStep, OrderStep, HoldStep, PointerStep, WakeStep DEF IInv
<1> QED
  BY <1>1, <1>2, PTL DEF Spec

\* The variables keep their types and chunks stay below the runaway guards.
THEOREM TypeCorrect == Spec => []TypeOK
<1>1. IInv => TypeOK
  BY DEF IInv
<1> QED
  BY <1>1, Invariance, PTL

\* No draw is repeated or reordered between its submission and the screen.
THEOREM DrawOrder == Spec => []DrawsInOrder
<1>1. IInv => DrawsInOrder
  BY OrderOfLines DEF IInv
<1> QED
  BY <1>1, Invariance, PTL

\* A guest that never resolves to its front buffer is still shown after at most
\* kMaxHolds held chunks.
THEOREM HoldBound == Spec => []HoldsAreBounded
<1>1. IInv => HoldsAreBounded
  BY DEF IInv, HoldInv
<1> QED
  BY <1>1, Invariance, PTL

\* The present thread does not sleep through a published frame.
THEOREM PresentWakes == Spec => []NoLostWakeup
<1>1. IInv => NoLostWakeup
  BY DEF IInv
<1> QED
  BY <1>1, Invariance, PTL

\* Only a translated present empties the raw mailbox.
LEMMA TakesByPresent ==
  ASSUME TypeOK, [Next]_vars, TakesChunk
  PROVE  PresentTranslated /\ UNCHANGED <<frames, swaps>>
<1>1. "raw" \in Kinds /\ "decoded" # "raw"
  BY DEF Kinds
<1>2. CASE PresentClearFrame
  <2>1. ~ PresentDecoded /\ ~ PresentSame
    BY <1>1 DEF TakesChunk, PresentDecoded, PresentSame, Consume, Consumed, TypeOK, queueVars
  <2> QED
    BY <1>2, <2>1 DEF PresentClearFrame, PresentTranslated, Consume, walkerVars
<1>3. CASE EndGuestFrame
  BY <1>1, <1>3 DEF EndGuestFrame, TakesChunk
<1>4. CASE fresh' = fresh
  BY <1>4 DEF TakesChunk
<1> QED
  BY <1>2, <1>3, <1>4 DEF Next, WalkerStep, PresentStep, SubmitDraw, Swap, NotifyAll, FrameDue,
     OverlayDue, NothingDue, LoopEnd, WaitCheck, WaitTimeout, Shutdown, vars, queueVars

\* The buffer displayed for a frame is the one its own XE_SWAP named.
THEOREM FbTravelsWithFrame == Spec => FbTravels
<1> DEFINE P == TakesChunk /\ held' = 0 /\ swaps[frames] # 0 => frame_fb' = swaps[frames]
<1>1. IInv /\ [Next]_vars => P
  <2> SUFFICES ASSUME IInv, [Next]_vars, TakesChunk, held' = 0, swaps[frames] # 0
               PROVE  frame_fb' = swaps[frames]
    OBVIOUS
  <2>1. PresentTranslated /\ ready_fb = swaps[frames]
    BY TakesByPresent DEF IInv, PointerInv, TakesChunk
  <2>2. Hold(pending \o ready["raw"]) \/ Show(pending \o ready["raw"])
    BY <2>1 DEF PresentTranslated, Merge
  <2>3. ~ Hold(pending \o ready["raw"])
    BY DEF Hold, IInv, TypeOK
  <2> QED
    BY <2>1, <2>2, <2>3 DEF Show, FbOf
<1>2. IInv /\ [Next]_vars => [P]_vars
  BY <1>1
<1> QED
  BY <1>2, Invariance, PTL DEF Spec, FbTravels

\* An incomplete frame is held while the limits leave room.
THEOREM FragmentsAreHeld == Spec => FragmentsWait
<1> DEFINE F == pending \o ready["raw"]
           Q == TakesChunk /\ ~Complete(F, ready_fb) /\ held < kMaxHolds /\ Len(F) <= kMaxPending
                => frame'["raw"] = frame["raw"] /\ held' = held + 1
<1>1. IInv /\ [Next]_vars => Q
  <2> SUFFICES ASSUME IInv, [Next]_vars, TakesChunk, ~Complete(F, ready_fb), held < kMaxHolds,
                      Len(F) <= kMaxPending
               PROVE  frame'["raw"] = frame["raw"] /\ held' = held + 1
    OBVIOUS
  <2>1. PresentTranslated
    BY TakesByPresent DEF IInv
  <2>2. MayHold(F)
    BY FrameQueueAssumption DEF MayHold, IInv, HoldInv, TypeOK
  <2>3. Hold(F)
    BY <2>1, <2>2 DEF PresentTranslated, Merge
  <2> QED
    BY <2>3 DEF Hold
<1>2. IInv /\ [Next]_vars => [Q]_vars
  BY <1>1
<1> QED
  BY <1>2, Invariance, PTL DEF Spec, FragmentsWait

\* The frame that is shown is whole, or has waited as long as the limits allow, and
\* is shown from its own buffer.
THEOREM FramesWhole == Spec => FramesAreWhole
  BY HoldBound, FragmentsAreHeld, FbTravelsWithFrame DEF FramesAreWhole
=============================================================================
