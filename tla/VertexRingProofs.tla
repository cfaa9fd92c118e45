---------------------------- MODULE VertexRingProofs ----------------------------
(***************************************************************************)
(* What TLAPS proves of VertexRing, for any addresses, handles, capacities *)
(* and limits: its types, that a frame in flight finds the bytes of its    *)
(* payloads, that offsets fit, and that buffers are accounted for.         *)
(***************************************************************************)
EXTENDS VertexRing, FiniteSetTheorems, SequenceTheorems, TLAPS

\* Where retired buffers may lie, and whose fence frees them.
RetireInv ==
  /\ \A s \in Slots : vb \notin r_retired_buffers[s]
  /\ \A s \in Slots : r_retired_buffers[s] # {} => pipelined /\ slot_submitted[s]
  /\ \A s \in Slots : \A b, c \in r_retired_buffers[s] : b = c
  /\ ppc \in {"top", "prepare"} => r_retired_buffers[Other(frame_slot)] = {}
  /\ ppc \in {"prepare", "size", "upload", "submit", "crashed"} => r_retired_buffers[frame_slot] = {}
  /\ ppc = "size" /\ vb # None => r_retired_buffers[Other(frame_slot)] = {}
  /\ ppc \in {"top", "prepare", "size"} /\ pipelined /\ vb # None => slot_submitted[Other(frame_slot)]
  /\ ppc = "wait" => ~pipelined

\* Which frames are in flight.
FlightInv ==
  /\ ~pipelined /\ ppc # "wait" => gpu = <<>>
  /\ ~pipelined => \A i \in DOMAIN gpu : gpu[i].slot = frame_slot
  /\ \A i \in DOMAIN gpu : pipelined => slot_submitted[gpu[i].slot]
  /\ ppc \in {"prepare", "size", "upload", "submit", "crashed"} => \A i \in DOMAIN gpu : gpu[i].slot # frame_slot
  /\ ppc # "submit" => recs = {}

\* The arena: what is cached lies below its end, with its bytes.
ArenaInv ==
  /\ vb = None => vb_cache = {} /\ vb_bump = 0 /\ capacity = 0
  /\ \A e \in vb_cache : e.off < vb_bump /\ [buf |-> vb, off |-> e.off, data |-> Payload(e.addr)] \in mem
  /\ Cardinality(Cached) <= vb_bump
  /\ pipelined => \A s \in Slots : region_base[s] <= vb_bump

\* The window a frame is about to write.
WindowInv ==
  ppc = "upload" =>
    /\ vb # None /\ vb_bump <= vb_wbase
    /\ IF vb_single_cursor
       THEN /\ vb_cache = {} /\ vb_wbase = 0 /\ Cardinality(frame) + kRelStreamRange <= capacity
            /\ \A i \in DOMAIN gpu : gpu[i].reads # {} => gpu[i].buf # vb
       ELSE /\ vb_stable \subseteq Misses /\ vb_wbase + Fresh + kRelStreamRange <= capacity
            /\ pipelined => \/ region_end[Other(frame_slot)] <= vb_wbase
                            \/ vb_wbase + Fresh <= region_base[Other(frame_slot)]

\* What a frame reads is there; in the current buffer, below the end of its slot's
\* region; otherwise in a buffer that waits for its slot's fence.
RecsInv ==
  \A r \in recs : /\ vb # None /\ ReadOk(vb, r)
                  /\ r.off < capacity /\ r.off + kRelStreamRange <= capacity
                  /\ pipelined => r.off < region_end[frame_slot]

ReadsInv ==
  \A i \in DOMAIN gpu : \A r \in gpu[i].reads :
    /\ gpu[i].buf # None /\ ReadOk(gpu[i].buf, r)
    /\ IF gpu[i].buf = vb THEN pipelined => r.off < region_end[gpu[i].slot]
                          ELSE gpu[i].buf \in r_retired_buffers[gpu[i].slot]

ContentInv == ArenaInv /\ WindowInv /\ RecsInv /\ ReadsInv

IInv == TypeOK /\ RetireInv /\ FlightInv /\ (~failed => ContentInv)

-----------------------------------------------------------------------------
(* Slots, places and handles.                                              *)

LEMMA SlotFacts ==
  ASSUME NEW s \in Slots
  PROVE  /\ Other(s) \in Slots /\ Other(s) # s /\ Other(Other(s)) = s
         /\ \A r \in Slots : r = s \/ r = Other(s)
  BY DEF Slots, Other

Frames == [slot : Slots, buf : Buffers \cup {None}, reads : SUBSET Reads]

LEMMA FrameType ==
  ASSUME TypeOK, NEW i \in DOMAIN gpu
  PROVE  /\ gpu[i].slot \in Slots /\ gpu[i].buf \in Buffers \cup {None}
         /\ \A r \in gpu[i].reads : r.off \in Nat
<1>1. gpu \in Seq(Frames)
  BY DEF TypeOK, Frames
<1>2. gpu[i] \in Frames
  BY <1>1
<1> QED
  BY <1>2 DEF Frames, Reads

LEMMA FiniteCounts ==
  ASSUME TypeOK
  PROVE  /\ IsFiniteSet(frame) /\ Cardinality(frame) \in Nat
         /\ IsFiniteSet(Misses) /\ Fresh \in Nat
         /\ IsFiniteSet(Cached) /\ Cardinality(Cached) \in Nat
         /\ Cached \subseteq Addresses /\ Misses \subseteq Addresses /\ Stable \subseteq Misses
<1>1. /\ frame \subseteq Addresses /\ Misses \subseteq Addresses /\ Cached \subseteq Addresses
  BY DEF TypeOK, Misses, Cached
<1>2. IsFiniteSet(frame) /\ IsFiniteSet(Misses) /\ IsFiniteSet(Cached)
  BY <1>1, VertexRingAssumption, FS_Subset
<1> QED
  BY <1>1, <1>2, FS_CardinalityType DEF Fresh, Stable

LEMMA BaseType ==
  ASSUME TypeOK
  PROVE  /\ Base \in Nat /\ Base >= vb_bump
         /\ pipelined => \/ region_end[Other(frame_slot)] <= Base
                         \/ Base + Fresh <= region_base[Other(frame_slot)]
<1> DEFINE e == region_end[Other(frame_slot)]
           b == region_base[Other(frame_slot)]
<1>1. e \in Nat /\ b \in Nat /\ vb_bump \in Nat /\ Fresh \in Nat
  BY FiniteCounts, SlotFacts DEF TypeOK
<1>2. Base = IF pipelined /\ e > vb_bump /\ vb_bump + Fresh > b THEN e ELSE vb_bump
  BY DEF Base
<1> HIDE DEF e, b
<1>3. /\ Base \in Nat /\ Base >= vb_bump
      /\ pipelined => e <= Base \/ Base + Fresh <= b
  BY <1>1, <1>2
<1> QED
  BY <1>3 DEF e, b

\* There is always a handle that nothing uses.
LEMMA NewBufferIsNew ==
  ASSUME TypeOK, RetireInv, ppc = "size"
  PROVE  NewBuffer \in Buffers /\ NewBuffer \notin Live
<1>1. PICK y : Live \subseteq {vb, y}
  <2>1. r_retired_buffers[frame_slot] = {}
    BY DEF RetireInv
  <2>2. \A b, c \in r_retired_buffers[Other(frame_slot)] : b = c
    BY SlotFacts DEF RetireInv, TypeOK
  <2>3. Live \subseteq {vb} \cup r_retired_buffers[Other(frame_slot)]
    <3>1. frame_slot = 0 \/ frame_slot = 1
      BY DEF TypeOK, Slots
    <3> QED
      BY <2>1, <3>1 DEF Live, Other
  <2> QED
    BY <2>2, <2>3
<1>2. IsFiniteSet({vb, y}) /\ Cardinality({vb, y}) <= 2
  <2>1. IsFiniteSet({y}) /\ Cardinality({y}) = 1
    BY FS_Singleton
  <2>2. {vb, y} = {y} \cup {vb}
    OBVIOUS
  <2> QED
    BY <2>1, <2>2, FS_AddElement
<1>3. ~(Buffers \subseteq Live)
  <2> SUFFICES ASSUME Buffers \subseteq Live PROVE FALSE
    OBVIOUS
  <2>1. Buffers \subseteq {vb, y}
    BY <1>1
  <2>2. Cardinality(Buffers) <= Cardinality({vb, y})
    BY <2>1, <1>2, FS_Subset
  <2>3. Cardinality(Buffers) \in Nat /\ Cardinality({vb, y}) \in Nat /\ Cardinality(Buffers) >= 3
    BY <1>2, VertexRingAssumption, FS_CardinalityType
  <2> QED
    BY <1>2, <2>2, <2>3
<1> QED
  BY <1>3 DEF NewBuffer

\* Rounding up gives room for what is asked.
LEMMA RoundedIsEnough ==
  ASSUME NEW n \in Nat, NEW c \in Rounded(Enough(n))
  PROVE  c \in Nat /\ n <= c
<1>1. c \in Nat /\ c >= n + n \div 4
  BY VertexRingAssumption DEF Rounded, Enough
<1>2. n \div 4 \in Nat
  OBVIOUS
<1> QED
  BY <1>1, <1>2

-----------------------------------------------------------------------------
LEMMA InitHolds == Init => IInv
<1> SUFFICES ASSUME Init PROVE IInv
  OBVIOUS
<1>1. TypeOK
  <2>1. gpu \in Seq(Frames) /\ recs = {} /\ mem = {} /\ vb_cache = {}
    BY DEF Init
  <2>2. NoRegion \in [Slots -> Nat] /\ frame_slot \in Slots
    BY DEF Init, NoRegion, Slots
  <2>3. /\ vb_lastmiss = {} /\ vb_stable = {} /\ frame = {} /\ dropped = {}
        /\ allocation = [a \in Addresses |-> 0] /\ region_base = NoRegion /\ region_end = NoRegion
        /\ r_retired_buffers = [s \in Slots |-> {}] /\ slot_submitted = [s \in Slots |-> FALSE]
        /\ vb_single_cursor = FALSE /\ failed = FALSE /\ ppc = "top" /\ pipelined \in Modes
        /\ vb = None /\ capacity = 0 /\ vb_bump = 0 /\ vb_wbase = 0 /\ drops = 0
    BY DEF Init
  <2> QED
    BY <2>1, <2>2, <2>3 DEF TypeOK, Frames
<1>2. RetireInv
  BY SlotFacts DEF Init, RetireInv, Slots, Other
<1>3. FlightInv
  BY DEF Init, FlightInv
<1>4. ContentInv
  <2>1. Cached = {}
    BY DEF Init, Cached
  <2>2. ArenaInv
    BY <2>1, FS_EmptySet DEF Init, ArenaInv, NoRegion
  <2> QED
    BY <2>2 DEF Init, ContentInv, WindowInv, RecsInv, ReadsInv
<1> QED
  BY <1>1, <1>2, <1>3, <1>4 DEF IInv

-----------------------------------------------------------------------------
(* Capture and the device.                                                 *)

LEMMA CaptureHolds ==
  ASSUME IInv, NEW a \in Addresses, Drop(a) \/ Reallocate(a)
  PROVE  IInv'
<1>t. TypeOK
  BY DEF IInv
<1>1. /\ UNCHANGED <<pipelined, ringVars, arenaVars, localVars, slotVars, ppc, frame, failed, gpu>>
      /\ vb_lastmiss' \subseteq vb_lastmiss
      /\ dropped' \subseteq Addresses /\ drops' \in Nat /\ allocation' \in [Addresses -> Nat]
      /\ \A b \in Cached : allocation'[b] = allocation[b]
  <2>1. CASE Drop(a)
    BY <2>1, <1>t DEF Drop, TypeOK
  <2>2. CASE Reallocate(a)
    <3>1. a \notin Cached /\ allocation' = [allocation EXCEPT ![a] = @ + 1]
      BY <2>2 DEF Reallocate, Held
    <3>2. /\ UNCHANGED <<pipelined, ringVars, arenaVars, localVars, slotVars, ppc, frame, failed, gpu>>
          /\ vb_lastmiss' \subseteq vb_lastmiss /\ dropped' \subseteq Addresses /\ drops' \in Nat
      BY <2>2, <1>t DEF Reallocate, TypeOK
    <3>3. allocation' \in [Addresses -> Nat] /\ \A b \in Cached : allocation'[b] = allocation[b]
      BY <3>1, <1>t, FiniteCounts DEF TypeOK
    <3> QED
      BY <3>2, <3>3
  <2> QED
    BY <2>1, <2>2
<1> USE DEF ringVars, arenaVars, localVars, slotVars
<1>2. TypeOK'
  BY <1>1, <1>t DEF TypeOK
<1>3. RetireInv' /\ FlightInv'
  BY <1>1 DEF IInv, RetireInv, FlightInv
<1>4. ASSUME ~failed PROVE ContentInv'
  <2>1. Cached' = Cached
    BY <1>1 DEF Cached
  <2>2. \A e \in vb_cache : Payload(e.addr)' = Payload(e.addr)
    BY <1>1 DEF Payload, Cached
  <2>3. ArenaInv'
    BY <1>1, <1>4, <2>1, <2>2 DEF IInv, ContentInv, ArenaInv
  <2>4. WindowInv'
    BY <1>1, <1>4, <2>1 DEF IInv, ContentInv, WindowInv, Misses, Fresh
  <2>5. RecsInv' /\ ReadsInv'
    BY <1>1, <1>4 DEF IInv, ContentInv, RecsInv, ReadsInv, ReadOk
  <2> QED
    BY <2>3, <2>4, <2>5 DEF ContentInv
<1> QED
  BY <1>1, <1>2, <1>3, <1>4 DEF IInv

\* A sequence without its first element.
LEMMA TailFacts ==
  ASSUME NEW S, NEW q \in Seq(S), q # <<>>
  PROVE  /\ Tail(q) \in Seq(S)
         /\ \A i \in DOMAIN Tail(q) : i + 1 \in DOMAIN q /\ Tail(q)[i] = q[i + 1]
  OBVIOUS

LEMMA CompleteHolds == IInv /\ Complete => IInv'
<1> SUFFICES ASSUME IInv, Complete PROVE IInv'
  OBVIOUS
<1>t. TypeOK
  BY DEF IInv
<1> USE DEF captureVars, ringVars, arenaVars, localVars, slotVars
<1>1. /\ gpu # <<>> /\ gpu' = Tail(gpu)
      /\ UNCHANGED <<pipelined, captureVars, ringVars, arenaVars, vb_lastmiss, localVars, slotVars, ppc, frame,
                     failed>>
  BY DEF Complete
<1>2. /\ gpu' \in Seq(Frames)
      /\ \A i \in DOMAIN gpu' : \E j \in DOMAIN gpu : gpu'[i] = gpu[j]
  BY <1>1, <1>t, TailFacts DEF TypeOK, Frames
<1>3. TypeOK'
  BY <1>1, <1>2, <1>t DEF TypeOK, Frames
<1>4. RetireInv'
  BY <1>1 DEF IInv, RetireInv
<1>5. FlightInv'
  BY <1>1, <1>2 DEF IInv, FlightInv
<1>6. ASSUME ~failed PROVE ContentInv'
  <2>1. ArenaInv' /\ RecsInv'
    BY <1>1, <1>6 DEF IInv, ContentInv, ArenaInv, RecsInv, Cached, Payload, ReadOk
  <2>2. WindowInv'
    BY <1>1, <1>2, <1>6 DEF IInv, ContentInv, WindowInv, Misses, Fresh, Cached
  <2>3. ReadsInv'
    BY <1>1, <1>2, <1>6 DEF IInv, ContentInv, ReadsInv, ReadOk
  <2> QED
    BY <2>1, <2>2, <2>3 DEF ContentInv
<1> QED
  BY <1>1, <1>3, <1>4, <1>5, <1>6 DEF IInv

-----------------------------------------------------------------------------
(* The top of the frame, and its end.                                      *)

LEMMA WaitSlotHolds == IInv /\ WaitSlot => IInv'
<1> SUFFICES ASSUME IInv, WaitSlot PROVE IInv'
  OBVIOUS
<1>t. TypeOK /\ RetireInv /\ FlightInv
  BY DEF IInv
<1> USE DEF captureVars, arenaVars, localVars
<1> DEFINE fs == frame_slot
           gone == Freed(fs)
<1>1. /\ ppc = "top" /\ FenceOk
      /\ slot_submitted' = [slot_submitted EXCEPT ![fs] = FALSE]
      /\ r_retired_buffers' = [r_retired_buffers EXCEPT ![fs] = @ \ gone]
      /\ mem' = Without(gone) /\ ppc' = "prepare"
      /\ UNCHANGED <<pipelined, captureVars, vb, capacity, arenaVars, vb_lastmiss, localVars, frame_slot, frame, failed,
                     gpu>>
  BY DEF WaitSlot
<1>2. /\ fs \in Slots /\ Other(fs) \in Slots /\ Other(fs) # fs
      /\ \A s \in Slots : s = fs \/ s = Other(fs)
  BY <1>t, SlotFacts DEF TypeOK
<1>3. gone = r_retired_buffers[fs]
  BY <1>1, <1>2, <1>t DEF RetireInv, Freed
<1>4. \A s \in Slots : r_retired_buffers'[s] = {}
  BY <1>1, <1>2, <1>3, <1>t DEF RetireInv, TypeOK
<1>5. \A i \in DOMAIN gpu : gpu[i].slot # fs
  <2> SUFFICES ASSUME NEW i \in DOMAIN gpu, gpu[i].slot = fs PROVE FALSE
    OBVIOUS
  <2>1. pipelined /\ slot_submitted[fs]
    <3>1. pipelined
      BY <1>1, <1>t DEF FlightInv, TypeOK
    <3> QED
      BY <3>1, <1>t DEF FlightInv
  <2> QED
    BY <1>1, <2>1 DEF FenceOk, InFlight
<1> HIDE DEF gone
<1>6. TypeOK'
  <2>1. mem' \subseteq mem
    BY <1>1 DEF Without
  <2>2. r_retired_buffers' \in [Slots -> SUBSET Buffers] /\ slot_submitted' \in [Slots -> BOOLEAN]
    BY <1>1, <1>t DEF TypeOK
  <2> QED
    BY <1>1, <1>t, <2>1, <2>2 DEF TypeOK
<1>7. RetireInv'
  <2>1. \A s \in Slots \ {fs} : slot_submitted'[s] = slot_submitted[s]
    BY <1>1, <1>t DEF TypeOK
  <2> QED
    BY <1>1, <1>2, <1>4, <1>t, <2>1 DEF RetireInv
<1>8. FlightInv'
  <2>1. \A i \in DOMAIN gpu : gpu[i].slot \in Slots
    BY <1>t, FrameType
  <2>2. \A s \in Slots \ {fs} : slot_submitted'[s] = slot_submitted[s]
    BY <1>1, <1>t DEF TypeOK
  <2> QED
    BY <1>1, <1>5, <1>t, <2>1, <2>2 DEF FlightInv
<1>9. ASSUME ~failed PROVE ContentInv'
  <2>0. ContentInv
    BY <1>9 DEF IInv
  <2>1. \A m \in mem : m.buf \notin r_retired_buffers[fs] => m \in mem'
    BY <1>1, <1>3 DEF Without
  <2>2. vb \notin r_retired_buffers[fs]
    BY <1>2, <1>t DEF RetireInv
  <2>3. \A e : [buf |-> vb, off |-> e.off, data |-> Payload(e.addr)] \in mem
                  => [buf |-> vb, off |-> e.off, data |-> Payload(e.addr)] \in mem'
    BY <2>1, <2>2
  <2>4. ArenaInv'
    BY <1>1, <2>0, <2>3 DEF ContentInv, ArenaInv, Cached, Payload
  <2>5. WindowInv' /\ RecsInv'
    BY <1>1, <1>t DEF WindowInv, RecsInv, FlightInv
  <2>6. ASSUME NEW i \in DOMAIN gpu, NEW r \in gpu[i].reads
        PROVE  /\ gpu[i].buf # None /\ ReadOk(gpu[i].buf, r)'
               /\ IF gpu[i].buf = vb THEN pipelined => r.off < region_end[gpu[i].slot]
                                     ELSE gpu[i].buf \in r_retired_buffers'[gpu[i].slot]
    <3>1. /\ gpu[i].buf # None /\ ReadOk(gpu[i].buf, r)
          /\ IF gpu[i].buf = vb THEN pipelined => r.off < region_end[gpu[i].slot]
                                ELSE gpu[i].buf \in r_retired_buffers[gpu[i].slot]
      BY <2>0 DEF ContentInv, ReadsInv
    <3>2. gpu[i].slot = Other(fs)
      BY <1>2, <1>5, <1>t, FrameType
    <3>3. r_retired_buffers[Other(fs)] = {}
      BY <1>1, <1>t DEF RetireInv
    <3>4. gpu[i].buf = vb
      BY <3>1, <3>2, <3>3
    <3> QED
      BY <1>1, <2>1, <2>2, <3>1, <3>4 DEF ReadOk
  <2>7. ReadsInv'
    BY <1>1, <2>6 DEF ReadsInv
  <2> QED
    BY <2>4, <2>5, <2>7 DEF ContentInv
<1> QED
  BY <1>1, <1>6, <1>7, <1>8, <1>9 DEF IInv

LEMMA SubmitHolds == IInv /\ Submit => IInv'
<1> SUFFICES ASSUME IInv, Submit PROVE IInv'
  OBVIOUS
<1>t. TypeOK /\ RetireInv /\ FlightInv
  BY DEF IInv
<1> USE DEF captureVars, ringVars, arenaVars, slotVars
<1> DEFINE fs == frame_slot
           new == [slot |-> fs, buf |-> vb, reads |-> recs]
<1>1. /\ ppc = "submit" /\ gpu' = Append(gpu, new) /\ recs' = {}
      /\ vb_wbase' = 0 /\ vb_stable' = {} /\ vb_single_cursor' = FALSE
      /\ IF pipelined
         THEN /\ slot_submitted' = [slot_submitted EXCEPT ![fs] = TRUE]
              /\ frame_slot' = Other(fs) /\ ppc' = "top"
         ELSE ppc' = "wait" /\ UNCHANGED <<slot_submitted, frame_slot>>
      /\ UNCHANGED <<pipelined, captureVars, ringVars, arenaVars, vb_lastmiss, frame, failed>>
  BY DEF Submit
<1>2. /\ fs \in Slots /\ Other(fs) \in Slots /\ Other(fs) # fs /\ Other(Other(fs)) = fs
      /\ \A s \in Slots : s = fs \/ s = Other(fs)
  BY <1>t, SlotFacts DEF TypeOK
<1>3. new \in Frames
  BY <1>t DEF TypeOK, Frames
<1> HIDE DEF new
<1>4. /\ gpu' \in Seq(Frames)
      /\ \A i \in DOMAIN gpu' : (i \in DOMAIN gpu /\ gpu'[i] = gpu[i]) \/ gpu'[i] = new
  BY <1>1, <1>3, <1>t DEF TypeOK, Frames
<1>5. slot_submitted' \in [Slots -> BOOLEAN] /\ \A s \in Slots : slot_submitted[s] => slot_submitted'[s]
  BY <1>1, <1>t DEF TypeOK
<1>6. TypeOK'
  BY <1>1, <1>2, <1>4, <1>5, <1>t DEF TypeOK, Frames
<1>7. pipelined => slot_submitted'[fs]
  BY <1>1, <1>2, <1>t DEF TypeOK
<1>8. RetireInv'
  BY <1>1, <1>2, <1>5, <1>7, <1>t DEF RetireInv
<1>9. FlightInv'
  <2>1. \A i \in DOMAIN gpu : gpu[i].slot \in Slots
    BY <1>t, FrameType
  <2>2. new.slot = fs
    BY DEF new
  <2>3. \A i \in DOMAIN gpu' : pipelined => slot_submitted'[gpu'[i].slot]
    BY <1>4, <1>5, <1>7, <1>t, <2>1, <2>2 DEF FlightInv
  <2>4. CASE pipelined
    BY <1>1, <2>3, <2>4 DEF FlightInv
  <2>5. CASE ~pipelined
    <3>1. gpu = <<>>
      BY <1>1, <1>t, <2>5 DEF FlightInv
    <3>2. \A i \in DOMAIN gpu' : gpu'[i].slot = frame_slot'
      BY <1>1, <1>4, <2>2, <2>5, <3>1
    <3> QED
      BY <1>1, <2>3, <2>5, <3>2 DEF FlightInv
  <2> QED
    BY <2>4, <2>5
<1>10. ASSUME ~failed PROVE ContentInv'
  <2>0. ContentInv
    BY <1>10 DEF IInv
  <2>1. ArenaInv' /\ RecsInv' /\ WindowInv'
    BY <1>1, <2>0 DEF ContentInv, ArenaInv, RecsInv, WindowInv, Cached, Payload
  <2>2. ASSUME NEW r \in recs
        PROVE  vb # None /\ ReadOk(vb, r) /\ (pipelined => r.off < region_end[fs])
    BY <2>0 DEF ContentInv, RecsInv
  <2>3. ReadsInv'
    BY <1>1, <1>4, <2>0, <2>2 DEF ContentInv, ReadsInv, ReadOk, new
  <2> QED
    BY <2>1, <2>3 DEF ContentInv
<1> QED
  BY <1>1, <1>6, <1>8, <1>9, <1>10 DEF IInv

\* Steps of the present thread that touch no buffer.
LEMMA RestHolds == IInv /\ (WaitFrame \/ EmptyFrame \/ Crash \/ UNCHANGED vars) => IInv'
<1> SUFFICES ASSUME IInv, WaitFrame \/ EmptyFrame \/ Crash \/ UNCHANGED vars PROVE IInv'
  OBVIOUS
<1>t. TypeOK /\ RetireInv /\ FlightInv
  BY DEF IInv
<1> USE DEF captureVars, ringVars, arenaVars, localVars, slotVars, vars
<1>1. /\ UNCHANGED <<pipelined, captureVars, ringVars, arenaVars, vb_lastmiss, localVars, slotVars, failed, gpu>>
      /\ frame' \subseteq Addresses
      /\ \/ ppc = "wait" /\ ppc' = "top" /\ ~InFlight(frame_slot)
         \/ ppc = "prepare" /\ ppc' = "submit"
         \/ ppc = "upload" /\ ppc' = "crashed"
         \/ ppc' = ppc /\ frame' = frame
  BY <1>t DEF WaitFrame, EmptyFrame, Crash, TypeOK
<1>2. TypeOK'
  BY <1>1, <1>t DEF TypeOK
<1>3. RetireInv'
  BY <1>1, <1>t, SlotFacts DEF RetireInv, TypeOK
<1>4. FlightInv'
  <2>1. CASE ppc = "wait" /\ ppc' = "top" /\ ~InFlight(frame_slot)
    <3>1. gpu = <<>>
      <4> SUFFICES ASSUME gpu # <<>> PROVE FALSE
        OBVIOUS
      <4>1. 1 \in DOMAIN gpu
        BY <1>t DEF TypeOK
      <4>2. gpu[1].slot = frame_slot
        BY <1>t, <2>1, <4>1 DEF RetireInv, FlightInv, TypeOK
      <4> QED
        BY <2>1, <4>1, <4>2 DEF InFlight
    <3> QED
      BY <1>1, <1>t, <2>1, <3>1 DEF FlightInv
  <2>2. CASE ppc # "wait"
    BY <1>1, <1>t, <2>2 DEF FlightInv
  <2> QED
    BY <1>1, <1>t, <2>1, <2>2 DEF FlightInv
<1>5. ASSUME ~failed PROVE ContentInv'
  <2>0. ContentInv
    BY <1>5 DEF IInv
  <2>1. ArenaInv' /\ ReadsInv'
    BY <1>1, <2>0 DEF ContentInv, ArenaInv, ReadsInv, Cached, Payload, ReadOk
  <2>2. RecsInv'
    BY <1>1, <2>0 DEF ContentInv, RecsInv, ReadOk
  <2>3. WindowInv'
    BY <1>1, <2>0 DEF ContentInv, WindowInv, Misses, Fresh, Cached
  <2> QED
    BY <2>1, <2>2, <2>3 DEF ContentInv
<1> QED
  BY <1>1, <1>2, <1>3, <1>4, <1>5 DEF IInv

-----------------------------------------------------------------------------
(* The arena is kept or dropped.                                           *)

LEMMA KeepArenaHolds ==
  ASSUME IInv, NEW f \in SUBSET Addresses, BeginFrame(f), KeepArena(f)
  PROVE  IInv'
<1>t. TypeOK /\ RetireInv /\ FlightInv
  BY DEF IInv
<1> USE DEF captureVars, localVars, slotVars
<1>1. /\ ppc = "prepare" /\ ppc' = "size" /\ frame' = f
      /\ UNCHANGED <<pipelined, captureVars, mem, vb_lastmiss, localVars, slotVars, failed, gpu,
                     vb_bump, region_base, region_end, r_retired_buffers, vb, capacity>>
      /\ vb_cache' \subseteq vb_cache
  BY DEF BeginFrame, KeepArena
<1>2. TypeOK'
  BY <1>1, <1>t DEF TypeOK
<1>3. RetireInv' /\ FlightInv'
  BY <1>1, <1>t DEF RetireInv, FlightInv
<1>4. ASSUME ~failed PROVE ContentInv'
  <2>0. ContentInv
    BY <1>4 DEF IInv
  <2>1. Cached' \subseteq Cached
    BY <1>1 DEF Cached
  <2>2. Cardinality(Cached') <= Cardinality(Cached) /\ Cardinality(Cached') \in Nat
    BY <2>1, <1>t, FiniteCounts, FS_Subset, FS_CardinalityType
  <2>3. Cardinality(Cached') <= vb_bump
    BY <2>0, <2>2, <1>t, FiniteCounts DEF ContentInv, ArenaInv, TypeOK
  <2>4. ArenaInv'
    BY <1>1, <2>0, <2>3 DEF ContentInv, ArenaInv, Payload
  <2>5. WindowInv' /\ RecsInv' /\ ReadsInv'
    BY <1>1, <2>0 DEF ContentInv, WindowInv, RecsInv, ReadsInv, ReadOk
  <2> QED
    BY <2>4, <2>5 DEF ContentInv
<1> QED
  BY <1>1, <1>2, <1>3, <1>4 DEF IInv

LEMMA WrapArenaHolds ==
  ASSUME IInv, NEW f \in SUBSET Addresses, BeginFrame(f), WrapArena
  PROVE  IInv'
<1>t. TypeOK /\ RetireInv /\ FlightInv
  BY DEF IInv
<1> USE DEF captureVars, localVars, slotVars
<1> DEFINE fs == frame_slot
<1>0. /\ fs \in Slots /\ Other(fs) \in Slots /\ Other(fs) # fs
      /\ \A s \in Slots : s = fs \/ s = Other(fs)
  BY <1>t, SlotFacts DEF TypeOK
<1>1. /\ ppc = "prepare" /\ ppc' = "size" /\ frame' = f
      /\ UNCHANGED <<pipelined, captureVars, mem, vb_lastmiss, localVars, slotVars, failed, gpu>>
      /\ vb_bump > kVbBumpCap /\ vb_cache' = {} /\ vb_bump' = 0
  BY DEF BeginFrame, WrapArena
<1>c. Cached' = {} /\ Cardinality(Cached') = 0
  BY <1>1, FS_EmptySet DEF Cached
<1>2. CASE pipelined /\ vb # None
  <2>1. /\ r_retired_buffers' = [r_retired_buffers EXCEPT ![Other(fs)] = @ \cup {vb}]
        /\ vb' = None /\ capacity' = 0 /\ region_base' = NoRegion /\ region_end' = NoRegion
    BY <1>2 DEF BeginFrame, WrapArena, Retire, RetiredTo
  <2>2. r_retired_buffers'[fs] = {} /\ r_retired_buffers'[Other(fs)] = {vb}
    BY <1>0, <1>1, <2>1, <1>t DEF RetireInv, TypeOK
  <2>3. TypeOK'
    <3>1. r_retired_buffers' \in [Slots -> SUBSET Buffers]
      BY <1>2, <2>1, <1>t DEF TypeOK
    <3>2. NoRegion \in [Slots -> Nat]
      BY DEF NoRegion
    <3> QED
      BY <1>1, <2>1, <3>1, <3>2, <1>t DEF TypeOK
  <2>4. RetireInv'
    <3>1. slot_submitted[Other(fs)]
      BY <1>1, <1>2, <1>t DEF RetireInv
    <3>2. None \notin Buffers /\ None # vb
      BY <1>2, VertexRingAssumption
    <3>3. vb' = None /\ ppc' = "size" /\ UNCHANGED <<pipelined, slot_submitted, frame_slot>>
      BY <1>1, <2>1
    <3>4. /\ \A s \in Slots : vb' \notin r_retired_buffers'[s]
          /\ \A s \in Slots : r_retired_buffers'[s] # {} => pipelined /\ slot_submitted[s]
          /\ \A s \in Slots : \A b, c \in r_retired_buffers'[s] : b = c
      BY <1>0, <1>2, <2>2, <3>1, <3>2, <3>3
    <3> QED
      BY <2>2, <3>3, <3>4 DEF RetireInv
  <2>5. FlightInv'
    BY <1>1, <1>t DEF FlightInv
  <2>6. ASSUME ~failed PROVE ContentInv'
    <3>0. ContentInv
      BY <2>6 DEF IInv
    <3>1. ArenaInv'
      BY <1>1, <1>c, <2>1 DEF ArenaInv, NoRegion
    <3>2. WindowInv' /\ RecsInv'
      BY <1>1, <1>t DEF WindowInv, RecsInv, FlightInv
    <3>3. ASSUME NEW i \in DOMAIN gpu, NEW r \in gpu[i].reads
          PROVE  /\ gpu[i].buf # None /\ ReadOk(gpu[i].buf, r)'
                 /\ gpu[i].buf \in r_retired_buffers'[gpu[i].slot]
      <4>1. gpu[i].slot = Other(fs)
        BY <1>0, <1>1, <1>t, FrameType DEF FlightInv
      <4>2. r_retired_buffers[Other(fs)] = {}
        BY <1>1, <1>t DEF RetireInv
      <4> QED
        BY <1>1, <2>2, <3>0, <4>1, <4>2 DEF ContentInv, ReadsInv, ReadOk
    <3>4. ReadsInv'
      BY <1>1, <2>1, <3>3 DEF ReadsInv
    <3> QED
      BY <3>1, <3>2, <3>4 DEF ContentInv
  <2> QED
    BY <1>1, <2>3, <2>4, <2>5, <2>6 DEF IInv
<1>3. CASE ~(pipelined /\ vb # None)
  <2>1. UNCHANGED <<r_retired_buffers, vb, capacity, region_base, region_end>>
    BY <1>3 DEF BeginFrame, WrapArena
  <2>2. TypeOK'
    BY <1>1, <2>1, <1>t DEF TypeOK
  <2>3. RetireInv' /\ FlightInv'
    BY <1>1, <2>1, <1>t DEF RetireInv, FlightInv
  <2>4. ASSUME ~failed PROVE ContentInv'
    <3>0. ContentInv
      BY <2>4 DEF IInv
    <3>1. ~pipelined
      <4>1. kVbBumpCap \in Nat /\ vb_bump \in Nat
        BY VertexRingAssumption, <1>t DEF TypeOK
      <4> QED
        BY <1>1, <1>3, <3>0, <4>1 DEF ContentInv, ArenaInv
    <3>2. ArenaInv'
      BY <1>1, <1>c, <2>1, <3>0, <3>1 DEF ContentInv, ArenaInv
    <3>3. WindowInv' /\ RecsInv'
      BY <1>1, <1>t DEF WindowInv, RecsInv, FlightInv
    <3>4. ReadsInv'
      BY <1>1, <2>1, <3>0 DEF ContentInv, ReadsInv, ReadOk
    <3> QED
      BY <3>2, <3>3, <3>4 DEF ContentInv
  <2> QED
    BY <1>1, <2>2, <2>3, <2>4 DEF IInv
<1> QED
  BY <1>2, <1>3

-----------------------------------------------------------------------------
(* Sizing.                                                                 *)

\* Giving up the old buffer: what frames in flight read from it stays until their
\* slot's fence.
LEMMA GiveUpKeeps ==
  ASSUME IInv, ppc = "size", GiveUp
  PROVE  /\ mem' \subseteq mem /\ r_retired_buffers' \in [Slots -> SUBSET Buffers]
         /\ r_retired_buffers'[frame_slot] = {}
         /\ \A s \in Slots : r_retired_buffers'[s] # {} => pipelined /\ slot_submitted[s]
         /\ \A s \in Slots : \A b, c \in r_retired_buffers'[s] : b = c
         /\ \A s \in Slots : r_retired_buffers'[s] \subseteq Live /\ None \notin r_retired_buffers'[s]
         /\ ~failed => \A i \in DOMAIN gpu : \A r \in gpu[i].reads :
              /\ gpu[i].buf # None /\ [buf |-> gpu[i].buf, off |-> r.off, data |-> r.data] \in mem'
              /\ gpu[i].buf \in r_retired_buffers'[gpu[i].slot]
<1>t. TypeOK /\ RetireInv /\ FlightInv
  BY DEF IInv
<1> DEFINE fs == frame_slot
<1>0. /\ fs \in Slots /\ Other(fs) \in Slots /\ Other(fs) # fs
      /\ \A s \in Slots : s = fs \/ s = Other(fs)
  BY <1>t, SlotFacts DEF TypeOK
<1>n. None \notin Buffers
  BY VertexRingAssumption
<1>l. \A s \in Slots : r_retired_buffers[s] \subseteq Live
  BY DEF Live, Slots
<1>1. CASE Destroyed
  <2>1. mem' = Without({vb}) /\ r_retired_buffers' = r_retired_buffers
    BY <1>1 DEF GiveUp
  <2>2. mem' \subseteq mem
    BY <2>1 DEF Without
  <2>3. /\ r_retired_buffers[fs] = {}
        /\ \A s \in Slots : r_retired_buffers[s] # {} => pipelined /\ slot_submitted[s]
        /\ \A s \in Slots : \A b, c \in r_retired_buffers[s] : b = c
        /\ \A s \in Slots : None \notin r_retired_buffers[s]
    BY <1>t, <1>n DEF RetireInv, TypeOK
  <2>4. ASSUME ~failed, NEW i \in DOMAIN gpu, NEW r \in gpu[i].reads
        PROVE  /\ gpu[i].buf # None /\ [buf |-> gpu[i].buf, off |-> r.off, data |-> r.data] \in mem'
               /\ gpu[i].buf \in r_retired_buffers[gpu[i].slot]
    <3>1. vb = None
      <4>1. CASE ~pipelined
        BY <4>1, <2>4, <1>t DEF FlightInv
      <4> QED
        BY <1>1, <4>1 DEF Destroyed
    <3>2. /\ gpu[i].buf # None /\ ReadOk(gpu[i].buf, r)
          /\ gpu[i].buf # vb => gpu[i].buf \in r_retired_buffers[gpu[i].slot]
      BY <2>4 DEF IInv, ContentInv, ReadsInv
    <3> QED
      BY <2>1, <3>1, <3>2 DEF ReadOk, Without
  <2> QED
    BY <2>1, <2>2, <2>3, <2>4, <1>l, <1>t DEF TypeOK
<1>2. CASE ~Destroyed
  <2>1. mem' = mem /\ r_retired_buffers' = [r_retired_buffers EXCEPT ![Other(fs)] = @ \cup {vb}]
    BY <1>2 DEF GiveUp, Retire, RetiredTo
  <2>2. vb # None /\ pipelined /\ vb \in Buffers /\ vb \in Live
    BY <1>2, <1>t DEF Destroyed, TypeOK, Live
  <2>3. r_retired_buffers[fs] = {} /\ r_retired_buffers[Other(fs)] = {} /\ slot_submitted[Other(fs)]
    BY <2>2, <1>t DEF RetireInv
  <2>4. r_retired_buffers'[fs] = {} /\ r_retired_buffers'[Other(fs)] = {vb}
    BY <1>0, <2>1, <2>3, <1>t DEF TypeOK
  <2>5. r_retired_buffers' \in [Slots -> SUBSET Buffers]
    BY <2>1, <2>2, <1>t DEF TypeOK
  <2>6. ASSUME ~failed, NEW i \in DOMAIN gpu, NEW r \in gpu[i].reads
        PROVE  /\ gpu[i].buf # None /\ [buf |-> gpu[i].buf, off |-> r.off, data |-> r.data] \in mem'
               /\ gpu[i].buf \in r_retired_buffers'[gpu[i].slot]
    <3>1. gpu[i].slot = Other(fs)
      BY <1>0, <1>t, FrameType DEF FlightInv
    <3> QED
      BY <2>1, <2>3, <2>4, <2>6, <3>1 DEF IInv, ContentInv, ReadsInv, ReadOk
  <2>7. /\ \A s \in Slots : r_retired_buffers'[s] # {} => pipelined /\ slot_submitted[s]
        /\ \A s \in Slots : \A b, c \in r_retired_buffers'[s] : b = c
        /\ \A s \in Slots : r_retired_buffers'[s] \subseteq Live /\ None \notin r_retired_buffers'[s]
    BY <1>0, <2>2, <2>3, <2>4
  <2> QED
    BY <2>1, <2>4, <2>5, <2>6, <2>7
<1> QED
  BY <1>1, <1>2

\* A frame that is sized and goes on without uploads, with the ring it has.
LEMMA SkipHolds ==
  ASSUME IInv, SizeFrame, SkipFrame \/ (OwnRingFails /\ UNCHANGED ringVars)
  PROVE  IInv'
<1>t. TypeOK /\ RetireInv /\ FlightInv
  BY DEF IInv
<1> USE DEF captureVars, ringVars, arenaVars, localVars, slotVars
<1>1. /\ ppc = "size" /\ ppc' = "submit" /\ (failed' = failed \/ failed' = TRUE)
      /\ UNCHANGED <<pipelined, captureVars, ringVars, arenaVars, localVars, slotVars, frame, gpu>>
      /\ vb_lastmiss' \subseteq Addresses
  BY <1>t, FiniteCounts DEF SizeFrame, SkipFrame, OwnRingFails, NoDraws, Fails
<1>2. TypeOK'
  BY <1>1, <1>t DEF TypeOK
<1>3. RetireInv' /\ FlightInv'
  BY <1>1, <1>t DEF RetireInv, FlightInv
<1>4. ASSUME ~failed' PROVE ContentInv'
  <2>0. ContentInv
    BY <1>1, <1>4 DEF IInv
  <2>1. recs = {}
    BY <1>1, <1>t DEF FlightInv
  <2>2. ArenaInv' /\ WindowInv' /\ RecsInv' /\ ReadsInv'
    BY <1>1, <2>0, <2>1 DEF ContentInv, ArenaInv, WindowInv, RecsInv, ReadsInv, ReadOk, Cached, Payload
  <2> QED
    BY <2>2 DEF ContentInv
<1> QED
  BY <1>1, <1>2, <1>3, <1>4 DEF IInv

LEMMA KeepRingHolds ==
  ASSUME IInv, SizeFrame, KeepRing
  PROVE  IInv'
<1>t. TypeOK /\ RetireInv /\ FlightInv
  BY DEF IInv
<1> USE DEF captureVars, ringVars, arenaVars, slotVars
<1>1. /\ ppc = "size" /\ ppc' = "upload" /\ frame # {} /\ Fits
      /\ vb_wbase' = Base /\ vb_stable' = Stable /\ vb_single_cursor' = FALSE
      /\ UNCHANGED <<pipelined, captureVars, ringVars, arenaVars, slotVars, recs, failed, frame, gpu>>
      /\ vb_lastmiss' \subseteq Addresses
  BY <1>t, FiniteCounts DEF SizeFrame, KeepRing
<1>2. TypeOK'
  BY <1>1, <1>t, BaseType, FiniteCounts DEF TypeOK
<1>3. RetireInv' /\ FlightInv'
  BY <1>1, <1>t DEF RetireInv, FlightInv
<1>4. ASSUME ~failed PROVE ContentInv'
  <2>0. ContentInv
    BY <1>4 DEF IInv
  <2>1. ArenaInv' /\ RecsInv' /\ ReadsInv'
    BY <1>1, <2>0, <1>t DEF ContentInv, ArenaInv, RecsInv, ReadsInv, ReadOk, Cached, Payload, FlightInv
  <2>2. Base + Fresh + kRelStreamRange <= capacity
    <3> DEFINE n == Base + Fresh + kRelStreamRange
    <3>0. capacity \in Nat /\ kRelStreamRange \in Nat
      BY <1>t, VertexRingAssumption DEF TypeOK
    <3>1. n \in Nat /\ capacity \in Nat
      <4>1. Base \in Nat /\ Fresh \in Nat
        BY <1>t, BaseType, FiniteCounts
      <4> QED
        BY <3>0, <4>1
    <3>2. n + n \div 4 <= capacity
      BY <1>1 DEF Fits, Enough, Need
    <3> HIDE DEF n
    <3>3. n \div 4 \in Nat
      BY <3>1
    <3>4. n <= capacity
      BY <3>1, <3>2, <3>3
    <3> QED
      BY <3>4 DEF n
  <2>3. vb # None
    <3> SUFFICES ASSUME vb = None PROVE FALSE
      OBVIOUS
    <3>1. capacity = 0 /\ vb_cache = {}
      BY <2>0 DEF ContentInv, ArenaInv
    <3>2. Misses = frame
      BY <3>1 DEF Misses, Cached
    <3>3. Fresh # 0
      BY <1>1, <3>2, <1>t, FiniteCounts, FS_EmptySet DEF Fresh
    <3> QED
      BY <2>2, <3>1, <3>3, <1>t, BaseType, FiniteCounts, VertexRingAssumption
  <2>4. Misses' = Misses /\ Fresh' = Fresh
    BY <1>1 DEF Misses, Fresh, Cached
  <2>5. WindowInv'
    BY <1>1, <2>2, <2>3, <2>4, <1>t, BaseType, FiniteCounts DEF WindowInv
  <2> QED
    BY <2>1, <2>5 DEF ContentInv
<1> QED
  BY <1>1, <1>2, <1>3, <1>4 DEF IInv

\* A frame fits into a new ring as a whole, with what had been counted as cached.
LEMMA WholeFrameFits ==
  ASSUME TypeOK, ArenaInv, NEW c \in Rounded(Enough(Need(Base)))
  PROVE  Cardinality(frame) + kRelStreamRange <= c
<1>1. /\ Base \in Nat /\ Base >= vb_bump /\ Fresh \in Nat /\ kRelStreamRange \in Nat /\ vb_bump \in Nat
  BY BaseType, FiniteCounts, VertexRingAssumption DEF TypeOK
<1>2. Need(Base) \in Nat /\ Need(Base) = Base + Fresh + kRelStreamRange
  BY <1>1 DEF Need
<1>3. c \in Nat /\ Need(Base) <= c
  BY <1>2, RoundedIsEnough
<1>4. Cardinality(frame) <= Cardinality(Cached) + Fresh
  <2>1. frame \subseteq Cached \cup Misses
    BY DEF Misses
  <2>2. IsFiniteSet(Cached \cup Misses) /\ Cardinality(Cached \cup Misses) <= Cardinality(Cached) + Cardinality(Misses)
    <3>1. IsFiniteSet(Cached) /\ IsFiniteSet(Misses)
      BY FiniteCounts
    <3>2. /\ IsFiniteSet(Cached \cup Misses)
          /\ Cardinality(Cached \cup Misses)
               = Cardinality(Cached) + Cardinality(Misses) - Cardinality(Cached \cap Misses)
      BY <3>1, FS_Union
    <3>3. Cardinality(Cached \cap Misses) \in Nat
      BY <3>1, FS_Intersection, FS_CardinalityType
    <3>4. Cardinality(Cached) \in Nat /\ Cardinality(Misses) \in Nat
      BY <3>1, FS_CardinalityType
    <3> QED
      BY <3>2, <3>3, <3>4
  <2>3. Cardinality(frame) <= Cardinality(Cached \cup Misses)
    BY <2>1, <2>2, FS_Subset
  <2>4. Cardinality(Cached \cup Misses) \in Nat
    BY <2>2, FS_CardinalityType
  <2> QED
    BY <2>2, <2>3, <2>4, FiniteCounts DEF Fresh
<1>5. Cardinality(Cached) <= vb_bump /\ Cardinality(Cached) \in Nat /\ Cardinality(frame) \in Nat
  BY FiniteCounts DEF ArenaInv
<1> QED
  BY <1>1, <1>2, <1>3, <1>4, <1>5

\* The buffer is replaced, or given up in vain.
LEMMA GrowHolds ==
  ASSUME IInv, SizeFrame, GrowRing \/ GrowFails \/ (OwnRingFails /\ ~Fits)
  PROVE  IInv'
<1>t. TypeOK /\ RetireInv /\ FlightInv
  BY DEF IInv
<1> USE DEF captureVars, slotVars
<1>1. /\ ppc = "size" /\ GiveUp
      /\ UNCHANGED <<pipelined, captureVars, slotVars, frame, gpu>> /\ recs' = recs
      /\ vb_lastmiss' \subseteq Addresses
      /\ ppc' \in {"upload", "submit"}
  BY <1>t, FiniteCounts DEF SizeFrame, GrowRing, GrowFails, OwnRingFails, NoDraws, localVars
<1>2. NewBuffer \in Buffers /\ NewBuffer \notin Live /\ None \notin Buffers /\ NoRegion \in [Slots -> Nat]
  BY <1>1, <1>t, NewBufferIsNew, VertexRingAssumption DEF NoRegion
<1>3. vb' \in {NewBuffer, None}
  BY DEF GrowRing, GrowFails, OwnRingFails
<1>4. /\ mem' \subseteq mem /\ r_retired_buffers' \in [Slots -> SUBSET Buffers]
      /\ r_retired_buffers'[frame_slot] = {}
      /\ \A s \in Slots : r_retired_buffers'[s] # {} => pipelined /\ slot_submitted[s]
      /\ \A s \in Slots : \A b, c \in r_retired_buffers'[s] : b = c
      /\ \A s \in Slots : r_retired_buffers'[s] \subseteq Live /\ None \notin r_retired_buffers'[s]
      /\ ~failed => \A i \in DOMAIN gpu : \A r \in gpu[i].reads :
           /\ gpu[i].buf # None /\ [buf |-> gpu[i].buf, off |-> r.off, data |-> r.data] \in mem'
           /\ gpu[i].buf \in r_retired_buffers'[gpu[i].slot]
  BY <1>1, GiveUpKeeps
<1>5. TypeOK'
  <2>1. GrowRing => /\ capacity' \in Nat /\ vb_cache' = {} /\ vb_bump' = 0
                    /\ region_base' = NoRegion /\ region_end' = NoRegion
                    /\ vb_wbase' = 0 /\ vb_stable' = {} /\ vb_single_cursor' = TRUE /\ failed' = failed
    BY VertexRingAssumption DEF GrowRing, Rounded
  <2>2. GrowFails \/ (OwnRingFails /\ ~Fits) =>
          /\ capacity' \in Nat /\ UNCHANGED <<arenaVars, vb_wbase, vb_stable, vb_single_cursor>> /\ failed' = TRUE
    BY VertexRingAssumption, <1>t DEF GrowFails, OwnRingFails, Rounded, NoDraws, localVars, Fails, TypeOK
  <2>3. /\ capacity' \in Nat /\ vb_cache' \subseteq [addr : Addresses, off : Nat] /\ vb_bump' \in Nat
        /\ region_base' \in [Slots -> Nat] /\ region_end' \in [Slots -> Nat]
        /\ vb_wbase' \in Nat /\ vb_stable' \subseteq Addresses /\ vb_single_cursor' \in BOOLEAN
        /\ failed' \in BOOLEAN
    <3>1. CASE GrowRing
      BY <2>1, <3>1, <1>2, <1>t DEF TypeOK
    <3>2. CASE GrowFails \/ (OwnRingFails /\ ~Fits)
      BY <2>2, <3>2, <1>t DEF TypeOK, arenaVars
    <3> QED
      BY <3>1, <3>2
  <2> QED
    BY <1>1, <1>2, <1>3, <1>4, <2>3, <1>t DEF TypeOK
<1>6. RetireInv'
  <2>1. \A s \in Slots : vb' \notin r_retired_buffers'[s]
    BY <1>2, <1>3, <1>4
  <2> QED
    BY <1>1, <1>4, <2>1 DEF RetireInv
<1>7. recs = {} /\ FlightInv'
  BY <1>1, <1>t DEF FlightInv
<1>8. ASSUME ~failed' PROVE ContentInv'
  <2>1. GrowRing /\ ~failed
    BY <1>8 DEF GrowRing, GrowFails, OwnRingFails, Fails
  <2>2. /\ ppc' = "upload" /\ vb' = NewBuffer /\ capacity' \in Rounded(Enough(Need(Base)))
        /\ vb_cache' = {} /\ vb_bump' = 0 /\ region_base' = NoRegion /\ region_end' = NoRegion
        /\ vb_wbase' = 0 /\ vb_stable' = {} /\ vb_single_cursor' = TRUE
    BY <2>1 DEF GrowRing
  <2>3. Cached' = {} /\ Cardinality(Cached') = 0
    BY <2>2, FS_EmptySet DEF Cached
  <2>4. ArenaInv'
    BY <1>2, <2>2, <2>3 DEF ArenaInv, NoRegion
  <2>5. RecsInv'
    BY <1>1, <1>7 DEF RecsInv
  <2>6. \A i \in DOMAIN gpu : gpu[i].reads # {} => gpu[i].buf \in Live
    <3> SUFFICES ASSUME NEW i \in DOMAIN gpu, gpu[i].reads # {} PROVE gpu[i].buf \in Live
      OBVIOUS
    <3>1. gpu[i].slot \in Slots
      BY <1>t, FrameType
    <3> QED
      BY <1>4, <2>1, <3>1
  <2>7. Cardinality(frame) + kRelStreamRange <= capacity'
    BY <2>1, <2>2, <1>t, WholeFrameFits DEF IInv, ContentInv
  <2>8. WindowInv'
    BY <1>1, <1>2, <2>2, <2>6, <2>7 DEF WindowInv
  <2>9. ReadsInv'
    <3>1. ASSUME NEW i \in DOMAIN gpu, NEW r \in gpu[i].reads PROVE gpu[i].buf # vb'
      BY <1>2, <2>2, <2>6, <3>1
    <3> QED
      BY <1>1, <1>4, <2>1, <3>1 DEF ReadsInv, ReadOk
  <2> QED
    BY <2>4, <2>5, <2>8, <2>9 DEF ContentInv
<1> QED
  BY <1>5, <1>6, <1>7, <1>8 DEF IInv

LEMMA SizeHolds == IInv /\ SizeFrame => IInv'
<1> SUFFICES ASSUME IInv, SizeFrame PROVE IInv'
  OBVIOUS
<1>1. SkipFrame \/ KeepRing \/ GrowRing \/ GrowFails \/ OwnRingFails
  BY DEF SizeFrame
<1>2. OwnRingFails => UNCHANGED ringVars \/ ~Fits
  BY DEF OwnRingFails
<1>3. CASE SkipFrame \/ (OwnRingFails /\ UNCHANGED ringVars)
  BY <1>3, SkipHolds
<1>4. CASE KeepRing
  BY <1>4, KeepRingHolds
<1>5. CASE GrowRing \/ GrowFails \/ (OwnRingFails /\ ~Fits)
  BY <1>5, GrowHolds
<1> QED
  BY <1>1, <1>2, <1>3, <1>4, <1>5

-----------------------------------------------------------------------------
(* Uploading.  The layout of one frame's payloads, as Upload defines it.   *)

NotCached(used) == used \ Cached
Kept(used)      == IF vb_single_cursor THEN NotCached(used) ELSE NotCached(used) \cap vb_stable
Scratched(used) == NotCached(used) \ Kept(used)
BumpOf(used)    == vb_wbase + Cardinality(Kept(used))
ScratchOf(used) == IF vb_single_cursor THEN BumpOf(used) ELSE vb_wbase + Cardinality(vb_stable)
EndOf(used)     == ScratchOf(used) + Cardinality(Scratched(used))
New(used, k, v) == {[addr |-> a, off |-> k[a]] : a \in Kept(used)} \cup {[addr |-> a, off |-> v[a]] : a \in Scratched(used)}

\* What there is in it: first what is kept, then the scratch.
LEMMA LayoutTypes ==
  ASSUME TypeOK, NEW used \in SUBSET frame
  PROVE  /\ NotCached(used) \subseteq Addresses /\ Kept(used) \subseteq NotCached(used)
         /\ IsFiniteSet(Kept(used)) /\ Cardinality(Kept(used)) \in Nat
         /\ IsFiniteSet(Scratched(used)) /\ Cardinality(Scratched(used)) \in Nat
         /\ BumpOf(used) \in Nat /\ vb_wbase \in Nat /\ ScratchOf(used) \in Nat /\ EndOf(used) \in Nat
         /\ vb_wbase <= BumpOf(used) /\ BumpOf(used) <= ScratchOf(used) /\ ScratchOf(used) <= EndOf(used)
<1>1. NotCached(used) \subseteq Addresses /\ Kept(used) \subseteq NotCached(used)
  BY DEF TypeOK, NotCached, Kept
<1>2. Kept(used) \subseteq Addresses /\ Scratched(used) \subseteq Addresses /\ vb_stable \subseteq Addresses
  BY <1>1 DEF Scratched, TypeOK
<1>3. IsFiniteSet(Kept(used)) /\ IsFiniteSet(Scratched(used)) /\ IsFiniteSet(vb_stable)
  BY <1>2, VertexRingAssumption, FS_Subset
<1>4. Cardinality(Kept(used)) \in Nat /\ Cardinality(Scratched(used)) \in Nat /\ Cardinality(vb_stable) \in Nat
  BY <1>3, FS_CardinalityType
<1>5. ~vb_single_cursor => Cardinality(Kept(used)) <= Cardinality(vb_stable)
  <2>1. ~vb_single_cursor => Kept(used) \subseteq vb_stable
    BY DEF Kept
  <2> QED
    BY <2>1, <1>3, FS_Subset
<1>6. vb_wbase \in Nat /\ vb_single_cursor \in BOOLEAN
  BY DEF TypeOK
<1> QED
  BY <1>1, <1>3, <1>4, <1>5, <1>6 DEF BumpOf, ScratchOf, EndOf

\* No two payloads overlap, and none lies outside the window.
LEMMA NewIsPacked ==
  ASSUME TypeOK, NEW used \in SUBSET frame,
         NEW k \in Packings(Kept(used), vb_wbase), NEW v \in Packings(Scratched(used), ScratchOf(used))
  PROVE  /\ \A e \in New(used, k, v) :
              /\ e.addr \in NotCached(used) /\ e.off \in Nat /\ vb_wbase <= e.off /\ e.off < EndOf(used)
              /\ e \in [addr : Addresses, off : Nat]
              /\ e.addr \in Kept(used) => e.off < BumpOf(used)
         /\ \A e, f \in New(used, k, v) : e.off = f.off => e = f
         /\ \A a \in Kept(used) : [addr |-> a, off |-> k[a]] \in New(used, k, v)
<1>l. /\ NotCached(used) \subseteq Addresses /\ Kept(used) \subseteq NotCached(used)
      /\ Cardinality(Kept(used)) \in Nat /\ Cardinality(Scratched(used)) \in Nat
      /\ BumpOf(used) \in Nat /\ vb_wbase \in Nat /\ ScratchOf(used) \in Nat /\ EndOf(used) \in Nat
      /\ vb_wbase <= BumpOf(used) /\ BumpOf(used) <= ScratchOf(used) /\ ScratchOf(used) <= EndOf(used)
  BY LayoutTypes
<1>1. ASSUME NEW a \in Kept(used)
      PROVE  k[a] \in Nat /\ vb_wbase <= k[a] /\ k[a] < BumpOf(used)
  <2>1. k[a] \in vb_wbase .. vb_wbase + Cardinality(Kept(used)) - 1
    BY DEF Packings
  <2> QED
    BY <2>1, <1>l DEF BumpOf
<1>2. ASSUME NEW a \in Scratched(used)
      PROVE  v[a] \in Nat /\ ScratchOf(used) <= v[a] /\ v[a] < EndOf(used)
  <2>1. v[a] \in ScratchOf(used) .. ScratchOf(used) + Cardinality(Scratched(used)) - 1
    BY DEF Packings
  <2> QED
    BY <2>1, <1>l DEF EndOf
<1>3. /\ \A a, b \in Kept(used) : k[a] = k[b] => a = b
      /\ \A a, b \in Scratched(used) : v[a] = v[b] => a = b
  BY DEF Packings
<1>4. \A a \in Kept(used), b \in Scratched(used) : k[a] # v[b]
  BY <1>1, <1>2, <1>l
<1>5. Scratched(used) \subseteq NotCached(used) /\ Scratched(used) \cap Kept(used) = {}
  BY DEF Scratched
<1>6. ASSUME NEW e \in New(used, k, v)
      PROVE  \/ \E a \in Kept(used) : e = [addr |-> a, off |-> k[a]]
             \/ \E a \in Scratched(used) : e = [addr |-> a, off |-> v[a]]
  BY DEF New
<1>7. ASSUME NEW e \in New(used, k, v)
      PROVE  /\ e.addr \in NotCached(used) /\ e.off \in Nat /\ vb_wbase <= e.off /\ e.off < EndOf(used)
             /\ e \in [addr : Addresses, off : Nat]
             /\ e.addr \in Kept(used) => e.off < BumpOf(used)
  <2>1. CASE \E a \in Kept(used) : e = [addr |-> a, off |-> k[a]]
    BY <2>1, <1>1, <1>l
  <2>2. CASE \E a \in Scratched(used) : e = [addr |-> a, off |-> v[a]]
    BY <2>2, <1>2, <1>5, <1>l
  <2> QED
    BY <2>1, <2>2, <1>6
<1>8. ASSUME NEW e \in New(used, k, v), NEW f \in New(used, k, v), e.off = f.off PROVE e = f
  <2>1. CASE \E a \in Kept(used) : e = [addr |-> a, off |-> k[a]]
    BY <2>1, <1>3, <1>4, <1>6, <1>8
  <2>2. CASE \E a \in Scratched(used) : e = [addr |-> a, off |-> v[a]]
    BY <2>2, <1>3, <1>4, <1>6, <1>8
  <2> QED
    BY <2>1, <2>2, <1>6
<1>9. \A a \in Kept(used) : [addr |-> a, off |-> k[a]] \in New(used, k, v)
  BY DEF New
<1> QED
  BY <1>7, <1>8, <1>9

\* Upload in these terms.
LEMMA UploadIs ==
  ASSUME NEW used \in SUBSET frame, Upload(used)
  PROVE  \E k \in Packings(Kept(used), vb_wbase), v \in Packings(Scratched(used), ScratchOf(used)) :
           /\ ppc = "upload" /\ vb # None /\ ppc' = "submit"
           /\ mem' = {m \in mem : m.buf # vb \/ m.off \notin {e.off : e \in New(used, k, v)}}
                       \cup {[buf |-> vb, off |-> e.off, data |-> Payload(e.addr)] : e \in New(used, k, v)}
           /\ recs' = {[data |-> Payload(e.addr), off |-> e.off] :
                         e \in New(used, k, v) \cup {c \in vb_cache : c.addr \in used}}
           /\ vb_cache' = vb_cache \cup {e \in New(used, k, v) : e.addr \in Kept(used)}
           /\ vb_bump' = BumpOf(used)
           /\ IF pipelined
              THEN /\ region_base' = [region_base EXCEPT ![frame_slot] = BumpOf(used)]
                   /\ region_end' = [region_end EXCEPT ![frame_slot] = EndOf(used)]
              ELSE UNCHANGED <<region_base, region_end>>
           /\ UNCHANGED <<pipelined, captureVars, vb, capacity, r_retired_buffers, vb_lastmiss, vb_wbase, vb_stable,
                          vb_single_cursor, slotVars, frame, failed, gpu>>
  BY DEF Upload, NotCached, Kept, Scratched, BumpOf, ScratchOf, EndOf, New

\* A frame writes no further than its sizing allowed.
LEMMA WindowIsEnough ==
  ASSUME TypeOK, WindowInv, ppc = "upload", NEW used \in SUBSET frame
  PROVE  /\ EndOf(used) + kRelStreamRange <= capacity
         /\ ~vb_single_cursor => EndOf(used) <= vb_wbase + Fresh
<1>l. /\ NotCached(used) \subseteq Addresses /\ Kept(used) \subseteq NotCached(used)
      /\ IsFiniteSet(Scratched(used)) /\ Cardinality(Kept(used)) \in Nat /\ Cardinality(Scratched(used)) \in Nat
      /\ BumpOf(used) \in Nat /\ vb_wbase \in Nat /\ ScratchOf(used) \in Nat /\ EndOf(used) \in Nat
  BY LayoutTypes
<1>k. kRelStreamRange \in Nat /\ capacity \in Nat /\ Fresh \in Nat /\ Cardinality(frame) \in Nat
  BY VertexRingAssumption, FiniteCounts DEF TypeOK
<1>1. CASE vb_single_cursor
  <2>1. /\ Kept(used) = NotCached(used) /\ Scratched(used) = {}
        /\ ScratchOf(used) = vb_wbase + Cardinality(Kept(used))
    BY <1>1 DEF Kept, Scratched, ScratchOf, BumpOf
  <2>2. Cardinality(Scratched(used)) = 0
    BY <2>1, FS_EmptySet
  <2>3. NotCached(used) \subseteq frame
    BY DEF NotCached
  <2>4. Cardinality(Kept(used)) <= Cardinality(frame)
    BY <2>1, <2>3, FiniteCounts, FS_Subset
  <2>5. vb_wbase = 0 /\ Cardinality(frame) + kRelStreamRange <= capacity
    BY <1>1 DEF WindowInv
  <2>6. EndOf(used) = Cardinality(Kept(used))
    BY <2>1, <2>2, <2>5, <1>l DEF EndOf
  <2> QED
    BY <1>1, <1>k, <1>l, <2>4, <2>5, <2>6
<1>2. CASE ~vb_single_cursor
  <2>1. vb_stable \subseteq Misses /\ vb_wbase + Fresh + kRelStreamRange <= capacity
    BY <1>2 DEF WindowInv
  <2>2. Scratched(used) \subseteq Misses /\ vb_stable \cap Scratched(used) = {}
    BY <1>2 DEF Scratched, Kept, NotCached, Misses
  <2>3. IsFiniteSet(vb_stable) /\ IsFiniteSet(Misses)
    BY <2>1, FiniteCounts, FS_Subset
  <2>4. Cardinality(vb_stable \cup Scratched(used)) = Cardinality(vb_stable) + Cardinality(Scratched(used))
    <3>1. Cardinality(vb_stable \cap Scratched(used)) = 0
      BY <2>2, FS_EmptySet
    <3>2. Cardinality(vb_stable) \in Nat
      BY <2>3, FS_CardinalityType
    <3> QED
      BY <2>3, <1>l, <3>1, <3>2, FS_Union
  <2>5. Cardinality(vb_stable \cup Scratched(used)) <= Fresh
    BY <2>1, <2>2, <2>3, FS_Subset DEF Fresh
  <2>6. Cardinality(vb_stable) \in Nat
    BY <2>3, FS_CardinalityType
  <2>7. EndOf(used) = vb_wbase + Cardinality(vb_stable) + Cardinality(Scratched(used))
    BY <1>2 DEF EndOf, ScratchOf
  <2> QED
    BY <1>k, <1>l, <2>1, <2>4, <2>5, <2>6, <2>7
<1> QED
  BY <1>1, <1>2 DEF TypeOK

LEMMA UploadHolds ==
  ASSUME IInv, NEW used \in SUBSET frame, Upload(used)
  PROVE  IInv'
<1>t. TypeOK /\ RetireInv /\ FlightInv
  BY DEF IInv
<1> DEFINE fs == frame_slot
<1> PICK k \in Packings(Kept(used), vb_wbase), v \in Packings(Scratched(used), ScratchOf(used)) :
      /\ ppc = "upload" /\ vb # None /\ ppc' = "submit"
      /\ mem' = {m \in mem : m.buf # vb \/ m.off \notin {e.off : e \in New(used, k, v)}}
                  \cup {[buf |-> vb, off |-> e.off, data |-> Payload(e.addr)] : e \in New(used, k, v)}
      /\ recs' = {[data |-> Payload(e.addr), off |-> e.off] :
                    e \in New(used, k, v) \cup {c \in vb_cache : c.addr \in used}}
      /\ vb_cache' = vb_cache \cup {e \in New(used, k, v) : e.addr \in Kept(used)}
      /\ vb_bump' = BumpOf(used)
      /\ IF pipelined
         THEN /\ region_base' = [region_base EXCEPT ![fs] = BumpOf(used)]
              /\ region_end' = [region_end EXCEPT ![fs] = EndOf(used)]
         ELSE UNCHANGED <<region_base, region_end>>
      /\ UNCHANGED <<pipelined, captureVars, vb, capacity, r_retired_buffers, vb_lastmiss, vb_wbase, vb_stable,
                     vb_single_cursor, slotVars, frame, failed, gpu>>
  BY UploadIs
<1> DEFINE new == New(used, k, v)
           bump == BumpOf(used)
           end == EndOf(used)
<1>0. /\ fs \in Slots /\ Other(fs) \in Slots /\ Other(fs) # fs
      /\ \A s \in Slots : s = fs \/ s = Other(fs)
  BY <1>t, SlotFacts DEF TypeOK
<1>l. /\ NotCached(used) \subseteq Addresses /\ Kept(used) \subseteq NotCached(used)
      /\ IsFiniteSet(Kept(used)) /\ Cardinality(Kept(used)) \in Nat
      /\ bump \in Nat /\ vb_wbase \in Nat /\ end \in Nat
      /\ vb_wbase <= bump /\ bump <= end
  BY <1>t, LayoutTypes
<1>n. /\ \A e \in new : /\ e.addr \in NotCached(used) /\ e.off \in Nat /\ vb_wbase <= e.off /\ e.off < end
                        /\ e \in [addr : Addresses, off : Nat]
                        /\ e.addr \in Kept(used) => e.off < bump
      /\ \A e, f \in new : e.off = f.off => e = f
      /\ \A a \in Kept(used) : [addr |-> a, off |-> k[a]] \in new
  BY <1>t, NewIsPacked
<1> HIDE DEF new, bump, end
<1>1. /\ ppc = "upload" /\ vb # None /\ ppc' = "submit"
      /\ mem' = {m \in mem : m.buf # vb \/ m.off \notin {e.off : e \in new}}
                  \cup {[buf |-> vb, off |-> e.off, data |-> Payload(e.addr)] : e \in new}
      /\ recs' = {[data |-> Payload(e.addr), off |-> e.off] : e \in new \cup {c \in vb_cache : c.addr \in used}}
      /\ vb_cache' = vb_cache \cup {e \in new : e.addr \in Kept(used)}
      /\ vb_bump' = bump
      /\ pipelined => /\ region_base' = [region_base EXCEPT ![fs] = bump]
                      /\ region_end' = [region_end EXCEPT ![fs] = end]
      /\ ~pipelined => UNCHANGED <<region_base, region_end>>
      /\ UNCHANGED <<pipelined, captureVars, vb, capacity, r_retired_buffers, vb_lastmiss, vb_wbase, vb_stable,
                     vb_single_cursor, slotVars, frame, failed, gpu>>
  BY DEF new, bump, end
<1> USE DEF captureVars, slotVars
<1>p. /\ \A a \in Addresses : Payload(a) \in Payloads
      /\ \A a : Payload(a)' = Payload(a)
  BY <1>1, <1>t DEF TypeOK, Payload, Payloads
\* What is in the buffers afterwards.
<1>2. /\ \A m \in mem' : \/ m \in mem /\ (m.buf # vb \/ \A e \in new : m.off # e.off)
                         \/ \E e \in new : m = [buf |-> vb, off |-> e.off, data |-> Payload(e.addr)]
      /\ \A m \in mem : m.buf # vb \/ (\A e \in new : m.off # e.off) => m \in mem'
      /\ \A e \in new : [buf |-> vb, off |-> e.off, data |-> Payload(e.addr)] \in mem'
  BY <1>1
<1>3. TypeOK'
  <2>1. vb \in Buffers
    BY <1>1, <1>t DEF TypeOK
  <2>2. mem' \subseteq [buf : Buffers, off : Nat, data : Payloads]
    <3> SUFFICES ASSUME NEW m \in mem' PROVE m \in [buf : Buffers, off : Nat, data : Payloads]
      OBVIOUS
    <3>1. CASE m \in mem
      BY <3>1, <1>t DEF TypeOK
    <3>2. ASSUME NEW e \in new, m = [buf |-> vb, off |-> e.off, data |-> Payload(e.addr)]
          PROVE  m \in [buf : Buffers, off : Nat, data : Payloads]
      <4>1. e.off \in Nat /\ e.addr \in Addresses
        BY <1>n, <1>l
      <4> QED
        BY <3>2, <4>1, <2>1, <1>p
    <3> QED
      BY <3>1, <3>2, <1>2
  <2>3. \A m, n \in mem' : m.buf = n.buf /\ m.off = n.off => m = n
    <3> SUFFICES ASSUME NEW m \in mem', NEW n \in mem', m.buf = n.buf, m.off = n.off PROVE m = n
      OBVIOUS
    <3>0. \A x, y \in mem : x.buf = y.buf /\ x.off = y.off => x = y
      BY <1>t DEF TypeOK
    <3>1. CASE m.buf # vb
      <4>1. m \in mem /\ n \in mem
        BY <3>1, <1>2
      <4> QED
        BY <4>1, <3>0
    <3>2. CASE m.buf = vb /\ \E e \in new : m.off = e.off
      <4>1. PICK e \in new : m = [buf |-> vb, off |-> e.off, data |-> Payload(e.addr)]
        BY <3>2, <1>2
      <4>2. PICK f \in new : n = [buf |-> vb, off |-> f.off, data |-> Payload(f.addr)]
        BY <3>2, <1>2
      <4>3. e.off = f.off
        BY <4>1, <4>2
      <4>4. e = f
        BY <4>3, <1>n
      <4> QED
        BY <4>1, <4>2, <4>4
    <3>3. CASE m.buf = vb /\ \A e \in new : m.off # e.off
      <4>1. m \in mem
        BY <3>3, <1>2
      <4>2. n \in mem
        BY <3>3, <1>2
      <4> QED
        BY <4>1, <4>2, <3>0
    <3> QED
      BY <3>1, <3>2, <3>3
  <2>4. vb_cache' \subseteq [addr : Addresses, off : Nat] /\ vb_bump' \in Nat
    BY <1>1, <1>n, <1>l, <1>t DEF TypeOK
  <2>5. region_base' \in [Slots -> Nat] /\ region_end' \in [Slots -> Nat]
    BY <1>1, <1>l, <1>t DEF TypeOK
  <2>6. recs' \subseteq Reads
    <3>1. \A e \in new \cup {c \in vb_cache : c.addr \in used} : e.addr \in Addresses /\ e.off \in Nat
      BY <1>n, <1>l, <1>t DEF TypeOK
    <3>2. \A e \in new \cup {c \in vb_cache : c.addr \in used} : [data |-> Payload(e.addr), off |-> e.off] \in Reads
      BY <3>1, <1>p DEF Reads
    <3> QED
      BY <1>1, <3>2
  <2> QED
    BY <1>1, <1>t, <2>2, <2>3, <2>4, <2>5, <2>6 DEF TypeOK
<1>4. RetireInv' /\ FlightInv'
  BY <1>1, <1>t DEF RetireInv, FlightInv
<1>5. ASSUME ~failed PROVE ContentInv'
  <2>0. ArenaInv /\ WindowInv /\ ReadsInv
    BY <1>5 DEF IInv, ContentInv
  <2>1. /\ end + kRelStreamRange <= capacity
        /\ ~vb_single_cursor => end <= vb_wbase + Fresh
    BY <2>0, <1>1, <1>t, WindowIsEnough DEF end
  <2>2. /\ vb_bump <= vb_wbase /\ vb_bump \in Nat /\ kRelStreamRange \in Nat /\ capacity \in Nat /\ Fresh \in Nat
    BY <2>0, <1>1, <1>t, FiniteCounts, VertexRingAssumption DEF WindowInv, TypeOK
  \* What is cached is not overwritten.
  <2>3. ASSUME NEW e \in vb_cache
        PROVE  e.off \in Nat /\ e.off < vb_wbase /\ [buf |-> vb, off |-> e.off, data |-> Payload(e.addr)] \in mem'
    <3>1. e.off \in Nat /\ e.off < vb_bump /\ [buf |-> vb, off |-> e.off, data |-> Payload(e.addr)] \in mem
      BY <2>0, <1>t DEF ArenaInv, TypeOK
    <3>2. e.off < vb_wbase
      BY <3>1, <2>2, <1>l
    <3>3. \A f \in new : e.off # f.off
      BY <3>1, <3>2, <1>n, <1>l
    <3> QED
      BY <3>1, <3>2, <3>3, <1>2
  <2>4. ArenaInv'
    <3>1. ASSUME NEW e \in vb_cache'
          PROVE  e.off < bump /\ [buf |-> vb, off |-> e.off, data |-> Payload(e.addr)] \in mem'
      <4>1. CASE e \in vb_cache
        <5>1. e.off \in Nat /\ e.off < vb_wbase
          BY <4>1, <2>3
        <5>2. bump \in Nat /\ vb_wbase \in Nat /\ vb_wbase <= bump
          BY <1>l
        <5>3. e.off < bump
          BY <5>1, <5>2
        <5> QED
          BY <4>1, <2>3, <5>3
      <4>2. CASE e \in new /\ e.addr \in Kept(used)
        BY <4>2, <1>2, <1>n
      <4> QED
        BY <1>1, <4>1, <4>2
    <3>2. Cached' \subseteq Cached \cup Kept(used)
      BY <1>1 DEF Cached
    <3>3. Cardinality(Cached') <= bump
      <4>1. IsFiniteSet(Cached) /\ IsFiniteSet(Kept(used))
        BY <1>l, <1>t, FiniteCounts
      <4>2. /\ IsFiniteSet(Cached \cup Kept(used))
            /\ Cardinality(Cached \cup Kept(used))
                 = Cardinality(Cached) + Cardinality(Kept(used)) - Cardinality(Cached \cap Kept(used))
        BY <4>1, FS_Union
      <4>3. Cached \cap Kept(used) = {}
        BY <1>l DEF NotCached
      <4>4. Cardinality(Cached \cap Kept(used)) = 0
        BY <4>3, FS_EmptySet
      <4>5. Cardinality(Cached') <= Cardinality(Cached \cup Kept(used)) /\ Cardinality(Cached') \in Nat
        BY <3>2, <4>2, FS_Subset, FS_CardinalityType
      <4>6. Cardinality(Cached) <= vb_bump /\ Cardinality(Cached) \in Nat
        BY <2>0, <1>t, FiniteCounts DEF ArenaInv
      <4>7. bump = vb_wbase + Cardinality(Kept(used))
        BY DEF bump, BumpOf
      <4> QED
        BY <4>2, <4>4, <4>5, <4>6, <4>7, <2>2, <1>l
    <3>4. ASSUME pipelined, NEW s \in Slots PROVE region_base'[s] <= bump
      <4>1. region_base'[s] = IF s = fs THEN bump ELSE region_base[s]
        BY <1>1, <1>t, <3>4 DEF TypeOK
      <4>2. region_base[s] <= vb_bump /\ region_base[s] \in Nat
        BY <2>0, <1>t, <3>4 DEF ArenaInv, TypeOK
      <4> QED
        BY <4>1, <4>2, <2>2, <1>l
    <3> QED
      <4>1. /\ vb' = vb /\ vb # None /\ vb_bump' = bump /\ pipelined' = pipelined
            /\ allocation' = allocation
        BY <1>1
      <4>2. \A e \in vb_cache' : e.off < vb_bump' /\ [buf |-> vb', off |-> e.off, data |-> Payload(e.addr)'] \in mem'
        BY <4>1, <3>1 DEF Payload
      <4>3. Cardinality(Cached)' <= vb_bump'
        BY <4>1, <3>3
      <4>4. pipelined' => \A s \in Slots : region_base'[s] <= vb_bump'
        BY <4>1, <3>4
      <4> QED
        BY <4>1, <4>2, <4>3, <4>4 DEF ArenaInv
  <2>5. WindowInv'
    BY <1>1 DEF WindowInv
  <2>6. RecsInv'
    <3>1. pipelined => region_end'[fs] = end
      BY <1>1, <1>0, <1>t DEF TypeOK
    <3>2. ASSUME NEW e \in new \cup {c \in vb_cache : c.addr \in used}
          PROVE  /\ e.off \in Nat /\ e.off < end
                 /\ [buf |-> vb, off |-> e.off, data |-> Payload(e.addr)] \in mem'
      <4>1. CASE e \in new
        BY <4>1, <1>n, <1>2
      <4>2. CASE e \in vb_cache
        <5>1. e.off \in Nat /\ e.off < vb_wbase
          BY <4>2, <2>3
        <5>2. bump \in Nat /\ vb_wbase \in Nat /\ end \in Nat /\ vb_wbase <= bump /\ bump <= end
          BY <1>l
        <5>3. e.off < end
          BY <5>1, <5>2
        <5> QED
          BY <4>2, <2>3, <5>1, <5>3
      <4> QED
        BY <4>1, <4>2
    <3>3. ASSUME NEW r \in recs'
          PROVE  /\ vb' # None /\ ReadOk(vb, r)' /\ r.off < capacity' /\ r.off + kRelStreamRange <= capacity'
                 /\ pipelined' => r.off < region_end'[frame_slot']
      <4>1. PICK e \in new \cup {c \in vb_cache : c.addr \in used} : r = [data |-> Payload(e.addr), off |-> e.off]
        BY <1>1
      <4>2. e.off + kRelStreamRange <= capacity /\ e.off < capacity
        <5>1. e.off \in Nat /\ e.off < end
          BY <3>2
        <5>2. end \in Nat /\ end + kRelStreamRange <= capacity /\ kRelStreamRange \in Nat /\ capacity \in Nat
          BY <2>1, <2>2, <1>l
        <5> QED
          BY <5>1, <5>2
      <4>3. r.off = e.off /\ r.data = Payload(e.addr)
        BY <4>1
      <4>4. [buf |-> vb, off |-> r.off, data |-> r.data] \in mem'
        BY <3>2, <4>3
      <4>5. vb' = vb /\ vb # None /\ capacity' = capacity /\ pipelined' = pipelined /\ frame_slot' = frame_slot
        BY <1>1
      <4>6. ReadOk(vb, r)'
        BY <4>4, <4>5 DEF ReadOk
      <4>7. pipelined => r.off < region_end'[frame_slot']
        BY <3>1, <3>2, <4>3, <4>5
      <4> QED
        BY <4>2, <4>3, <4>5, <4>6, <4>7
    <3> QED
      BY <3>3 DEF RecsInv
  <2>7. ASSUME NEW i \in DOMAIN gpu, NEW r \in gpu[i].reads
        PROVE  /\ gpu[i].buf # None /\ [buf |-> gpu[i].buf, off |-> r.off, data |-> r.data] \in mem'
               /\ IF gpu[i].buf = vb THEN pipelined => r.off < region_end'[gpu[i].slot]
                                     ELSE gpu[i].buf \in r_retired_buffers[gpu[i].slot]
    <3>1. /\ gpu[i].buf # None /\ [buf |-> gpu[i].buf, off |-> r.off, data |-> r.data] \in mem
          /\ IF gpu[i].buf = vb THEN pipelined => r.off < region_end[gpu[i].slot]
                                ELSE gpu[i].buf \in r_retired_buffers[gpu[i].slot]
      BY <2>0 DEF ReadsInv, ReadOk
    <3>2. CASE gpu[i].buf # vb
      BY <3>1, <3>2, <1>2
    <3>3. CASE gpu[i].buf = vb
      <4>1. pipelined
        BY <1>1, <1>t DEF FlightInv, TypeOK
      <4>2. gpu[i].slot = Other(fs) /\ r.off \in Nat
        BY <1>0, <1>1, <1>t, FrameType DEF FlightInv
      <4>3. ~vb_single_cursor
        BY <2>0, <1>1, <3>3 DEF WindowInv
      <4>4. region_end'[Other(fs)] = region_end[Other(fs)] /\ region_end[Other(fs)] \in Nat
        BY <1>0, <1>1, <1>t, <4>1 DEF TypeOK
      <4>5. \/ region_end[Other(fs)] <= vb_wbase
            \/ vb_wbase + Fresh <= region_base[Other(fs)]
        BY <2>0, <1>1, <4>1, <4>3 DEF WindowInv
      <4>6. region_base[Other(fs)] <= vb_bump /\ region_base[Other(fs)] \in Nat
        BY <2>0, <1>0, <1>t, <4>1 DEF ArenaInv, TypeOK
      <4>7. \A e \in new : r.off # e.off
        <5> SUFFICES ASSUME NEW e \in new, r.off = e.off PROVE FALSE
          OBVIOUS
        <5>1. e.off \in Nat /\ vb_wbase <= e.off /\ e.off < end /\ end <= vb_wbase + Fresh
          BY <1>n, <2>1, <4>3
        <5>2. r.off < region_end[Other(fs)]
          BY <3>1, <3>3, <4>1, <4>2
        <5> QED
          BY <5>1, <5>2, <4>2, <4>4, <4>5, <4>6, <2>2, <1>l
      <4> QED
        BY <3>1, <3>3, <4>1, <4>2, <4>4, <4>7, <1>2
    <3> QED
      BY <3>2, <3>3
  <2>8. ReadsInv'
    <3>1. gpu' = gpu /\ vb' = vb /\ pipelined' = pipelined /\ r_retired_buffers' = r_retired_buffers
      BY <1>1
    <3> SUFFICES ASSUME NEW i \in DOMAIN gpu, NEW r \in gpu[i].reads
                 PROVE  /\ gpu[i].buf # None /\ ReadOk(gpu[i].buf, r)'
                        /\ IF gpu[i].buf = vb THEN pipelined => r.off < region_end'[gpu[i].slot]
                                              ELSE gpu[i].buf \in r_retired_buffers[gpu[i].slot]
      BY <3>1 DEF ReadsInv
    <3> QED
      BY <2>7, <3>1 DEF ReadOk
  <2> QED
    BY <2>4, <2>5, <2>6, <2>8 DEF ContentInv
<1> QED
  BY <1>1, <1>3, <1>4, <1>5 DEF IInv

-----------------------------------------------------------------------------
LEMMA Invariance == Spec => []IInv
<1>1. Init => IInv
  BY InitHolds
<1>2. IInv /\ [Next]_vars => IInv'
  <2> SUFFICES ASSUME IInv, [Next]_vars PROVE IInv'
    OBVIOUS
  <2>1. ASSUME NEW a \in Addresses, Drop(a) \/ Reallocate(a) PROVE IInv'
    BY <2>1, CaptureHolds
  <2>2. CASE WaitSlot
    BY <2>2, WaitSlotHolds
  <2>3. ASSUME NEW f \in SUBSET Addresses, BeginFrame(f) PROVE IInv'
    BY <2>3, KeepArenaHolds, WrapArenaHolds DEF BeginFrame
  <2>4. CASE EmptyFrame \/ Crash \/ WaitFrame \/ UNCHANGED vars
    BY <2>4, RestHolds
  <2>5. CASE SizeFrame
    BY <2>5, SizeHolds
  <2>6. ASSUME NEW used \in SUBSET frame, Upload(used) PROVE IInv'
    BY <2>6, UploadHolds
  <2>7. CASE Submit
    BY <2>7, SubmitHolds
  <2>8. CASE Complete
    BY <2>8, CompleteHolds
  <2> QED
    BY <2>1, <2>2, <2>3, <2>4, <2>5, <2>6, <2>7, <2>8 DEF Next, PresentStep
<1> QED
  BY <1>1, <1>2, PTL DEF Spec

\* Every variable of the ring, its arena, the slots and the frames keeps its type.
THEOREM TypeCorrect == Spec => []TypeOK
<1>1. IInv => TypeOK
  BY DEF IInv
<1> QED
  BY Invariance, <1>1, PTL

\* Each submitted frame finds the bytes of its own payloads, whatever vb_upload, the
\* wrap, a new buffer or capture's reuse of addresses does meanwhile.
THEOREM FramesFindTheirBytes == Spec => []ReadsIntact
<1>1. IInv => ReadsIntact
  <2> SUFFICES ASSUME IInv, ~failed, NEW i \in DOMAIN gpu, NEW r \in gpu[i].reads
               PROVE  gpu[i].buf \in Live /\ ReadOk(gpu[i].buf, r)
    BY DEF ReadsIntact
  <2>1. /\ gpu[i].buf # None /\ ReadOk(gpu[i].buf, r)
        /\ gpu[i].buf # vb => gpu[i].buf \in r_retired_buffers[gpu[i].slot]
    BY DEF IInv, ContentInv, ReadsInv
  <2>2. gpu[i].slot \in Slots
    BY FrameType DEF IInv
  <2> QED
    BY <2>1, <2>2 DEF Live, Slots
<1> QED
  BY Invariance, <1>1, PTL

\* Every offset a draw is recorded with leaves room for the rel-fetch descriptor's
\* fixed range (PrepareTranslatedDraws).
THEOREM OffsetsFitAlways == Spec => []OffsetsFit
<1>1. IInv => OffsetsFit
  BY DEF IInv, ContentInv, RecsInv, OffsetsFit
<1> QED
  BY Invariance, <1>1, PTL

\* A buffer is in use or retired, one at most is retired, and it is freed at its
\* slot's fence.
THEOREM BuffersAccountedAlways == Spec => []BuffersAccounted
<1>1. IInv => BuffersAccounted
  <2> SUFFICES ASSUME IInv PROVE BuffersAccounted
    OBVIOUS
  <2> DEFINE R == r_retired_buffers
  <2>1. frame_slot \in Slots /\ RetireInv /\ ppc \in {"top", "prepare", "size", "upload", "submit", "wait", "crashed"}
    BY DEF IInv, TypeOK
  <2>2. /\ \A s \in Slots : vb \notin R[s]
        /\ \A s \in Slots : \A b, c \in R[s] : b = c
        /\ ppc \in {"prepare", "size", "upload", "submit"} => R[frame_slot] = {}
    BY <2>1 DEF RetireInv
  <2>3. \E s \in Slots : R[s] = {}
    <3>1. CASE ppc = "wait"
      BY <2>1, <3>1 DEF RetireInv
    <3>2. CASE ppc # "wait"
      BY <2>1, <3>2, SlotFacts DEF RetireInv
    <3> QED
      BY <3>1, <3>2
  <2>4. PICK s \in Slots : R[0] \cup R[1] = R[s] /\ R[0] \cap R[1] = {}
    <3>1. R[0] = {} \/ R[1] = {}
      BY <2>3 DEF Slots
    <3>2. 0 \in Slots /\ 1 \in Slots
      BY DEF Slots
    <3> QED
      BY <3>1, <3>2
  <2>5. Cardinality(R[0] \cup R[1]) <= 1
    <3>1. CASE R[s] = {}
      BY <2>4, <3>1, FS_EmptySet
    <3>2. CASE R[s] # {}
      <4>1. PICK b : R[s] = {b}
        BY <2>2, <3>2
      <4> QED
        BY <2>4, <4>1, FS_Singleton
    <3> QED
      BY <3>1, <3>2
  <2> QED
    BY <2>2, <2>4, <2>5 DEF BuffersAccounted
<1> QED
  BY Invariance, <1>1, PTL
=============================================================================
