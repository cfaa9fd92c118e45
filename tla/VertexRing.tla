------------------------------- MODULE VertexRing -------------------------------
(***************************************************************************)
(* The vertex ring of the translated renderer (src/native_vk.cpp): one     *)
(* host-visible buffer that two frames in flight share.  Payloads seen in  *)
(* two frames are promoted to an arena and reused at their offset as long  *)
(* as a pin keeps their address; the others are copied to a scratch region *)
(* above the arena, which has to hop over the scratch of the frame the GPU *)
(* is still reading.  The buffer is replaced when it is full or when the   *)
(* arena has grown past a cap, and the old one freed behind a fence.       *)
(*                                                                         *)
(* Sizes count payloads: each takes one place, the 16-byte rounding and    *)
(* the order of the draws inside a frame are left out.  A payload is the   *)
(* address of its vector and the number of the allocation that lives       *)
(* there; capture may reuse an address once nobody holds its vector.       *)
(* RESTUFF_NO_VBCACHE and RESTUFF_VBCACHE_VERIFY are not modelled.         *)
(*                                                                         *)
(* Operators named Bad... are faulty variants the properties are tested    *)
(* against; Next uses none.                                                *)
(***************************************************************************)
EXTENDS Integers, Sequences, FiniteSets

CONSTANTS
  Addresses,       \* where capture allocates payloads
  Modes,           \* values PipelinedMode() may have: FALSE, TRUE
  Buffers,         \* VkBuffer handles, which the driver may reuse
  Capacities,      \* the sizes bit_ceil rounds to
  kVbBumpCap,      \* the arena is dropped above it
  kRelStreamRange, \* fixed range of the rel-fetch descriptor
  MaxEvents,       \* bound: payloads that capture drops and allocations that fail
  None             \* no buffer

Slots == 0 .. 1
Other(s) == 1 - s

ASSUME VertexRingAssumption ==
  /\ IsFiniteSet(Addresses)
  /\ IsFiniteSet(Buffers) /\ Cardinality(Buffers) >= 3 \* the driver has another handle
  /\ Modes \subseteq BOOLEAN /\ Capacities \subseteq Nat
  /\ kVbBumpCap \in Nat /\ kRelStreamRange \in Nat /\ MaxEvents \in Nat
  /\ None \notin Buffers

VARIABLES
  pipelined,         \* PipelinedMode()
  allocation,        \* capture: number of the payload at each address
  dropped, drops,    \* addresses whose payload capture no longer holds, and how
                     \* many it dropped
  vb, capacity,      \* tl.vb.buf and tl.vb.capacity
  mem,               \* bytes in the buffers: [buf, off, data]
  vb_cache,          \* the cache, each entry with its pin: [addr, off]
  vb_bump, vb_lastmiss,
  region_base, region_end, \* per slot
  r_retired_buffers, \* per slot
  slot_submitted, frame_slot,
  ppc,               \* where the present thread stands
  frame,             \* addresses of the payloads of tl.frame
  failed,            \* history: an allocation of EnsureRing failed
  vb_wbase, vb_stable, vb_single_cursor, \* locals of PrepareTranslatedDraws
  recs,              \* payloads and offsets the recorded draws use
  gpu                \* submitted frames, in order: [slot, buf, reads]

captureVars == <<allocation, dropped, drops>>
ringVars    == <<vb, capacity, mem, r_retired_buffers>>
arenaVars   == <<vb_cache, vb_bump, region_base, region_end>>
localVars   == <<vb_wbase, vb_stable, vb_single_cursor, recs>>
slotVars    == <<slot_submitted, frame_slot>>
vars == <<pipelined, captureVars, ringVars, arenaVars, vb_lastmiss, localVars, slotVars, ppc,
          frame, failed, gpu>>

NoRegion == [s \in Slots |-> 0]

Init ==
  /\ pipelined \in Modes
  /\ allocation = [a \in Addresses |-> 0] /\ dropped = {} /\ drops = 0
  /\ vb = None /\ capacity = 0 /\ mem = {}
  /\ vb_cache = {} /\ vb_bump = 0 /\ vb_lastmiss = {}
  /\ region_base = NoRegion /\ region_end = NoRegion
  /\ r_retired_buffers = [s \in Slots |-> {}]
  /\ slot_submitted = [s \in Slots |-> FALSE] /\ frame_slot = 0
  /\ ppc = "top" /\ frame = {} /\ failed = FALSE
  /\ vb_wbase = 0 /\ vb_stable = {} /\ vb_single_cursor = FALSE /\ recs = {}
  /\ gpu = <<>>

Payload(a) == [addr |-> a, no |-> allocation[a]]
Cached     == {e.addr : e \in vb_cache}

-----------------------------------------------------------------------------
(* Capture: the payloads' owner on the other side.                         *)

\* Bound: at most one allocation fails.
MoreEvents == drops + (IF failed THEN 1 ELSE 0) < MaxEvents

Drop(a) ==
  /\ a \notin dropped /\ MoreEvents
  /\ dropped' = dropped \cup {a} /\ drops' = drops + 1
  /\ UNCHANGED <<pipelined, allocation, ringVars, arenaVars, vb_lastmiss, localVars, slotVars,
                 ppc, frame, failed, gpu>>

\* The vector dies with its last holder, weak references to it expire, and a new
\* one may take the address.
Held(a) == a \in frame \/ a \in Cached

Reallocate(a) ==
  /\ a \in dropped /\ ~Held(a)
  /\ allocation' = [allocation EXCEPT ![a] = @ + 1]
  /\ dropped' = dropped \ {a}
  /\ vb_lastmiss' = vb_lastmiss \ {a}
  /\ UNCHANGED <<pipelined, drops, ringVars, arenaVars, localVars, slotVars, ppc, frame,
                 failed, gpu>>

-----------------------------------------------------------------------------
(* The top of the present callback: the slot's fence, then its retirement. *)

InFlight(s) == \E i \in DOMAIN gpu : gpu[i].slot = s

FenceOk == slot_submitted[frame_slot] => ~InFlight(frame_slot)

Without(buffers) == {m \in mem : m.buf \notin buffers}

Freed(s) == IF slot_submitted[s] THEN r_retired_buffers[s] ELSE {}

WaitSlot ==
  /\ ppc = "top" /\ FenceOk
  /\ slot_submitted' = [slot_submitted EXCEPT ![frame_slot] = FALSE]
  /\ r_retired_buffers' = [r_retired_buffers EXCEPT ![frame_slot] = @ \ Freed(frame_slot)]
  /\ mem' = Without(Freed(frame_slot))
  /\ ppc' = "prepare"
  /\ UNCHANGED <<pipelined, captureVars, vb, capacity, arenaVars, vb_lastmiss, localVars,
                 frame_slot, frame, failed, gpu>>

-----------------------------------------------------------------------------
(* PrepareTranslatedDraws.                                                 *)

\* Once in 600 frames the entries whose pin is the last holder are swept; a frame
\* that is still queued may hold a payload that capture has dropped.
Swept(f) == {e \in vb_cache : e.addr \in dropped \ f}

KeepArena(f) ==
  /\ vb_bump <= kVbBumpCap
  /\ \E gone \in SUBSET Swept(f) : vb_cache' = vb_cache \ gone
  /\ UNCHANGED <<vb_bump, region_base, region_end, r_retired_buffers, vb, capacity>>

BadRetiredTo(s) == s
RetiredTo(s)    == Other(s)

Retire == r_retired_buffers' = [r_retired_buffers EXCEPT ![RetiredTo(frame_slot)] = @ \cup {vb}]

\* The arena is past its cap: dropped in place, or together with its buffer.
WrapArena ==
  /\ vb_bump > kVbBumpCap
  /\ vb_cache' = {} /\ vb_bump' = 0
  /\ IF pipelined /\ vb # None
     THEN /\ Retire /\ vb' = None /\ capacity' = 0
          /\ region_base' = NoRegion /\ region_end' = NoRegion
     ELSE UNCHANGED <<r_retired_buffers, vb, capacity, region_base, region_end>>

BeginFrame(f) ==
  /\ ppc = "prepare"
  /\ frame' = f
  /\ KeepArena(f) \/ WrapArena
  /\ ppc' = "size"
  /\ UNCHANGED <<pipelined, captureVars, mem, vb_lastmiss, localVars, slotVars, failed, gpu>>

\* No draw to prepare.
EmptyFrame ==
  /\ ppc = "prepare"
  /\ frame' = {} /\ ppc' = "submit"
  /\ UNCHANGED <<pipelined, captureVars, ringVars, arenaVars, vb_lastmiss, localVars, slotVars,
                 failed, gpu>>

Misses  == frame \ Cached
Stable  == Misses \cap vb_lastmiss
Fresh   == Cardinality(Misses)

BadBase == vb_bump

\* The window of fresh writes: at the arena's end, or behind the region of the
\* frame in flight when they would overlap.
Base ==
  LET s == Other(frame_slot)
  IN IF pipelined /\ region_end[s] > vb_bump /\ vb_bump + Fresh > region_base[s]
     THEN region_end[s] ELSE vb_bump

BadNeed(base) == base + Fresh
Need(base)    == base + Fresh + kRelStreamRange

\* EnsureRing asks for a quarter more and rounds up.
Rounded(n) == {c \in Capacities : c >= n /\ \A d \in Capacities : d >= n => c <= d}
Enough(n)  == n + n \div 4

Live    == (IF vb = None THEN {} ELSE {vb}) \cup r_retired_buffers[0] \cup r_retired_buffers[1]
NewBuffer == CHOOSE b \in Buffers : b \notin Live

BadDestroyed == ~pipelined
Destroyed    == vb = None \/ ~pipelined

\* The old buffer of a ring that grows.
GiveUp ==
  IF Destroyed THEN /\ mem' = Without({vb})
                    /\ UNCHANGED r_retired_buffers
  ELSE Retire /\ UNCHANGED mem

\* The frame is submitted without draws.
NoDraws == ppc' = "submit" /\ UNCHANGED localVars

\* Draws without vertex data; each draw has indices.
SkipFrame ==
  /\ frame = {} /\ NoDraws
  /\ UNCHANGED <<ringVars, arenaVars, failed>>

Fits == Enough(Need(Base)) <= capacity

KeepRing ==
  /\ frame # {} /\ Fits
  /\ vb_wbase' = Base /\ vb_stable' = Stable /\ vb_single_cursor' = FALSE
  /\ ppc' = "upload"
  /\ UNCHANGED <<ringVars, arenaVars, recs, failed>>

GrowRing ==
  /\ frame # {} /\ ~Fits
  /\ GiveUp
  /\ vb' = NewBuffer /\ capacity' \in Rounded(Enough(Need(Base)))
  /\ vb_cache' = {} /\ vb_bump' = 0
  /\ region_base' = NoRegion /\ region_end' = NoRegion
  /\ vb_wbase' = 0 /\ vb_stable' = {} /\ vb_single_cursor' = TRUE
  /\ ppc' = "upload"
  /\ UNCHANGED <<recs, failed>>

Fails == ~failed /\ MoreEvents /\ failed' = TRUE

\* The shared ring's new buffer fails after the old one is gone.  (When the buffer
\* is there but cannot be mapped, the next payload crashes in the same way.)
GrowFails ==
  /\ Fails /\ frame # {} /\ ~Fits
  /\ GiveUp /\ vb' = None
  /\ NoDraws
  /\ UNCHANGED <<capacity, arenaVars>>

\* A ring of the slot's own fails after the shared one grew, or did not.
OwnRingFails ==
  /\ Fails /\ frame # {}
  /\ IF Fits THEN UNCHANGED ringVars
     ELSE GiveUp /\ vb' = NewBuffer /\ capacity' \in Rounded(Enough(Need(Base)))
  /\ NoDraws
  /\ UNCHANGED arenaVars

SizeFrame ==
  /\ ppc = "size"
  /\ vb_lastmiss' = Misses \ Stable
  /\ SkipFrame \/ KeepRing \/ GrowRing \/ GrowFails \/ OwnRingFails
  /\ UNCHANGED <<pipelined, captureVars, slotVars, frame, gpu>>

\* A payload is copied through the pointer of a buffer that is not there.
Crash ==
  /\ ppc = "upload" /\ vb = None
  /\ ppc' = "crashed"
  /\ UNCHANGED <<pipelined, captureVars, ringVars, arenaVars, vb_lastmiss, localVars, slotVars,
                 frame, failed, gpu>>

\* Ways to put the payloads of a set one after the other.
Packings(set, base) ==
  {f \in [set -> base .. base + Cardinality(set) - 1] :
     \A a, b \in set : f[a] = f[b] => a = b}

\* vb_upload for the payloads of the draws that are recorded: a hit is reused, a
\* stable one appended and cached, the others copied to the scratch region.
Upload(used) ==
  LET fresh   == used \ Cached
      keep    == IF vb_single_cursor THEN fresh ELSE fresh \cap vb_stable
      bump    == vb_wbase + Cardinality(keep)
      scratch == IF vb_single_cursor THEN bump ELSE vb_wbase + Cardinality(vb_stable)
      end     == scratch + Cardinality(fresh \ keep)
  IN \E k \in Packings(keep, vb_wbase) : \E v \in Packings(fresh \ keep, scratch) :
       LET new == {[addr |-> a, off |-> k[a]] : a \in keep}
                    \cup {[addr |-> a, off |-> v[a]] : a \in fresh \ keep}
           at  == {e.off : e \in new}
       IN /\ ppc = "upload" /\ vb # None
          /\ mem' = {m \in mem : m.buf # vb \/ m.off \notin at}
                      \cup {[buf |-> vb, off |-> e.off, data |-> Payload(e.addr)] : e \in new}
          /\ recs' = {[data |-> Payload(e.addr), off |-> e.off] :
                        e \in new \cup {c \in vb_cache : c.addr \in used}}
          /\ vb_cache' = vb_cache \cup {e \in new : e.addr \in keep}
          /\ vb_bump' = bump
          /\ IF pipelined
             THEN /\ region_base' = [region_base EXCEPT ![frame_slot] = bump]
                  /\ region_end' = [region_end EXCEPT ![frame_slot] = end]
             ELSE UNCHANGED <<region_base, region_end>>
          /\ ppc' = "submit"
          /\ UNCHANGED <<pipelined, captureVars, vb, capacity, r_retired_buffers, vb_lastmiss,
                         vb_wbase, vb_stable, vb_single_cursor, slotVars, frame, failed,
                         gpu>>

-----------------------------------------------------------------------------
(* Submission, and the device.                                             *)

Submit ==
  /\ ppc = "submit"
  /\ gpu' = Append(gpu, [slot |-> frame_slot, buf |-> vb, reads |-> recs])
  /\ recs' = {} /\ vb_wbase' = 0 /\ vb_stable' = {} /\ vb_single_cursor' = FALSE
  /\ IF pipelined
     THEN /\ slot_submitted' = [slot_submitted EXCEPT ![frame_slot] = TRUE]
          /\ frame_slot' = Other(frame_slot) /\ ppc' = "top"
     ELSE ppc' = "wait" /\ UNCHANGED slotVars
  /\ UNCHANGED <<pipelined, captureVars, ringVars, arenaVars, vb_lastmiss, frame, failed>>

WaitFrame ==
  /\ ppc = "wait" /\ ~InFlight(frame_slot)
  /\ ppc' = "top"
  /\ UNCHANGED <<pipelined, captureVars, ringVars, arenaVars, vb_lastmiss, localVars, slotVars,
                 frame, failed, gpu>>

\* The queue executes and completes frames in submission order.
Complete ==
  /\ gpu # <<>>
  /\ gpu' = Tail(gpu)
  /\ UNCHANGED <<pipelined, captureVars, ringVars, arenaVars, vb_lastmiss, localVars, slotVars,
                 ppc, frame, failed>>

PresentStep ==
  \/ WaitSlot
  \/ \E f \in SUBSET Addresses : BeginFrame(f)
  \/ EmptyFrame
  \/ SizeFrame
  \/ \E used \in SUBSET frame : Upload(used)
  \/ Crash
  \/ Submit \/ WaitFrame

Next ==
  \/ \E a \in Addresses : Drop(a) \/ Reallocate(a)
  \/ PresentStep
  \/ Complete

Spec == Init /\ [][Next]_vars

-----------------------------------------------------------------------------
Payloads  == [addr : Addresses, no : Nat]
Reads     == [data : Payloads, off : Nat]
ReadOk(buf, r) == [buf |-> buf, off |-> r.off, data |-> r.data] \in mem

\* The variables keep their types, and each place of a buffer holds one payload.
TypeOK ==
  /\ pipelined \in Modes
  /\ allocation \in [Addresses -> Nat] /\ dropped \subseteq Addresses /\ drops \in Nat
  /\ vb \in Buffers \cup {None} /\ capacity \in Nat
  /\ mem \subseteq [buf : Buffers, off : Nat, data : Payloads]
  /\ \A m, n \in mem : m.buf = n.buf /\ m.off = n.off => m = n
  /\ vb_cache \subseteq [addr : Addresses, off : Nat] /\ vb_bump \in Nat
  /\ vb_lastmiss \subseteq Addresses
  /\ region_base \in [Slots -> Nat] /\ region_end \in [Slots -> Nat]
  /\ r_retired_buffers \in [Slots -> SUBSET Buffers]
  /\ slot_submitted \in [Slots -> BOOLEAN] /\ frame_slot \in Slots
  /\ ppc \in {"top", "prepare", "size", "upload", "submit", "wait", "crashed"}
  /\ frame \subseteq Addresses /\ vb_wbase \in Nat /\ vb_stable \subseteq Addresses
  /\ vb_single_cursor \in BOOLEAN /\ failed \in BOOLEAN /\ recs \subseteq Reads
  /\ gpu \in Seq([slot : Slots, buf : Buffers \cup {None}, reads : SUBSET Reads])

\* Whatever the present thread writes, replaces or frees, and whatever addresses
\* capture reuses, each submitted frame finds the bytes of its own payloads at
\* the offsets it was recorded with, in a buffer that still exists.  Not so once
\* OwnRingFails or GrowFails left a cache that belongs to the buffer before.
ReadsIntact ==
  ~failed => \A i \in DOMAIN gpu : \A r \in gpu[i].reads : gpu[i].buf \in Live /\ ReadOk(gpu[i].buf, r)

\* Every offset a draw is recorded with lies in the buffer, with the whole
\* rel-fetch range behind it: also when a new buffer makes a frame upload what
\* the sizing counted as cached.
OffsetsFit ==
  ppc = "submit" /\ ~failed => \A r \in recs : r.off < capacity /\ r.off + kRelStreamRange <= capacity

\* A buffer is in use or retired, never both nor twice, and at most one waits for
\* its fence: the ring costs two buffers, however often it wraps or grows.  What the
\* frames of a slot were the last to use is freed at that slot's fence: when the
\* slot prepares its next frame, nothing is left on its list.
BuffersAccounted ==
  /\ \A s \in Slots : vb \notin r_retired_buffers[s]
  /\ r_retired_buffers[0] \cap r_retired_buffers[1] = {}
  /\ Cardinality(r_retired_buffers[0] \cup r_retired_buffers[1]) <= 1
  /\ ppc \in {"prepare", "size", "upload", "submit"} => r_retired_buffers[frame_slot] = {}
=============================================================================
