# Naughty Bear ReStuff for Android: a verification project

The repository is an Android port of a recompiled Xbox 360 game. Guest code runs natively on host threads;
a runtime (`native/overlay/rexglue-sdk`, below *RX*) gives it threads, timers, files and audio, and a renderer
(`native/overlay/NaughtyBear_ReStuff`, below *NB*) parses the guest's GPU command ring and draws it with
Vulkan. A Kotlin application selects the game data and the Vulkan driver and starts the native library.

These modules model the parts of that program in which several threads share state and in which an error
shows only in a rare order of steps. TLC checks them on small instances; TLAPS proves the main results for
every value of the constants. `PROJECT.json` lists components, runs, mutants, the lines each definition stands
for, findings, hazards and theorems.

Paths are relative to `src/`. `NV` is `NB/src/native_vk.cpp`, `BK` is `NB/src/renderer/native_backend_vk.cpp`,
`GD` is `NB/src/renderer/guest_d3d_hooks.cpp`, `TM` is `NB/src/renderer/texture_mods.cpp`, `TH` is
`RX/src/core/threading_posix.cpp` and `XT` is `RX/src/system/xthread.cpp`.

## 1. The system

Threads of the running program, and what they share:

    guest threads ── ring kicks ──> PM4 walker (on the kicking thread, the pump, or the capture worker)
        ^   ^                          │ draws, XE_SWAP
        │   └── interrupts ── pump     v
        │                        frame mailbox (GD) ──> present thread ──> Vulkan queue
     timers, waits,                                      │   ^   ^
     suspension                               requests   v   │   └ replacement pixels ── texture loader
        │                                                    │ finished pipelines
    timer dispatch thread                            pipeline workers <── replay thread
                                                         manifest file <── detached writer

| Component | State | Operations | Hard behaviour |
|---|---|---|---|
| **Timer queue** (`RX/src/core/timer_queue.cpp`) | items with an atomic state, a claim ring of 512 slots, a sorted list, the list of the current pass, a stop flag | queue once or recurring, disarm, dispatch, destroy | lock-free hand-over; Disarm against a callback that starts; callbacks that disarm; a full ring |
| **Pipeline builder** (NV 3430-4900) | queue, in-flight set, staging list, pipeline map, record log, manifest file, save flags | request, build, publish, adopt, replay, warm pass, save, shutdown | five kinds of thread, five mutexes and flags, kills at any moment, detached writers |
| **Frame queue** (GD 680-800, BK 4347, NV 1790-1960, 6330-6420, 10700) | draws being built, a one-place mailbox, held fragments, front-buffer pointers | submit, publish, take, hold and merge, present, wait | the guest runs ahead, chunks are overwritten, frames arrive in pieces |
| **Vertex ring** (NV 1980-2090, 7900-8440, 9480, 10740-11220) | one buffer, payload cache with pins, arena end, regions and retire lists of two slots | prepare, size, replace, upload, submit, wait, retire | CPU writes while the GPU reads, addresses that are reused, failed allocations |
| **GPU pump and ring walker** (BK 4290-5290) | pending interrupt mask, seen flag, swap acknowledgements, parked flag, ring and buffer positions, read pointer | kick, walk, park, resume, report, interrupt, shutdown | flags read and cleared one after the other on three threads; guest memory reused as soon as the read pointer has passed |
| **Wait objects** (`TH`) | a mutex and a condition per object, counts, owners | signal, release, wait for one or several, with limits and callbacks | try-lock loops, wake-ups, a thread stopped with a mutex in hand |
| **Suspension** (`TH`, `XT`) | two counts of suspension, a semaphore, signals | create, start, suspend, resume, end, join | two layers of counts, posts that belong to no signal |
| **Texture replacement** (`TM`) | cache, pending set, queue, generations | look up, load, scan, toggle | toggles and file changes during a decode |
| **Texture cache** (NV 200-1600, 7530) | entries with two stamps, retire epoch, descriptor combinations per slot | resolve, decode, evict, destroy | stamps read without a lock; views used by the frame in flight |
| **PM4 capture** (BK) | register shadow, stream caches | decode, capture, evict | stale caches over guest memory |
| **Guest threads** (`XT`) | APC lists, TLS | queue and deliver APCs, exit | APCs against the rundown |
| **XMA decoder** (`RX/src/audio/xma_decoder.cpp`) | contexts, pause flag, two fences | kick, lock, pause, resume, shutdown | two threads decode; time-limited shutdown |
| **Driver store** (`app/.../data/DriverManager.kt`) | imported drivers, `active.txt` | import, activate, remove, reconcile | two files that must agree |
| **Data selection** (`app/.../DataSelectionViewModel.kt`, `GamePaths.kt`) | preferences, screen state | pick image, pick folder, restore | overlapping coroutines, a kill between two stores |
| Runtime, application, presenter, window, input, host services, fibers, user interface | | start, stop, events | sequential, or determined by libraries outside the repository |
| Vortek, SDL, single-file libraries | | | vendored |

The components in the first nine rows are modelled (section 2); the others are listed in `PROJECT.json` with the reason
they are not. What makes each correct:

* timer queue: no callback after Disarm, no armed timer lost, every due timer runs;
* pipeline builder: one request per key, no pipeline destroyed or replaced in use, no record lost, every request lands;
* frame queue: draws in order and shown with their own front buffer, fragments held but never for ever;
* vertex ring: a frame in flight finds its bytes, and retired buffers are freed at the right fence;
* pump: no command skipped or read after its memory was reused, no interrupt that no packet or swap caused, none left pending, a parked stream that goes on;
* wait objects: no unit taken twice, one owner, no wake-up lost, no mutex kept for ever, limits that are kept;
* suspension: a thread that was resumed as often as it was suspended runs;
* textures: a stamp that passes is valid, no request forgotten, the picture settles on what the directory and the switch say;
* audio, drivers, data: no use after a pause, stored state that agrees.

## 2. Modules

`MC<module>` modules hold the small instances, `<module>Proofs` the theorems. Operators named `Bad...` are faulty variants of
the definition after them; they document which error each property detects, and no action uses them.

### TimerQueue and TimerPromise

`TimerQueue` is `timer_queue.cpp`: `QueueTimer` claims a sequence (`Claim`), waits for its slot and publishes; `Disarm` is its
sequence of exchanges with the spin in between; the dispatch thread's loop is one action for each point where another
thread can interfere (collect, look at the front, exchange, callback, rearm or retire). Callbacks may queue and disarm, also
themselves. `~TimerQueue` sets the flag, queues the kick item and joins. Time is the time left until due and falls with
`Tick`; the sorted list is a set with a least element. `disruptorplus` is not in the repository: its ring is modelled
from how `timer_queue.cpp` uses it and marked external.

`TimerPromise` is what the interface promises, without rings, lists or exchanges. `TimerQueue!PromiseSpec` instantiates it
with the states of the items read as statuses (refinement; TLC checks it and TLAPS proves it).

### PipelineBuilder and PipelinePromise

Workers, replay thread, present thread, detached writer, Shutdown and the process itself (kill, boot). One action is one
critical section or one atomic access; the present thread's frame is adopt, draws, and perhaps a save. A draw is the data
of one `PrewarmRec`; two draws may share a key (`scale` is recorded but is no part of it). The file is a set of records,
written in one step, because the code writes a temporary file and renames it. Modes are the environment settings that change the
control (synchronous pipelines, the two warm passes) and whether the file system may fail. If it may, the manifest may be impossible to
open or to parse, and the program starts with an empty log (`IgnoreManifest`; `unread` remembers that the file holds records the log
lacks); a write may leave the old file; and a flush that fails unnoticed leaves a file that does not parse (`Written`).

`PipelinePromise` is the pool as the present thread sees it: a key is asked for, answered once with a new handle or with none, and the
answer is adopted, or destroyed where a live pipeline is already. `Pool` in PipelineBuilder reads what is published as the
answers; queue order, workers, counters and the replay disappear (refinement; TLC checks it and TLAPS proves it).

### FrameQueue

The walker submits draws and publishes at XE_SWAP in two steps, exchange of the mailbox under the mutex and notification after
it. The present thread decides on the flag, takes the chunk, holds or completes the frame, and sleeps with a time
limit. A draw is its number and the address a resolve writes, which is all that the merge looks at. Time is left
out: a wait may time out at any moment.

### VertexRing

Places instead of bytes. A payload is an address and the number of the allocation that lives there, so that a cache which
confuses two vectors at one address is visible. Capture may drop a payload and allocate another at its address once
nobody holds it. The present thread goes through sweep and wrap (`BeginFrame`), sizing with a possible new buffer
(`SizeFrame`), uploads (`Upload`), submission, and in serialized mode the wait. The GPU completes frames in order.
`mem` is what lies in each buffer; a write replaces what was there, freeing a buffer removes its contents, and the handle
may be reused. One allocation may fail; `Crash` is the copy through the null pointer that follows in the code.

### GpuPump and CommandStream

Guest, pump and capture worker, each at a point of its code, over one PM4 machine under `pm4_mutex`. The guest issues the
commands of a script into the ring or into an indirect buffer and kicks; a walk executes one command per step and parks at
`wait` until the fence has its value; `report` is the write-back of the read pointer, an unsigned word in the code, which is why
it wraps. Each command carries its number in stream order, so that a command that is skipped, executed twice or read after the guest
has reused its word or its buffer shows. `PM4_INTERRUPT` sets the seen flag and the mask in two steps; the pump takes the
mask, the flag and the acknowledgements in three.

`CommandStream` is what guest and renderer promise each other, without ring, buffers, parking or threads: commands are executed one by one
in the order of their issue, none before it was kicked, and only memory of executed commands is given back. `Stream` in GpuPump
reads the read pointer the guest sees as the number of the last command given back (`Freed`), and what was parsed as what was done.

The guest side is external: it never fills the last free word and reuses what the read pointer has passed. Atomics are
sequentially consistent. Left out: the vblank interrupt, notifications (the pump's sleep is timed, they only save time), the bound
of 2^22 packets, the pair of stores that installs the interrupt callback, a second ring initialization.

### HostThreads

Events, semaphores, mutants and threads of `TH`, and the suspension of `XT` above them. Every object has its mutex: `Lock` takes it, and
what a thread does under it until it releases it is one step. `WaitMultiple` try-locks one object after the other
(`TryLock`) and starts over when one is taken; the clock is read only after all were locked. Alertable waits are slices
(`NextSlice`). Critical sections of `state_mutex_` and `callback_mutex_`, and those of the host's suspensions, are one step each; `Pulse` is a set and a reset.
A thread is created suspended, publishes state and count together (`Start`), and waits for `suspend_count_` to be zero.
`Suspend` is four steps (guest count, look, host count, signal). `Resume` is four as well (look, count, look again, host), the first three
under `suspend_mutex_`, which `Suspend` does not take: the decrement writes back what was read before it or what is there now, so
that a `Suspend` in between may be lost. The handler (`Interrupted`, `HandlerReturns`) stops a
thread anywhere, also with mutexes in hand.

Each thread makes the calls of a program; which calls the guest makes is external, and the programs use each object as its class
allows (`WellTyped`). Terminate, waitable timers (the queue below them is TimerQueue), destruction and APCs are left out.

### Textures

The loader thread of `TM` (`Top`, `Revert`, `ReadDir`, `Diff`, `Bump`, `Take`, `Load`, `Store`), and of NV the gate
of `ResolveTextureEntry` (`Resolve`, `Compare`), the poll (`PollFirst`, `Find`), the refresh of an entry (`Upload`) and eviction. The
user writes and removes files and toggles the switch, and the guest replaces its textures, between any two of these steps; nothing
restrains them. A file has an extension, the time of its last write, and what it decodes to, which is nothing for a file still being
written; a new file may have the time of the old one. `ReadDir` keeps one time for a hash, that of the file which is listed last
(`last`), and a listing may break off and leave files out. `Load` opens the first file in the order of `kExts`, which may be another one.
Pixels are a picture, or 0 for the guest's own.

Two history variables mark what the loader cannot know. A hash is `unnoted` from a change of its files until a listing gives a time
that differs from the one kept, or a toggle the loader sees invalidates it. A hash is `glimpsed` when it is looked up between a toggle
and the moment at which the loader sees it; if the user takes that toggle back in time, the loader never will.

Listing a directory and opening the files of one hash are one step each. Dumps, decoders, mip chains, the retire epoch, descriptor
combinations and the deferred destruction of images are left out.

## 3. Runs

| Run | Instance | Distinct states | What it shows |
|---|---|---|---|
| `timerqueue_safety` | one-shot item, two recurring, two clients, ring of 2; callbacks that disarm their own timer twice | 729 000 | Disarm's guarantee; `ItemsAreTracked` (the dispatch thread's assertion, no timer lost, ring not overrun); refinement of TimerPromise |
| `timerqueue_liveness` | two items, ring of 3, callbacks that queue and disarm (their own timer once) | 57 000 | published timers are collected, due ones run, Disarm and the destructor return |
| `pipeline_safety` | two workers, four draws, three keys, one blacklisted, one without ucode | 649 000 | `QueueIsServed` (queue shape, no lost wake-up), `PipelinesAreKept` (one request per key, one place per handle, no clobbering, refinement of PipelinePromise), records kept, warm pass complete |
| `pipeline_restart` | one worker, two draws, log of two, kills, files that cannot be read, failing and truncated writes, two boots | 287 000 | `SavesKeepRecords` (no save drops a record, but in the two cases of section 5), requests land, `WaitsEnd` (Shutdown and the wait without limit) |
| `pipeline_lostrecords` | one worker, two draws | | finding 1 |
| `frames` | two draws, three swaps, two front buffers, limits 1 and 2 | 269 000 | order, no lost notification, `FramesAreWhole` (bounds of holding, fragments wait, the pointer travels with its frame), chunks taken, the thread can be joined |
| `vertexring` | two addresses, three handles, capacities 4, 8, 16, arena cap 1 | 2 460 000 | bytes intact, offsets fit, buffers accounted for and freed at their fence |
| `gpupump` | ring of 4 words, one buffer used twice, two scripts, waits for two values | 132 000 | `NothingIsSkipped` (commands in order, not parked means done, a kick is owed a walk, refinement of CommandStream), `NoInterruptIsInvented` (never more than caused, early ones handed over, once), what is pending is delivered, a parked stream drains |
| `hostthreads` | three threads, four objects, five programs | 21 200 | `WaitsAreExact` (units, mutual exclusion, wake-ups), mutexes are let go, `WaitsEnd` (limits, callbacks), `SuspensionsEnd` (starts and resumes are not lost) |
| `hostthreads_nested` | one program, two suspensions and two resumes | | finding 2 |
| `textures` | one address, two hashes, one of which has a file; a newer file and a broken one of the same time; two events | 776 000 | the stamps' gate, no request forgotten, `PixelsAreRight` (no old decode in the cache, none on the screen, but for unnoted and glimpsed hashes), the picture of the others settles |
| `textures_switchoff` | the same with one hash and no file at first | | finding 3 |

**Bounds and why they are enough.** Items, draws, payloads and objects are as many as the interesting cases need: a ring smaller than
the number of items, two draws that share a key and one that does not, two payloads of which one may be promoted, dropped
or overwritten, a command buffer that is used again, two threads that want two objects in opposite orders. Two workers and two
clients are the least that interfere. Limits (`kMaxHolds`, `kMaxPending`, `kMaxBuilding`, `kVbBumpCap`, `kPrewarmMaxRecs`,
`kWaitCount`, `N`, `MaxCount`) are small enough that the instance reaches them; `Wrap` is 4 for the code's 256 and `Word` 16 for
2^32, so that both wrap or could. The bounds that are not in the code are `MaxLag` (lateness saturates; the code compares lateness only with
zero and with one interval), `MaxDraws`, `MaxSwaps`, `MaxBoots`, `MaxFence` and `MaxEvents`. In
`VertexRing` the number of frames is not bounded: the arena's cap and the reuse of handles make the state space finite. In
`Textures` two events are enough for a file that is replaced while it is decoded, for a toggle during it, for a toggle that is taken
back, and for a change that no listing tells of. Its runs have one extension, which leaves out that a hash has two files; the theorems
hold for any number of them. `RestartModes` lets files fail in the mode whose warm pass has no time limit and not in the other; with
both the run does not end in time.

Deadlock is checked in the runs whose specification never stops. It is off where the system really stops: a present
thread that has left and a guest that has submitted all its draws (`frames`), a crashed process (`vertexring`), a pump that was shut
down (`gpupump`), programs that have ended (`hostthreads`), a destructor whose kick waits for a slot of a full ring after the
dispatch thread has seen the flag and left (`timerqueue_safety`, where the ring is smaller than the number of entries; with 512
slots this needs 511 timers queued at that moment).

**Fairness.** `TimerQueue`: every thread that can run runs, and callbacks return; the only callback in the repository is
`CompletionRoutine`, which signals and calls a short function. `PipelineBuilder`: every thread is scheduled and every build and
write ends; nobody has to draw, save, kill or restart. `FrameQueue`: both threads are scheduled, and a presenter that is
asked again and again calls back (strong fairness, because the answer may be missing for some rounds); the guest may stop.
`GpuPump`: the pump's loop runs, a walk goes on, and the fence a wait polls is written some time; the guest need not issue
anything more. `HostThreads`: a thread that can run runs (weak); a mutex that is free again and again is got, and a time limit that
could end a wait again and again does (strong, because the mutex may be taken at the moment). `Textures`: the loader runs and the
present thread's call proceeds (weak); scans are 250 ms apart, so a request in the queue is taken between them (strong for
`Take`), and a texture the guest keeps drawing is bound and kept again and again (strong).
Liveness is stated as "or the program is being closed" where the code gives up on shutdown.

## 4. Proofs

| Module | Proved for | Results |
|---|---|---|
| `TimerQueueProofs` | any items, clients, ring size, intervals | types, `NoCallbackAfterDisarm`, `ItemsAreTracked` and its three parts, refinement `PromiseSpec` |
| `PipelineBuilderProofs` | any workers, draws, log size, modes, boots | types, `QueueIsServed` and its two parts, `SavesKeepRecords`, `RecordsSurviveShutdown` |
| `PipelineHandlesProofs` | the same | `PipelinesAreKept` with the refinement of PipelinePromise, `WarmIsComplete` |
| `FrameQueueProofs` | any front buffers, limits, draws, swaps | types, `DrawsInOrder`, `NoLostWakeup`, `FramesAreWhole` and its three parts |
| `VertexRingProofs` | any addresses, capacities, limits; three handles or more | types, `ReadsIntact`, `OffsetsFit`, `BuffersAccounted` |
| `GpuPumpProofs` | any ring, buffers, scripts, CPUs | types, `NoInterruptIsInvented`, `NothingIsSkipped` with its parts and the refinement of CommandStream |
| `HostThreadsProofs` | any threads, objects and well-typed programs | types, `WaitsAreExact` and its parts |
| `TexturesProofs` | any addresses, hashes, extensions, files, and a user who does what he likes | types, `GateIsSound`, `PendingIsServed`, `CacheIsFresh`, `PixelsAreRight` |

The assumptions are those named in the modules (`TimerQueueAssumption` and so on): finite sets of draws and workers, distinct special
values, limits in the naturals, three buffer handles (the driver has another one when the ring holds one and one is retired),
calls on objects that have them.

*TimerQueue.* Disarm's guarantee is not inductive: one must know where the dispatch thread is. `CallbackInv` says that a
running state belongs to the item in its hands, between the exchange and the store; `HolderInv` that whatever holds an
item got it from `QueueTimer`, and that a returned Disarm left it disarmed; `SeqInv` that sequences are handed out once. From
these the ring, the assertion and the guarantee follow, and each step maps to a step of TimerPromise or to none.

*PipelineBuilder.* `QueueShape` is a cardinality; the proof replaces it by `ShapeInv` (the pre-warm requests are exactly the
last `prewarm_queued` places), which arithmetic handles, and returns to the cardinality once. The manifest needs
`ManifestInv`: every snapshot on its way to the file lies between the file, unless this run has ignored it, and the log, and only one
save is in flight.
`RecordInv` says where a record is that the file lacks: marked dirty, or in a snapshot. `PendInv` replaces the sum of
three cardinalities by three disjoint sets of keys, each without repetition, whose union is `pipe_inflight`; with it the
drain finds one entry per key at most, and `HandleInv` (a handle is in one of three places, none is beyond the number of builds)
is inductive. The two also carry the refinement of PipelinePromise: a build answers a key that is in flight and has no answer yet (`PendInv`),
and the handle the drain destroys is not the one in the map (`HandleInv`); every other step of queue, workers and replay is
none of the promise. `WarmInv` follows a record of the manifest from the replay's list over the request to the map, and counts the
workers that build, so that an empty queue and no active worker mean that nothing is on its way.

*FrameQueue.* The order of all draws is proved pair by pair of queues (`OrderInv`) and glued together by a lemma on
concatenations. The history variables `swaps` and `held` are tied to the code's own counters by `PointerInv` and `HoldInv`.

*VertexRing.* That bytes are intact needs to know where they are. `RetireInv`: at most one buffer is retired, on the list of the slot whose
frame may still read it. `FlightInv`: which slots have a frame in flight at each point. `ArenaInv`: what is cached lies below the
arena's end with its bytes, so appending does not overwrite it. `WindowInv`: the window about to be written avoids the region of the other
slot, or follows it, or the buffer is new. `RecsInv` and `ReadsInv`: what a recorded or submitted frame reads lies below the end of its
slot's region in the current buffer, or in a buffer that waits for the slot's fence. The last four hold while no allocation has
failed; afterwards the cache may belong to the buffer before (hazard at NV 8018), which is what the premise of `ReadsIntact` says.

*GpuPump.* The seen flag only rises, and `FlagInv` says what the pump may conclude from it at each point of its loop: once it has handed
over, nothing early is pending and it will find the flag up for ever. With that the interrupts given, pending
and in hand never exceed the packets and swaps.

The types depend on the pointers being places of the ring (`SlotTypes`). `KickInv` says who has to walk: the write pointer that is left for
the worker, or the one of the last walk, takes in exactly what was kicked, and a worker that is behind is woken or on its way.

That nothing is skipped is an invariant of four positions in the stream, r <= c <= w <= k: where the read pointer the guest sees
stands, what the machine has taken from the ring, and the write pointers of the last walk and of the worker (`Stands`). `RingInv`: from r on
the ring holds what the guest issued, the buffers that are called from there included; the guest's guards keep it from writing over
any of it, because it counts free words from r. `FrameInv`: the innermost frame is at the command after the last executed one, in the
ring, in a buffer, or in a buffer called by a buffer; within a buffer the call is still at or after r, because what is reported is
`ring_ib_call_pos` and not the ring's position. `PointerInv` ties the pointers to remainders modulo N; two positions less than N apart
have different ones (`OnePlace`), and what `WriteRingRptrLocked` computes modulo 2^32 keeps the remainder (`Reported`). `RestInv`: a machine that
neither walks nor is parked has reached the write pointer. Each buffer calls at most one other, which calls none
(`WellFormed`), so that there are three kinds of frames; the code's eight levels are not reached.

CommandStream follows from the same positions. What the guest takes for free is the command before r; a report moves r to c, or to c - 1 while
a buffer is walked, and the command there has been executed or called (`FreedIs`). What the machine executes was
kicked, because c stays below the write pointer of its walk, and that is never ahead of the kick. Issuing leaves what r stands on in
place, so that nothing is given back by writing.

*HostThreads.* `SleepInv`: who sleeps on an object waits, and the object is not signalled, because whoever signals wakes the
sleepers in the same critical section. `ReleaseInv`: a mutant's release looks at the owner before it has the mutex, and what it saw
stays true, because only the owner can change it. `HoldInv` ties what threads believe to owner and count. The types need `LockInv`: which object
mutexes a thread has in hand is determined by where it stands.

*Textures.* No stamp is ahead of the global generation, neither in an entry nor in the hands of the present thread (`StampInv`); the entry
that is being refreshed obeys the gate (`UploadInv`); then a current stamp means a current hash, unless the loader is between invalidation
and bump. `PendingIsServed` is inductive.

That the pixels are right is proved without any assumption on the user. `HashInv` compares the files of a hash with what the
loader's next scan will be compared with: what is cached is what they decode to, or the loader is about to invalidate it, or they are unnoted; and a hash the loader
takes for one without files has no replacement in the cache, because a toggle would not invalidate it. `StoreInv` says the same of the
decode in the loader's hands, and `SwitchInv` that a forced scan ends before anything is decoded. `AskInv`: what is pending is not cached.
`EntryInv` says what pixels of the current generation of a hash are: those a lookup would find now, and if it
would find none, the decode was asked for or there is no file; toggles make exceptions of glimpsed hashes only. `PixelsAreRight` is
the two put together.

Only model-checked is liveness: `DueTimerRuns`, `DisarmTerminates`, `DestructorReturns`, `RequestLands`, `WaitsEnd` (of PipelineBuilder and of
HostThreads), `ChunkTaken`, `PresentThreadEnds`, `InterruptsArrive`, `StreamDrains`, `LocksAreReleased`, `SuspensionsEnd`, `Settles`. They rest on fairness,
and fairness on ENABLED, which the prover does not handle.

## 5. Findings

1. **Shutdown may leave records unwritten** (NV 4285). The synchronous save returns when nothing is dirty, although the records
   may be in a detached writer that has not finished; the comment says it waits for that writer.
2. **Nested suspensions do not end** (XT 971). Every Suspend raises the host's count; Resume calls the host only when the guest's count
   falls to zero. After two and two the guest's count is 0, the host's 1, and the thread stays in the signal handler.
3. **Switching off does not revert a replacement no scan has noted** (TM 398). A file that is added and decoded before the next scan is
   in the cache but not in `g_seen`, and the switch invalidates what is in `g_seen`; with replacements off no scan follows. The
   comment says that switching off must revert to the guest's own art.

Observed while modelling, without a run of their own:

* A callback that disarms its timer twice never returns (`timer_queue.cpp:176`). The first call leaves the item
  self-disarmed; the second finds neither of the states its two exchanges expect and waits for its own callback. With `"selfAgain"`
  among the callbacks of the liveness instance TLC shows it. No caller in the repository does it.
* The manifest can shrink in two ways, which `SavesKeepRecords` states as its exceptions. A file that cannot be opened or does
  not parse is ignored and the log not seeded from it (NV 4388-4421), so that the first save of the run replaces it by what this run
  has recorded. And `fclose` is not checked (NV 4335): a flush that fails leaves a truncated file, which is renamed over the good
  one and does not parse at the next start. What is lost is built again when it is drawn.
* Without translated shaders the present loop spins: the raw flag is never cleared in that mode (NV 1807), whatever the comment at
  NV 1909 says. `GameActivity.kt:154` sets the other mode.
* The arena creeps: a frame that promotes nothing still moves the arena's end when its scratch hopped over the previous frame's
  (NV 9489), until the wrap drops the cache; the comment at NV 2046 expects two stable regions.
* `EnsureRing` gives up the old buffer before it resets the capacity (NV 2005): after a failed allocation the next frame finds the old capacity, no
  buffer, and copies through a null pointer (`Crash`).
* The code wants one source-1 interrupt per completion (BK 4324, 5078). It may give fewer: two
  packets for one CPU before the pump takes the mask share its one bit (BK 4334) and one interrupt, which is why
  `NoInterruptIsInvented` is an upper bound and `InterruptsArrive` speaks of the mask. And once it may give one more: when the flag rises
  between the pump's reads, a swap of that frame may be acknowledged by the hand-over and announced by its own packet as well (`HandOverIsLast`).
* The Resume that starts a thread posts `suspend_sem_` although the thread waits on a condition; the first Suspend that follows finds
  the post and does not stop the thread. A thread that ends between a Suspend and its signal leaves `suspended` behind.
* A Resume between Suspend's look at the guest's count (XT 997) and its call of the host (XT 1000) finds nothing to resume, and the
  thread is then stopped with a guest count of 0. Three threads show it: one suspends, resumes and suspends again, another
  resumes. The runs have one thread that suspends and resumes others.
* Two threads that call `WaitMultiple` on the same objects in opposite orders can make each other's try-locks fail for ever
  in theory, and an object passed twice always fails. `Release` of a mutant reads the owner outside the mutex; the proof shows that
  this is harmless. On Android the robust mutexes are compiled out (TH 17).
* What the loader cannot know stays wrong until something else moves the hash, and these are the exceptions of `PixelsAreRight` and
  `Settles`. Unnoted: a file that is decoded while it is written, or comes and goes, and no later listing shows another
  time; a hash with two files, of which the scan keeps the time of one (TM 431) and the decode opens the other (TM 487);
  a listing that breaks off (TM 425). Glimpsed: a lookup during a toggle that is taken back before the loader looks leaves the
  guest's pixels with current stamps.

## 6. Not modelled, and the plan

Left out of the modelled components: the opt-in diagnostics (environment variables that trace, verify or restore old behaviour),
the driver's own pipeline cache file, the index and uniform rings of the slots, texture entries and staging buffers on the retire
lists, the 16-byte rounding of payloads, and what section 2 names. Most of the repository's lines are vendored headers
(Vulkan, Vortek's serializers), sequential translation of shaders and state, patches of guest functions, and screens: they hold no
protocol, and a model of them would restate them.

Further hazards of the parts that are not modelled, each at its line: a callback that queues while the ring is full waits on
its own thread (`timer_queue.cpp` 143); a manifest write that fails does not mark the records dirty again (NV 4286); the pump's
notification without a predicate (BK 4343), a kick that overtakes a ring reset in the asynchronous mode (BK 4876), the interrupt
callback and its argument as two stores (BK 5251); `Pulse` as three steps, a timer's wait item read outside its mutex, a second
join of a thread (TH 1262, 586, 1023); the guest's suspend count changed with and without its mutex and an APC
queued during the rundown (XT 989, 504); the decoder's pause fences, the inline decode and the two-second shutdown
(`xma_decoder.cpp` 157, 305, 187); the retire epoch of texture views (NV 7546); the stamp written after the driver's cache (NV 2573);
`reconcile` outside the lock (`DriverManager.kt` 599); the steps in which a pick is stored and restored
(`DataSelectionViewModel.kt` 199, 111); two readers of the gamepad's events (`sdl_input_driver.cpp` 441).

The plan, most important first:

1. Texture entries, views and staging buffers on the retire lists of VertexRing's slots, with the retire epoch.
2. `HostThreads`: Terminate, waitable timers composed with `TimerPromise`, APCs.
3. `XmaWorker`: contexts, pause fences, inline decode, shutdown.
4. `DriverStore` and data selection: two stored facts that must agree across a kill.

Runs are small and few: each answers one question, and a new module gets one run for its safety and, where the code has a
scheduler to rely on, its liveness.
