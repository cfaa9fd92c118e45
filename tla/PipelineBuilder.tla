---------------------------- MODULE PipelineBuilder ----------------------------
(***************************************************************************)
(* The asynchronous pipeline builder of NaughtyBear_ReStuff                *)
(* (src/native_vk.cpp).  A draw whose pipeline is missing is dropped and   *)
(* its pipeline requested; worker threads build it and publish it in       *)
(* pipe_done; the present thread, the only one that touches `pipelines',   *)
(* adopts what was published once a frame.  A replay thread requests at    *)
(* start-up the pipelines the last run recorded in a manifest, and the     *)
(* manifest is saved by detached writers, by Shutdown, and lost by kills.  *)
(*                                                                         *)
(* A draw is the data of one PrewarmRec: `combo' (shaders and the state    *)
(* that enters the key as it is), `big' (the RB_SURFACE_INFO bit of the    *)
(* key) and `scale' (recorded, but not part of the key).  The manifest and *)
(* the log are sets: prewarm_seen keeps records distinct, and their order  *)
(* only orders the replay.  Frame counts are abstracted: a frame may       *)
(* trigger a save or not.  The driver's own cache file is not modelled.    *)
(*                                                                         *)
(* Operators named Bad... are faulty variants the properties are tested    *)
(* against; Next uses none.                                                *)
(***************************************************************************)
EXTENDS Integers, Sequences, FiniteSets

CONSTANTS
  Workers,         \* pipe_workers
  Draws,           \* draws the game may issue: [combo, big, scale]
  NoUcode,         \* draws whose shaders the replay cannot translate
  Blacklisted,     \* combos of RESTUFF_BLACKLIST_PS
  Modes,           \* modes a run may have: [sync, warm, fails]
  kPrewarmMaxRecs, \* capacity of the record log
  Manifests,       \* contents of the manifest before the first boot
  MaxBoots,        \* bound: runs of the program
  None             \* no pipeline, no request, no snapshot

KeyOf(d) == [combo |-> d.combo, big |-> d.big]
Keys     == {[combo |-> d.combo, big |-> b] : d \in Draws, b \in BOOLEAN}
Null     == 0      \* VK_NULL_HANDLE; the n-th pipeline built for a key is n
Requests == {[combo |-> d.combo, big |-> b, prewarm |-> p] :
                d \in Draws, b \in BOOLEAN, p \in BOOLEAN}

\* sync: RESTUFF_SYNC_PIPELINES; warm: "auto" with g_pipe_cache_stale, "only"
\* with RESTUFF_PREWARM_ONLY; fails: whether the manifest may fail to be read,
\* written or flushed.
AllModes == [sync : BOOLEAN, warm : {"off", "auto", "only"}, fails : BOOLEAN]

ASSUME PipelineBuilderAssumption ==
  /\ IsFiniteSet(Draws) /\ IsFiniteSet(Workers) /\ Workers # {}
  /\ \A d \in Draws : d.big \in BOOLEAN
  /\ Modes \subseteq AllModes
  /\ kPrewarmMaxRecs \in Nat /\ MaxBoots \in Nat
  /\ Manifests \subseteq SUBSET Draws
  /\ \A recs \in Manifests : Cardinality(recs) <= kPrewarmMaxRecs
  /\ None \notin Nat /\ None \notin Requests /\ None \notin Draws

VARIABLES
  pipelines,       \* present thread only: Key -> None (absent), Null or a handle
  builds,          \* handles created so far, per key
  destroyed,       \* handles given to vkDestroyPipeline
  pipe_inflight, pipe_queue, prewarm_queued, pipe_done, pipe_active, pipe_quit,
  wpc, wreq,       \* where each worker stands, and the request it builds
  prewarm_log, prewarm_dirty,
  enqueue_done,    \* prewarm_enqueue_done
  rpc, todo, rec,  \* replay thread: where it stands, records left, current one
  ppc,             \* where the present thread stands
  running,         \* running_
  spc,             \* where Shutdown stands
  saving,          \* s_saving
  snap, ssnap,     \* recs of the present thread's and of Shutdown's save
  writing, writer, \* whether a detached writer runs, and its recs
  manifest,        \* the records of the file, none if it is missing or does not parse
  unread,          \* history: the file has records this run ignored
  up,              \* whether the process lives
  boots, mode      \* how often it started, and the mode it runs in

poolVars  == <<pipe_inflight, pipe_queue, prewarm_queued, wpc>>
logVars   == <<prewarm_log, prewarm_dirty>>
pipeVars  == <<pipelines, builds, destroyed>>
restVars  == <<pipe_done, pipe_active, pipe_quit, wreq>>
replayVars == <<enqueue_done, rpc, todo, rec>>
fileVars  == <<manifest, unread>>
saveVars  == <<saving, snap, ssnap, writing, writer, fileVars>>
bootVars  == <<boots, mode>>
procVars  == <<running, spc, up, bootVars>>
vars == <<poolVars, logVars, pipeVars, restVars, replayVars, saveVars, procVars, ppc>>

Init ==
  /\ pipelines = [k \in Keys |-> None] /\ builds = [k \in Keys |-> 0]
  /\ destroyed = {}
  /\ pipe_inflight = {} /\ pipe_queue = <<>> /\ prewarm_queued = 0
  /\ pipe_done = <<>> /\ pipe_active = 0 /\ pipe_quit = FALSE
  /\ wpc = [w \in Workers |-> "awake"] /\ wreq = [w \in Workers |-> None]
  /\ prewarm_log = {} /\ prewarm_dirty = FALSE
  /\ enqueue_done = FALSE /\ rpc = "off" /\ todo = {} /\ rec = None
  /\ ppc = "start" /\ running = TRUE /\ spc = "off"
  /\ saving = FALSE /\ snap = {} /\ ssnap = {} /\ writing = FALSE /\ writer = {}
  /\ manifest \in Manifests /\ unread = FALSE /\ up = TRUE /\ boots = 1 /\ mode \in Modes

-----------------------------------------------------------------------------
(* Requests: the miss path of GetOrCreateTranslatedPipeline.               *)

BadRequest(d, prewarm) == [combo |-> d.combo, big |-> FALSE, prewarm |-> prewarm]
Request(d, prewarm) == [combo |-> d.combo, big |-> d.big, prewarm |-> prewarm]

BadPlaced(rq) == Append(pipe_queue, rq)
Placed(rq) == IF rq.prewarm \/ prewarm_queued = 0 THEN Append(pipe_queue, rq)
              ELSE <<rq>> \o pipe_queue

\* pipe_cv: only workers wait on it.
BadNotifyOne == wpc' = wpc
NotifyOne ==
  \/ /\ \A w \in Workers : wpc[w] # "asleep"
     /\ wpc' = wpc
  \/ \E w \in Workers : /\ wpc[w] = "asleep"
                        /\ wpc' = [wpc EXCEPT ![w] = "awake"]

Record(d) ==
  IF Cardinality(prewarm_log) < kPrewarmMaxRecs /\ d \notin prewarm_log
  THEN prewarm_log' = prewarm_log \cup {d} /\ prewarm_dirty' = TRUE
  ELSE UNCHANGED logVars

Enqueue(d, prewarm) ==
  IF KeyOf(d) \in pipe_inflight THEN UNCHANGED <<poolVars, logVars>>
  ELSE /\ pipe_inflight' = pipe_inflight \cup {KeyOf(d)}
       /\ pipe_queue' = Placed(Request(d, prewarm))
       /\ prewarm_queued' = prewarm_queued + (IF prewarm THEN 1 ELSE 0)
       /\ NotifyOne
       /\ Record(d)

-----------------------------------------------------------------------------
(* Workers: PipelineWorker.                                                *)

BadTaken(rq) == prewarm_queued
BadTakenLive(rq) == prewarm_queued - 1
Taken(rq) == IF rq.prewarm /\ prewarm_queued > 0 THEN prewarm_queued - 1
             ELSE prewarm_queued

WorkerTake(w) ==
  /\ up /\ wpc[w] = "awake" /\ ~pipe_quit /\ pipe_queue # <<>>
  /\ wpc' = [wpc EXCEPT ![w] = "build"]
  /\ wreq' = [wreq EXCEPT ![w] = Head(pipe_queue)]
  /\ pipe_queue' = Tail(pipe_queue)
  /\ prewarm_queued' = Taken(Head(pipe_queue))
  /\ pipe_active' = pipe_active + 1
  /\ UNCHANGED <<pipe_inflight, logVars, pipeVars, pipe_done, pipe_quit, replayVars,
                 saveVars, procVars, ppc>>

WorkerSleep(w) ==
  /\ up /\ wpc[w] = "awake" /\ ~pipe_quit /\ pipe_queue = <<>>
  /\ wpc' = [wpc EXCEPT ![w] = "asleep"]
  /\ UNCHANGED <<pipe_inflight, pipe_queue, prewarm_queued, logVars, pipeVars, restVars,
                 replayVars, saveVars, procVars, ppc>>

WorkerExit(w) ==
  /\ up /\ wpc[w] = "awake" /\ pipe_quit
  /\ wpc' = [wpc EXCEPT ![w] = "exited"]
  /\ UNCHANGED <<pipe_inflight, pipe_queue, prewarm_queued, logVars, pipeVars, restVars,
                 replayVars, saveVars, procVars, ppc>>

\* vkCreateGraphicsPipelines, with or without success, and the publication of
\* its result under the key recomputed from the request.
WorkerBuild(w) ==
  /\ up /\ wpc[w] = "build"
  /\ \E ok \in BOOLEAN :
       LET k == KeyOf(wreq[w])
           p == IF ok THEN builds[k] + 1 ELSE Null
       IN /\ pipe_done' = Append(pipe_done, [key |-> k, pipe |-> p])
          /\ builds' = IF ok THEN [builds EXCEPT ![k] = p] ELSE builds
  /\ wpc' = [wpc EXCEPT ![w] = "finish"]
  /\ wreq' = [wreq EXCEPT ![w] = None]
  /\ UNCHANGED <<pipe_inflight, pipe_queue, prewarm_queued, logVars, pipelines, destroyed,
                 pipe_active, pipe_quit, replayVars, saveVars, procVars, ppc>>

\* pipe_idle_cv: the warm pass waits on it, in the present or the replay thread.
IdleNotified ==
  /\ ppc' = IF ppc = "warmAsleep" THEN "warm" ELSE ppc
  /\ rpc' = IF rpc = "idleAsleep" THEN "idle" ELSE rpc

Idle(active) == active = 0 /\ pipe_queue = <<>>

WorkerFinish(w) ==
  /\ up /\ wpc[w] = "finish"
  /\ pipe_active' = IF pipe_active > 0 THEN pipe_active - 1 ELSE 0
  /\ IF Idle(pipe_active') THEN IdleNotified ELSE UNCHANGED <<ppc, rpc>>
  /\ wpc' = [wpc EXCEPT ![w] = "awake"]
  /\ UNCHANGED <<pipe_inflight, pipe_queue, prewarm_queued, logVars, pipeVars, pipe_done,
                 pipe_quit, wreq, enqueue_done, todo, rec, saveVars, procVars>>

WorkerStep(w) == \/ WorkerTake(w) \/ WorkerSleep(w) \/ WorkerExit(w)
                 \/ WorkerBuild(w) \/ WorkerFinish(w)

-----------------------------------------------------------------------------
(* The replay thread and the warm pass: MaybeStartPipelinePrewarm.         *)

BadSeeded == prewarm_log
Seeded == prewarm_log \cup manifest

\* A manifest that is missing, cannot be opened or does not parse is ignored:
\* nothing is replayed, and the log does not start from what it may hold.
IgnoreManifest ==
  /\ manifest = {} \/ mode.fails
  /\ unread' = (manifest # {})
  /\ ppc' = "adopt"
  /\ UNCHANGED <<prewarm_log, rpc, todo>>

LoadManifest ==
  /\ manifest # {}
  /\ prewarm_log' = Seeded
  /\ rpc' = "check" /\ todo' = manifest
  /\ ppc' = IF mode.warm = "auto" THEN "warm" ELSE "adopt"
  /\ UNCHANGED unread

StartPrewarm ==
  /\ up /\ ppc = "start" /\ running
  /\ IgnoreManifest \/ LoadManifest
  /\ UNCHANGED <<poolVars, prewarm_dirty, pipeVars, restVars, enqueue_done, rec, saving, snap,
                 ssnap, writing, writer, manifest, procVars>>

ReplayNext ==
  /\ up /\ rpc = "check" /\ todo # {}
  /\ IF pipe_quit THEN rpc' = "end" /\ UNCHANGED <<todo, rec>>
     ELSE \E d \in todo : rec' = d /\ todo' = todo \ {d} /\ rpc' = "request"
  /\ UNCHANGED <<poolVars, logVars, pipeVars, restVars, enqueue_done, saveVars, procVars, ppc>>

Replayable(d) == d \notin NoUcode /\ d.combo \notin Blacklisted

ReplayRequest ==
  /\ up /\ rpc = "request"
  /\ IF Replayable(rec) THEN Enqueue(rec, TRUE) ELSE UNCHANGED <<poolVars, logVars>>
  /\ rpc' = "check" /\ rec' = None
  /\ UNCHANGED <<pipeVars, restVars, enqueue_done, todo, saveVars, procVars, ppc>>

ReplayFinish ==
  /\ up /\ rpc = "check" /\ todo = {}
  /\ enqueue_done' = TRUE
  /\ ppc' = IF ppc = "warmAsleep" THEN "warm" ELSE ppc
  /\ rpc' = IF mode.warm = "only" THEN "idle" ELSE "end"
  /\ UNCHANGED <<poolVars, logVars, pipeVars, restVars, todo, rec, saveVars, procVars>>

BadWarmOver == pipe_quit \/ (enqueue_done /\ pipe_queue = <<>>)
WarmOver == pipe_quit \/ (enqueue_done /\ pipe_queue = <<>> /\ pipe_active = 0)

\* RESTUFF_PREWARM_ONLY: wait for the pool, flush the driver cache, _exit(0).
ReplayWait ==
  /\ up /\ rpc = "idle"
  /\ rpc' = IF WarmOver THEN "flush" ELSE "idleAsleep"
  /\ UNCHANGED <<poolVars, logVars, pipeVars, restVars, enqueue_done, todo, rec, saveVars,
                 procVars, ppc>>

ReplayExit ==
  /\ up /\ rpc = "flush"
  /\ up' = FALSE
  /\ UNCHANGED <<poolVars, logVars, pipeVars, restVars, replayVars, saveVars, running, spc,
                 bootVars, ppc>>

ReplayStep == \/ ReplayNext \/ ReplayRequest \/ ReplayFinish \/ ReplayWait \/ ReplayExit

\* g_pipe_cache_stale: the present thread waits, with a time limit.
WarmWait ==
  /\ up /\ ppc = "warm"
  /\ ppc' = IF WarmOver THEN "flush" ELSE "warmAsleep"
  /\ UNCHANGED <<poolVars, logVars, pipeVars, restVars, replayVars, saveVars, procVars>>

WarmTimeout ==
  /\ up /\ ppc = "warmAsleep"
  /\ ppc' = IF WarmOver THEN "flush" ELSE "adopt"
  /\ UNCHANGED <<poolVars, logVars, pipeVars, restVars, replayVars, saveVars, procVars>>

WarmFlush ==
  /\ up /\ ppc = "flush"
  /\ ppc' = "adopt"
  /\ UNCHANGED <<poolVars, logVars, pipeVars, restVars, replayVars, saveVars, procVars>>

-----------------------------------------------------------------------------
(* The present thread's frame: adopt, draw, perhaps save.                  *)

Published(k) == {i \in DOMAIN pipe_done : pipe_done[i].key = k}
Built(k)     == {i \in Published(k) : pipe_done[i].pipe # Null}

\* try_emplace; a null is upgraded, a live pipeline never replaced.
Adopted(k) ==
  IF pipelines[k] \notin {None, Null} \/ Published(k) = {} THEN pipelines[k]
  ELSE IF Built(k) = {} THEN Null
  ELSE pipe_done[CHOOSE i \in Built(k) : \A j \in Built(k) : i <= j].pipe

Redundant(e) == e.pipe # Null /\ e.pipe # Adopted(e.key)

Adopt ==
  /\ up /\ ppc = "adopt"
  /\ pipelines' = [k \in Keys |-> Adopted(k)]
  /\ destroyed' = destroyed \cup {pipe_done[i] : i \in {j \in DOMAIN pipe_done : Redundant(pipe_done[j])}}
  /\ pipe_inflight' = pipe_inflight \ {pipe_done[i].key : i \in DOMAIN pipe_done}
  /\ pipe_done' = <<>>
  /\ ppc' = "draw"
  /\ UNCHANGED <<pipe_queue, prewarm_queued, wpc, logVars, builds, pipe_active, pipe_quit,
                 wreq, replayVars, saveVars, procVars>>

\* GetOrCreateTranslatedPipeline from the draw recorder, `pipelines' missing
\* the key (a hit changes nothing).
DrawBlacklisted(d) ==
  /\ d.combo \in Blacklisted
  /\ pipelines' = [pipelines EXCEPT ![KeyOf(d)] = Null]
  /\ UNCHANGED <<poolVars, logVars, builds>>

DrawInline(d) ==
  /\ d.combo \notin Blacklisted /\ mode.sync
  /\ \E ok \in BOOLEAN :
       LET p == IF ok THEN builds[KeyOf(d)] + 1 ELSE Null
       IN /\ pipelines' = [pipelines EXCEPT ![KeyOf(d)] = p]
          /\ builds' = IF ok THEN [builds EXCEPT ![KeyOf(d)] = p] ELSE builds
  /\ UNCHANGED <<poolVars, logVars>>

DrawRequest(d) ==
  /\ d.combo \notin Blacklisted /\ ~mode.sync
  /\ Enqueue(d, FALSE)
  /\ UNCHANGED <<pipelines, builds>>

Draw(d) ==
  /\ up /\ ppc = "draw" /\ pipelines[KeyOf(d)] = None
  /\ DrawBlacklisted(d) \/ DrawInline(d) \/ DrawRequest(d)
  /\ UNCHANGED <<destroyed, restVars, replayVars, saveVars, procVars, ppc>>

BadLoopHead == "adopt"
LoopHead == IF running THEN "adopt" ELSE "stopped"

EndFrame(next) ==
  /\ up /\ ppc = "draw"
  /\ ppc' = next
  /\ UNCHANGED <<poolVars, logVars, pipeVars, restVars, replayVars, saveVars, procVars>>

StopEarly ==
  /\ up /\ ppc = "start" /\ ~running
  /\ ppc' = "stopped"
  /\ UNCHANGED <<poolVars, logVars, pipeVars, restVars, replayVars, saveVars, procVars>>

-----------------------------------------------------------------------------
(* SavePrewarmManifest.                                                    *)

SaveSnapshot ==
  /\ up /\ ppc = "save"
  /\ prewarm_dirty' = FALSE
  /\ IF prewarm_dirty THEN snap' = prewarm_log /\ ppc' = "handoff"
     ELSE snap' = snap /\ ppc' = LoopHead
  /\ UNCHANGED <<poolVars, prewarm_log, pipeVars, restVars, replayVars, saving, ssnap, writing,
                 writer, fileVars, procVars>>

\* Single flight: the exchange of s_saving.
SaveHandoff ==
  /\ up /\ ppc = "handoff"
  /\ snap' = {}
  /\ IF saving THEN ppc' = "restore" /\ UNCHANGED <<saving, writing, writer>>
     ELSE saving' = TRUE /\ writing' = TRUE /\ writer' = snap /\ ppc' = LoopHead
  /\ UNCHANGED <<poolVars, logVars, pipeVars, restVars, replayVars, ssnap, fileVars, procVars>>

BadRestored == prewarm_dirty
Restored == TRUE

SaveRestore ==
  /\ up /\ ppc = "restore"
  /\ prewarm_dirty' = Restored
  /\ ppc' = LoopHead
  /\ UNCHANGED <<poolVars, prewarm_log, pipeVars, restVars, replayVars, saveVars, procVars>>

\* The writer lambda: temporary file, then rename.  What fails leaves the old
\* file, except fclose, whose result is not looked at: a truncated file, which
\* will not parse, then replaces the old one.
Written(recs) ==
  \/ manifest' = recs /\ unread' = FALSE
  \/ mode.fails /\ UNCHANGED fileVars
  \/ mode.fails /\ manifest' = {} /\ unread' = FALSE

WriterDone ==
  /\ up /\ writing
  /\ Written(writer)
  /\ writing' = FALSE /\ writer' = {} /\ saving' = FALSE
  /\ UNCHANGED <<poolVars, logVars, pipeVars, restVars, replayVars, snap, ssnap, procVars, ppc>>

-----------------------------------------------------------------------------
(* NativeVulkanGraphicsSystem::Shutdown, the end of the process, and the   *)
(* next start: after an exit, or at any moment after a kill.               *)

ShutdownStop ==
  /\ up /\ spc = "off"
  /\ running' = FALSE /\ spc' = "join"
  /\ UNCHANGED <<poolVars, logVars, pipeVars, restVars, replayVars, saveVars, up, bootVars, ppc>>

Woken(w) == IF wpc[w] = "asleep" THEN "awake" ELSE wpc[w]

ShutdownQuit ==
  /\ up /\ spc = "join" /\ ppc = "stopped"
  /\ pipe_quit' = TRUE
  /\ wpc' = [w \in Workers |-> Woken(w)]
  /\ spc' = "workers"
  /\ UNCHANGED <<pipe_inflight, pipe_queue, prewarm_queued, logVars, pipeVars, pipe_done,
                 pipe_active, wreq, replayVars, saveVars, running, up, bootVars, ppc>>

ShutdownSave ==
  /\ up /\ spc = "workers" /\ \A w \in Workers : wpc[w] = "exited"
  /\ prewarm_dirty' = FALSE
  /\ IF prewarm_dirty THEN ssnap' = prewarm_log /\ spc' = "claim"
     ELSE ssnap' = ssnap /\ spc' = "saved"
  /\ UNCHANGED <<poolVars, prewarm_log, pipeVars, restVars, replayVars, saving, snap, writing,
                 writer, fileVars, running, up, bootVars, ppc>>

ShutdownClaim ==
  /\ up /\ spc = "claim" /\ ~saving
  /\ saving' = TRUE /\ spc' = "write"
  /\ UNCHANGED <<poolVars, logVars, pipeVars, restVars, replayVars, snap, ssnap, writing, writer,
                 fileVars, running, up, bootVars, ppc>>

ShutdownWrite ==
  /\ up /\ spc = "write"
  /\ Written(ssnap)
  /\ ssnap' = {} /\ saving' = FALSE /\ spc' = "saved"
  /\ UNCHANGED <<poolVars, logVars, pipeVars, restVars, replayVars, snap, writing, writer,
                 running, up, bootVars, ppc>>

ShutdownExit ==
  /\ up /\ spc = "saved"
  /\ up' = FALSE
  /\ UNCHANGED <<poolVars, logVars, pipeVars, restVars, replayVars, saveVars, running, spc,
                 bootVars, ppc>>

Boot ==
  /\ boots < MaxBoots
  /\ boots' = boots + 1 /\ up' = TRUE /\ mode' \in Modes
  /\ pipelines' = [k \in Keys |-> None] /\ builds' = [k \in Keys |-> 0]
  /\ destroyed' = {}
  /\ pipe_inflight' = {} /\ pipe_queue' = <<>> /\ prewarm_queued' = 0
  /\ pipe_done' = <<>> /\ pipe_active' = 0 /\ pipe_quit' = FALSE
  /\ wpc' = [w \in Workers |-> "awake"] /\ wreq' = [w \in Workers |-> None]
  /\ prewarm_log' = {} /\ prewarm_dirty' = FALSE
  /\ enqueue_done' = FALSE /\ rpc' = "off" /\ todo' = {} /\ rec' = None
  /\ ppc' = "start" /\ running' = TRUE /\ spc' = "off"
  /\ saving' = FALSE /\ snap' = {} /\ ssnap' = {} /\ writing' = FALSE /\ writer' = {}
  /\ unread' = FALSE /\ UNCHANGED manifest

Terminated == ~up /\ boots = MaxBoots /\ UNCHANGED vars

FrameStep == \/ Adopt \/ SaveSnapshot \/ SaveHandoff \/ SaveRestore
             \/ EndFrame(LoopHead) \/ StopEarly
PresentStep == StartPrewarm \/ WarmWait \/ WarmTimeout \/ WarmFlush \/ FrameStep
ShutdownStep == ShutdownQuit \/ ShutdownSave \/ ShutdownClaim \/ ShutdownWrite

Next ==
  \/ \E w \in Workers : WorkerStep(w)
  \/ ReplayStep
  \/ PresentStep
  \/ \E d \in Draws : Draw(d)
  \/ EndFrame("save")
  \/ WriterDone
  \/ ShutdownStop \/ ShutdownStep \/ ShutdownExit
  \/ Boot
  \/ Terminated

Spec == Init /\ [][Next]_vars

\* Every thread is scheduled and every build and write ends; nobody has to
\* draw, trigger a save, close the program, kill it or start it.
FairSpec ==
  /\ Spec
  /\ \A w \in Workers : WF_vars(WorkerStep(w))
  /\ WF_vars(ReplayStep) /\ WF_vars(PresentStep) /\ WF_vars(WriterDone)
  /\ WF_vars(ShutdownStep)

-----------------------------------------------------------------------------
Handles == Nat \ {0}
Pipe == Nat \cup {None}

\* The variables keep their types: the queue holds requests, a worker holds one
\* exactly while it builds, and every thread stands at a point of its code.
PoolTypeOK ==
  /\ pipelines \in [Keys -> Pipe] /\ builds \in [Keys -> Nat]
  /\ destroyed \subseteq [key : Keys, pipe : Handles]
  /\ pipe_inflight \subseteq Keys
  /\ pipe_queue \in Seq(Requests) /\ prewarm_queued \in Nat
  /\ pipe_done \in Seq([key : Keys, pipe : Nat])
  /\ pipe_active \in Nat
  /\ wpc \in [Workers -> {"awake", "asleep", "build", "finish", "exited"}]
  /\ wreq \in [Workers -> Requests \cup {None}]
  /\ \A w \in Workers : wpc[w] = "build" <=> wreq[w] # None
RecordTypeOK ==
  /\ prewarm_log \subseteq Draws /\ prewarm_dirty \in BOOLEAN
  /\ todo \subseteq Draws /\ rec \in Draws \cup {None}
  /\ rpc = "request" => rec # None
  /\ snap \subseteq Draws /\ ssnap \subseteq Draws /\ writer \subseteq Draws
  /\ manifest \subseteq Draws
PointTypeOK ==
  /\ rpc \in {"off", "check", "request", "idle", "idleAsleep", "flush", "end"}
  /\ ppc \in {"start", "warm", "warmAsleep", "flush", "adopt", "draw", "save", "handoff",
              "restore", "stopped"}
  /\ spc \in {"off", "join", "workers", "claim", "write", "saved"}
FlagTypeOK ==
  /\ pipe_quit \in BOOLEAN /\ enqueue_done \in BOOLEAN /\ running \in BOOLEAN
  /\ saving \in BOOLEAN /\ writing \in BOOLEAN /\ unread \in BOOLEAN /\ up \in BOOLEAN
  /\ boots \in Nat /\ mode \in Modes
ThreadTypeOK == PointTypeOK /\ FlagTypeOK
TypeOK == PoolTypeOK /\ RecordTypeOK /\ ThreadTypeOK

\* prewarm_queued, the counter that decides at which end a live request enters,
\* counts the pre-warm requests of the queue, and the live ones are in front of
\* them, whatever the workers took and the replay added in between.
PrewarmAt(i) == pipe_queue[i].prewarm
QueueShape ==
  /\ \A i, j \in DOMAIN pipe_queue : i < j /\ PrewarmAt(i) => PrewarmAt(j)
  /\ prewarm_queued = Cardinality({i \in DOMAIN pipe_queue : PrewarmAt(i)})

\* No key rots in pipe_inflight: an in-flight key has exactly one request
\* queued, in a worker's hands or published under that very key, and nothing is
\* queued, built or published that is not in flight.
Pending(k) ==
  Cardinality({i \in DOMAIN pipe_queue : KeyOf(pipe_queue[i]) = k})
  + Cardinality({w \in Workers : wreq[w] # None /\ KeyOf(wreq[w]) = k})
  + Cardinality(Published(k))
InflightIsPending ==
  \A k \in Keys : Pending(k) = IF k \in pipe_inflight THEN 1 ELSE 0

\* Draws recorded in a frame may use any pipeline of the map, so a live entry
\* is never replaced (while the process lives), though a replayed key may be
\* built a second time.
NeverClobber ==
  [][\A k \in Keys : pipelines[k] \notin {None, Null} /\ boots' = boots
                       => pipelines'[k] = pipelines[k]]_vars

\* Each handle a build created is, at any time, in exactly one place: the map,
\* the staging list, or destroyed. None leaks and none is destroyed in use.
Places(k, n) ==
  (IF pipelines[k] = n THEN 1 ELSE 0)
  + Cardinality({i \in Published(k) : pipe_done[i].pipe = n})
  + (IF [key |-> k, pipe |-> n] \in destroyed THEN 1 ELSE 0)
HandleAccounting == \A k \in Keys : \A n \in 1 .. builds[k] : Places(k, n) = 1

\* The pool as the present thread sees it: what was published are its answers.
Answers == {pipe_done[i] : i \in DOMAIN pipe_done}
Pool == INSTANCE PipelinePromise
          WITH asked <- pipe_inflight, answers <- Answers, live <- pipelines, made <- builds, gone <- destroyed

\* A key, its request, the build and its handle stay together, and the pool
\* implements PipelinePromise: whatever the queue, the workers and the replay
\* do, a request is answered once and the answer is adopted or destroyed.
PipelinesAreKept == [](InflightIsPending /\ HandleAccounting) /\ NeverClobber /\ Pool!Spec

\* When the warm pass reports completion (and the caches are flushed and, under
\* PREWARM_ONLY, the process left), every record the replay could request is
\* built: not merely out of the queue, and not merely not yet queued.
Landed(k) == Published(k) # {} \/ pipelines[k] # None
WarmIsComplete ==
  [][~pipe_quit /\ "flush" \notin {ppc, rpc} /\ "flush" \in {ppc', rpc'}
       => \A d \in prewarm_log : Replayable(d) => Landed(KeyOf(d))]_vars

\* No worker sleeps on work: while requests are queued, some worker is awake or
\* building, so no notification is lost.
NoLostWakeup ==
  pipe_queue # <<>> => \E w \in Workers : wpc[w] # "asleep"

\* What is queued is built, live requests first.
QueueIsServed == QueueShape /\ NoLostWakeup

\* "this run's re-save is a superset": across kills, restarts, writes that fail and saves
\* that race, a save drops no record of the file, but for two gaps of the code: the first
\* save of a run that ignored the file replaces it, and a save whose last flush is lost
\* leaves a file that does not parse.
Unreadable == mode.fails /\ manifest' = {}
SavesKeepRecords == [][manifest \subseteq manifest' \/ unread \/ Unreadable]_vars

\* Clean shutdown persists the run's records when no detached writer is left
\* behind, whichever save lost the single-flight race before (runs whose reads or
\* writes may fail are outside this property).
RecordsSurviveShutdown ==
  spc = "saved" /\ ~writing /\ ~mode.fails => prewarm_log \subseteq manifest

\* The comment of SavePrewarmManifest promises the same with a writer in
\* flight: "sync callers WAIT OUT an in-flight async writer".
ShutdownWaitsForWriter ==
  spc = "saved" /\ ~mode.fails => prewarm_log \subseteq manifest

\* Every request is eventually adopted by the present thread, unless the
\* program is being closed.
RequestLands ==
  \A d \in Draws : KeyOf(d) \in pipe_inflight
                      ~> (KeyOf(d) \notin pipe_inflight \/ ~running \/ ~up)

\* Shutdown returns: no worker sleeps through pipe_quit, and the present thread
\* leaves even a warm pass.
ShutdownReturns == spc = "join" ~> (spc \in {"saved", "off"} \/ ~up)

\* The PREWARM_ONLY pass, whose wait has no time limit, ends.
WarmPassEnds == rpc = "idle" ~> (rpc \notin {"idle", "idleAsleep"} \/ ~running)

\* Neither the pass that warms up nor the one that shuts down waits for ever.
WaitsEnd == WarmPassEnds /\ ShutdownReturns
=============================================================================
