----------------------- MODULE PipelineBuilderProofs -----------------------
(***************************************************************************)
(* Proofs about PipelineBuilder for any workers, draws, record capacity    *)
(* and mode.  The inductive invariant IInv has four parts beyond the       *)
(* types: the queue as an arithmetic fact (ShapeInv), sleeping workers     *)
(* (NoLostWakeup), what the saves in flight hold with respect to the file  *)
(* and the log (ManifestInv), and where an unsaved record is (RecordInv).  *)
(***************************************************************************)
EXTENDS PipelineBuilder, FiniteSetTheorems, SequenceTheorems,
        WellFoundedInduction, TLAPS

\* The prewarm_queued last requests of the queue are the pre-warm ones.
ShapeInv ==
  /\ prewarm_queued <= Len(pipe_queue)
  /\ \A i \in 1 .. Len(pipe_queue) :
       pipe_queue[i].prewarm <=> i > Len(pipe_queue) - prewarm_queued

\* Before the manifest is loaded nothing is recorded and nothing saved.
Untouched ==
  /\ prewarm_log = {} /\ ~prewarm_dirty /\ ~writing /\ rpc = "off" /\ todo = {}
  /\ ppc \in {"start", "stopped"} /\ spc \notin {"claim", "write"}

Between(recs) == /\ unread \/ manifest \subseteq recs
                 /\ recs \subseteq prewarm_log
                 /\ (writing => writer \subseteq recs)

\* Every snapshot on its way to the file lies between the file, unless this run
\* ignored it, and the log, and at most one save is in flight.
ManifestInv ==
  /\ unread => mode.fails
  /\ ppc = "start" => Untouched
  /\ Untouched \/ unread \/ manifest \subseteq prewarm_log
  /\ writing => (unread \/ manifest \subseteq writer) /\ writer \subseteq prewarm_log
  /\ ppc = "handoff" => Between(snap)
  /\ spc \in {"claim", "write"} => Between(ssnap)
  /\ saving <=> writing \/ spc = "write"
  /\ spc = "write" => ~writing
  /\ spc \notin {"off", "join"} => ppc = "stopped"

\* A record that the file lacks is marked dirty or travels in a save; the replay
\* adds no record to the log.
RecordInv ==
  /\ todo \subseteq prewarm_log
  /\ rpc = "request" => rec \in prewarm_log
  /\ spc \in {"claim", "write", "saved"} => ~prewarm_dirty
  /\ ~mode.fails =>
       \/ prewarm_dirty \/ prewarm_log \subseteq manifest
       \/ writing /\ prewarm_log \subseteq writer
       \/ ppc = "handoff" /\ prewarm_log \subseteq snap
       \/ ppc = "restore"
       \/ spc \in {"claim", "write"} /\ prewarm_log \subseteq ssnap

IInv == TypeOK /\ ShapeInv /\ NoLostWakeup /\ ManifestInv /\ RecordInv

-----------------------------------------------------------------------------
\* Keys and requests of the draws are of their types.
LEMMA KeyType == \A d \in Draws : /\ KeyOf(d) \in Keys
                                /\ \A p \in BOOLEAN : Request(d, p) \in Requests
<1> SUFFICES ASSUME NEW d \in Draws
             PROVE /\ KeyOf(d) \in Keys
                   /\ \A p \in BOOLEAN : Request(d, p) \in Requests
  OBVIOUS
<1>1. d.big \in BOOLEAN
  BY PipelineBuilderAssumption
<1> QED
  BY <1>1 DEF KeyOf, Keys, Requests, Request

\* A request's key is a key.
LEMMA RequestKey == \A r \in Requests : KeyOf(r) \in Keys /\ r.prewarm \in BOOLEAN
  BY DEF KeyOf, Keys, Requests

\* A non-empty set of naturals has a least element.
LEMMA LeastNat ==
  ASSUME NEW S, S \subseteq Nat, S # {}
  PROVE  \E i \in S : \A j \in S : i <= j
<1>1. \E x \in S : \A y \in S : ~ (<<y, x>> \in OpToRel(<, Nat))
  BY NatLessThanWellFounded, WFMin
<1>2. PICK x \in S : \A y \in S : ~ (<<y, x>> \in OpToRel(<, Nat))
  BY <1>1
<1>3. ASSUME NEW y \in S PROVE x <= y
  <2>1. x \in Nat /\ y \in Nat
    OBVIOUS
  <2>2. ~ (y < x)
    BY <1>2, <1>3, <2>1 DEF OpToRel
  <2> QED
    BY <2>1, <2>2
<1> QED
  BY <1>3

\* What was published is a key with a handle or null.
LEMMA DoneEntry == PoolTypeOK => \A i \in DOMAIN pipe_done : pipe_done[i] \in [key : Keys, pipe : Nat]
<1> SUFFICES ASSUME PoolTypeOK, NEW i \in DOMAIN pipe_done
             PROVE  pipe_done[i] \in [key : Keys, pipe : Nat]
  OBVIOUS
<1> DEFINE T == [key : Keys, pipe : Nat]
<1>1. pipe_done \in Seq(T)
  BY DEF PoolTypeOK
<1> HIDE DEF T
<1>2. i \in 1 .. Len(pipe_done)
  BY <1>1
<1>3. pipe_done[i] \in T
  BY <1>1, <1>2, ElementOfSeq
<1> QED
  BY <1>3 DEF T

\* What the drain adopts for a key is a pipeline.
LEMMA AdoptedType == PoolTypeOK => \A k \in Keys : Adopted(k) \in Pipe
<1> SUFFICES ASSUME PoolTypeOK, NEW k \in Keys PROVE Adopted(k) \in Pipe
  OBVIOUS
<1>1. pipelines[k] \in Pipe
  BY DEF PoolTypeOK
<1>2. CASE Built(k) = {}
  BY <1>1, <1>2 DEF Adopted, Null, Pipe
<1>3. CASE Built(k) # {}
  <2>1. Built(k) \subseteq DOMAIN pipe_done /\ DOMAIN pipe_done \subseteq Nat
    BY DEF Built, Published, PoolTypeOK
  <2> DEFINE first == CHOOSE i \in Built(k) : \A j \in Built(k) : i <= j
  <2>2. first \in DOMAIN pipe_done
    BY <2>1, <1>3, LeastNat
  <2> HIDE DEF first
  <2>3. pipe_done[first].pipe \in Nat
    BY <2>2, DoneEntry
  <2> QED
    BY <1>1, <1>3, <2>3 DEF Adopted, Pipe, first
<1> QED
  BY <1>2, <1>3

\* What a request leaves behind in the pool, and that it disturbs no builder.
LEMMA EnqueueType ==
  ASSUME PoolTypeOK, NEW d \in Draws, NEW p \in BOOLEAN, Enqueue(d, p)
  PROVE  /\ pipe_inflight' \subseteq Keys /\ pipe_queue' \in Seq(Requests)
         /\ prewarm_queued' \in Nat
         /\ wpc' \in [Workers -> {"awake", "asleep", "build", "finish", "exited"}]
         /\ \A w \in Workers : wpc'[w] = "build" <=> wpc[w] = "build"
<1>1. CASE KeyOf(d) \in pipe_inflight
  BY <1>1 DEF Enqueue, PoolTypeOK, poolVars
<1>2. CASE KeyOf(d) \notin pipe_inflight
  <2>1. KeyOf(d) \in Keys /\ Request(d, p) \in Requests
    BY KeyType
  <2>2. pipe_inflight' \subseteq Keys
    BY <1>2, <2>1 DEF Enqueue, PoolTypeOK
  <2>3. pipe_queue' \in Seq(Requests)
    <3>1. pipe_queue' = Placed(Request(d, p))
      BY <1>2 DEF Enqueue
    <3>2. pipe_queue \in Seq(Requests)
      BY DEF PoolTypeOK
    <3>3. /\ Append(pipe_queue, Request(d, p)) \in Seq(Requests)
          /\ <<Request(d, p)>> \o pipe_queue \in Seq(Requests)
      BY <2>1, <3>2
    <3> QED
      BY <3>1, <3>3 DEF Placed
  <2>4. prewarm_queued' \in Nat
    BY <1>2 DEF Enqueue, PoolTypeOK
  <2>5. /\ wpc' \in [Workers -> {"awake", "asleep", "build", "finish", "exited"}]
        /\ \A w \in Workers : wpc'[w] = "build" <=> wpc[w] = "build"
    BY <1>2 DEF Enqueue, PoolTypeOK, NotifyOne
  <2> QED
    BY <2>2, <2>3, <2>4, <2>5
<1> QED
  BY <1>1, <1>2

\* A live request enters in front of the pre-warm ones, a pre-warm request last.
LEMMA EnqueueShape ==
  ASSUME PoolTypeOK, ShapeInv, NEW d \in Draws, NEW p \in BOOLEAN, Enqueue(d, p)
  PROVE  ShapeInv'
<1>1. CASE KeyOf(d) \in pipe_inflight
  BY <1>1 DEF Enqueue, ShapeInv, poolVars
<1>2. CASE KeyOf(d) \notin pipe_inflight
  <2> DEFINE rq == Request(d, p)
  <2>1. rq \in Requests /\ rq.prewarm = p
    BY KeyType DEF Request
  <2>2. /\ pipe_queue' = Placed(rq)
        /\ prewarm_queued' = prewarm_queued + (IF p THEN 1 ELSE 0)
    BY <1>2 DEF Enqueue
  <2>3. pipe_queue \in Seq(Requests) /\ prewarm_queued \in Nat
    BY DEF PoolTypeOK
  <2> HIDE DEF rq
  <2>4. CASE p \/ prewarm_queued = 0
    <3>1. pipe_queue' = Append(pipe_queue, rq)
      BY <2>1, <2>2, <2>4 DEF Placed
    <3> QED
      BY <2>1, <2>2, <2>3, <2>4, <3>1 DEF ShapeInv
  <2>5. CASE ~p /\ prewarm_queued # 0
    <3>1. pipe_queue' = <<rq>> \o pipe_queue
      BY <2>1, <2>2, <2>5 DEF Placed
    <3>2. /\ Len(pipe_queue') = Len(pipe_queue) + 1
          /\ pipe_queue'[1] = rq
          /\ \A i \in 2 .. Len(pipe_queue') : pipe_queue'[i] = pipe_queue[i - 1]
      BY <2>1, <2>3, <3>1
    <3>3. prewarm_queued' = prewarm_queued /\ Len(pipe_queue) \in Nat
      BY <2>2, <2>3, <2>5
    <3>4. prewarm_queued' <= Len(pipe_queue') /\ Len(pipe_queue') - prewarm_queued' >= 1
      BY <2>3, <3>2, <3>3 DEF ShapeInv
    <3>5. ASSUME NEW i \in 1 .. Len(pipe_queue')
          PROVE  pipe_queue'[i].prewarm <=> i > Len(pipe_queue') - prewarm_queued'
      <4>1. CASE i = 1
        <5>1. ~pipe_queue'[i].prewarm
          BY <2>1, <2>5, <3>2, <4>1
        <5>2. ~(i > Len(pipe_queue') - prewarm_queued')
          BY <2>3, <3>2, <3>3, <3>4, <4>1
        <5> QED
          BY <5>1, <5>2
      <4>2. CASE i # 1
        <5>1. i - 1 \in 1 .. Len(pipe_queue) /\ pipe_queue'[i] = pipe_queue[i - 1]
          BY <3>2, <3>3, <4>2
        <5> QED
          BY <2>3, <3>2, <3>3, <5>1 DEF ShapeInv
      <4> QED
        BY <4>1, <4>2
    <3> QED
      BY <3>4, <3>5 DEF ShapeInv
  <2> QED
    BY <2>4, <2>5
<1> QED
  BY <1>1, <1>2

\* The pool's variables keep their types.
LEMMA PoolTypeStep == TypeOK /\ [Next]_vars => PoolTypeOK'
<1> SUFFICES ASSUME TypeOK, [Next]_vars PROVE PoolTypeOK'
  OBVIOUS
<1> USE PipelineBuilderAssumption DEF IInv, TypeOK, poolVars, logVars, pipeVars, restVars, replayVars, saveVars, fileVars, procVars, bootVars, PoolTypeOK, Pipe, Handles, Null
<1>1. ASSUME NEW w \in Workers, WorkerTake(w) PROVE PoolTypeOK'
  BY <1>1 DEF WorkerTake, Taken
<1>2. ASSUME NEW w \in Workers, WorkerSleep(w) PROVE PoolTypeOK'
  BY <1>2 DEF WorkerSleep
<1>3. ASSUME NEW w \in Workers, WorkerExit(w) PROVE PoolTypeOK'
  BY <1>3 DEF WorkerExit
<1>4. ASSUME NEW w \in Workers, WorkerBuild(w) PROVE PoolTypeOK'
  <2>1. wreq[w] \in Requests
    BY <1>4 DEF WorkerBuild
  <2>2. KeyOf(wreq[w]) \in Keys
    BY <2>1, RequestKey
  <2> QED
    BY <1>4, <2>2 DEF WorkerBuild
<1>5. ASSUME NEW w \in Workers, WorkerFinish(w) PROVE PoolTypeOK'
  BY <1>5 DEF WorkerFinish, IdleNotified, Idle
<1>6. CASE ReplayNext
  BY <1>6 DEF ReplayNext
<1>7. CASE ReplayRequest
  <2>1. CASE Replayable(rec)
    <3>1. rec \in Draws
      BY <1>7 DEF ReplayRequest, RecordTypeOK
    <3>2. Enqueue(rec, TRUE)
      BY <1>7, <2>1 DEF ReplayRequest
    <3>3. PoolTypeOK
      OBVIOUS
    <3> HIDE DEF PoolTypeOK
    <3>4. /\ pipe_inflight' \subseteq Keys /\ pipe_queue' \in Seq(Requests)
          /\ prewarm_queued' \in Nat
          /\ wpc' \in [Workers -> {"awake", "asleep", "build", "finish", "exited"}]
          /\ \A w \in Workers : wpc'[w] = "build" <=> wpc[w] = "build"
      BY <3>1, <3>2, <3>3, EnqueueType
    <3> QED
      BY <1>7, <3>3, <3>4 DEF ReplayRequest, PoolTypeOK
  <2>2. CASE ~Replayable(rec)
    BY <1>7, <2>2 DEF ReplayRequest
  <2> QED
    BY <2>1, <2>2
<1>8. CASE ReplayFinish
  BY <1>8 DEF ReplayFinish
<1>9. CASE ReplayWait
  BY <1>9 DEF ReplayWait
<1>10. CASE ReplayExit
  BY <1>10 DEF ReplayExit
<1>11. CASE StartPrewarm
  BY <1>11 DEF StartPrewarm, IgnoreManifest, LoadManifest, Seeded
<1>12. CASE WarmWait
  BY <1>12 DEF WarmWait
<1>13. CASE WarmTimeout
  BY <1>13 DEF WarmTimeout
<1>14. CASE WarmFlush
  BY <1>14 DEF WarmFlush
<1>15. CASE Adopt
  <2>1. \A k \in Keys : Adopted(k) \in Pipe
    BY AdoptedType
  <2>2. pipelines' \in [Keys -> Pipe]
    BY <1>15, <2>1 DEF Adopt
  <2>3. destroyed' \subseteq [key : Keys, pipe : Handles]
    <3>1. \A i \in DOMAIN pipe_done : Redundant(pipe_done[i])
             => pipe_done[i] \in [key : Keys, pipe : Handles]
      <4> SUFFICES ASSUME NEW i \in DOMAIN pipe_done, Redundant(pipe_done[i])
                   PROVE  pipe_done[i] \in [key : Keys, pipe : Handles]
        OBVIOUS
      <4>1. pipe_done[i] \in [key : Keys, pipe : Nat]
        BY DoneEntry
      <4>2. pipe_done[i].pipe # 0
        BY DEF Redundant
      <4> QED
        BY <4>1, <4>2
    <3>2. destroyed' = destroyed \cup {pipe_done[i] :
                          i \in {j \in DOMAIN pipe_done : Redundant(pipe_done[j])}}
      BY <1>15 DEF Adopt
    <3> QED
      BY <3>1, <3>2
  <2>4. pipe_inflight' \subseteq Keys
    BY <1>15 DEF Adopt
  <2>5. pipe_done' \in Seq([key : Keys, pipe : Nat])
    BY <1>15 DEF Adopt
  <2> QED
    BY <1>15, <2>2, <2>3, <2>4, <2>5 DEF Adopt
<1>16. ASSUME NEW d \in Draws, Draw(d) PROVE PoolTypeOK'
  <2>1. KeyOf(d) \in Keys
    BY KeyType
  <2>2. CASE DrawBlacklisted(d)
    BY <1>16, <2>1, <2>2 DEF Draw, DrawBlacklisted
  <2>3. CASE DrawInline(d)
    BY <1>16, <2>1, <2>3 DEF Draw, DrawInline
  <2>4. CASE DrawRequest(d)
    <3>1. Enqueue(d, FALSE)
      BY <2>4 DEF DrawRequest
    <3>2. PoolTypeOK
      OBVIOUS
    <3> HIDE DEF PoolTypeOK
    <3>3. /\ pipe_inflight' \subseteq Keys /\ pipe_queue' \in Seq(Requests)
          /\ prewarm_queued' \in Nat
          /\ wpc' \in [Workers -> {"awake", "asleep", "build", "finish", "exited"}]
          /\ \A w \in Workers : wpc'[w] = "build" <=> wpc[w] = "build"
      BY <3>1, <3>2, EnqueueType
    <3> QED
      BY <1>16, <2>1, <2>4, <3>2, <3>3 DEF Draw, DrawRequest, PoolTypeOK
  <2> QED
    BY <1>16, <2>2, <2>3, <2>4 DEF Draw
<1>17. CASE EndFrame(LoopHead)
  BY <1>17 DEF EndFrame, LoopHead
<1>18. CASE EndFrame("save")
  BY <1>18 DEF EndFrame
<1>19. CASE StopEarly
  BY <1>19 DEF StopEarly
<1>20. CASE SaveSnapshot
  BY <1>20 DEF SaveSnapshot, LoopHead
<1>21. CASE SaveHandoff
  BY <1>21 DEF SaveHandoff, LoopHead
<1>22. CASE SaveRestore
  BY <1>22 DEF SaveRestore, LoopHead, Restored
<1>23. CASE WriterDone
  BY <1>23 DEF WriterDone, Written, fileVars
<1>24. CASE ShutdownStop
  BY <1>24 DEF ShutdownStop
<1>25. CASE ShutdownQuit
  BY <1>25 DEF ShutdownQuit, Woken
<1>26. CASE ShutdownSave
  BY <1>26 DEF ShutdownSave
<1>27. CASE ShutdownClaim
  BY <1>27 DEF ShutdownClaim
<1>28. CASE ShutdownWrite
  BY <1>28 DEF ShutdownWrite, Written, fileVars
<1>29. CASE ShutdownExit
  BY <1>29 DEF ShutdownExit
<1>30. CASE Boot
  BY <1>30 DEF Boot
<1>31. CASE UNCHANGED vars
  BY <1>31 DEF vars
<1> QED
  BY <1>1, <1>2, <1>3, <1>4, <1>5, <1>6, <1>7, <1>8, <1>9, <1>10, <1>11, <1>12, <1>13, <1>14,
     <1>15, <1>16, <1>17, <1>18, <1>19, <1>20, <1>21, <1>22, <1>23, <1>24, <1>25, <1>26, <1>27,
     <1>28, <1>29, <1>30, <1>31 DEF Next, WorkerStep, ReplayStep, PresentStep,
     FrameStep, ShutdownStep, Terminated

\* Snapshots, log and manifest hold draws.
LEMMA RecordTypeStep == TypeOK /\ [Next]_vars => RecordTypeOK'
<1> SUFFICES ASSUME TypeOK, [Next]_vars PROVE RecordTypeOK'
  OBVIOUS
<1> USE PipelineBuilderAssumption DEF IInv, TypeOK, poolVars, logVars, pipeVars, restVars, replayVars, saveVars, fileVars, procVars, bootVars, RecordTypeOK, ThreadTypeOK, PointTypeOK, FlagTypeOK
<1>1. ASSUME NEW w \in Workers, WorkerTake(w) PROVE RecordTypeOK'
  BY <1>1 DEF WorkerTake, Taken
<1>2. ASSUME NEW w \in Workers, WorkerSleep(w) PROVE RecordTypeOK'
  BY <1>2 DEF WorkerSleep
<1>3. ASSUME NEW w \in Workers, WorkerExit(w) PROVE RecordTypeOK'
  BY <1>3 DEF WorkerExit
<1>4. ASSUME NEW w \in Workers, WorkerBuild(w) PROVE RecordTypeOK'
  BY <1>4 DEF WorkerBuild
<1>5. ASSUME NEW w \in Workers, WorkerFinish(w) PROVE RecordTypeOK'
  BY <1>5 DEF WorkerFinish, IdleNotified, Idle
<1>6. CASE ReplayNext
  BY <1>6 DEF ReplayNext
<1>7. CASE ReplayRequest
  BY <1>7 DEF ReplayRequest, Enqueue, Record, NotifyOne, Placed, Request
<1>8. CASE ReplayFinish
  BY <1>8 DEF ReplayFinish
<1>9. CASE ReplayWait
  BY <1>9 DEF ReplayWait
<1>10. CASE ReplayExit
  BY <1>10 DEF ReplayExit
<1>11. CASE StartPrewarm
  BY <1>11 DEF StartPrewarm, IgnoreManifest, LoadManifest, Seeded
<1>12. CASE WarmWait
  BY <1>12 DEF WarmWait
<1>13. CASE WarmTimeout
  BY <1>13 DEF WarmTimeout
<1>14. CASE WarmFlush
  BY <1>14 DEF WarmFlush
<1>15. CASE Adopt
  BY <1>15 DEF Adopt
<1>16. ASSUME NEW d \in Draws, Draw(d) PROVE RecordTypeOK'
  <2>1. UNCHANGED <<rpc, todo, rec, saveVars>>
    BY <1>16 DEF Draw
  <2>2. UNCHANGED logVars \/ Record(d)
    BY <1>16 DEF Draw, DrawBlacklisted, DrawInline, DrawRequest, Enqueue
  <2>3. prewarm_log' \subseteq Draws /\ prewarm_dirty' \in BOOLEAN
    BY <2>2 DEF Record
  <2> QED
    BY <2>1, <2>3
<1>17. CASE EndFrame(LoopHead)
  BY <1>17 DEF EndFrame, LoopHead
<1>18. CASE EndFrame("save")
  BY <1>18 DEF EndFrame
<1>19. CASE StopEarly
  BY <1>19 DEF StopEarly
<1>20. CASE SaveSnapshot
  BY <1>20 DEF SaveSnapshot, LoopHead
<1>21. CASE SaveHandoff
  BY <1>21 DEF SaveHandoff, LoopHead
<1>22. CASE SaveRestore
  BY <1>22 DEF SaveRestore, LoopHead, Restored
<1>23. CASE WriterDone
  BY <1>23 DEF WriterDone, Written, fileVars
<1>24. CASE ShutdownStop
  BY <1>24 DEF ShutdownStop
<1>25. CASE ShutdownQuit
  BY <1>25 DEF ShutdownQuit, Woken
<1>26. CASE ShutdownSave
  BY <1>26 DEF ShutdownSave
<1>27. CASE ShutdownClaim
  BY <1>27 DEF ShutdownClaim
<1>28. CASE ShutdownWrite
  BY <1>28 DEF ShutdownWrite, Written, fileVars
<1>29. CASE ShutdownExit
  BY <1>29 DEF ShutdownExit
<1>30. CASE Boot
  BY <1>30 DEF Boot
<1>31. CASE UNCHANGED vars
  BY <1>31 DEF vars
<1> QED
  BY <1>1, <1>2, <1>3, <1>4, <1>5, <1>6, <1>7, <1>8, <1>9, <1>10, <1>11, <1>12, <1>13, <1>14,
     <1>15, <1>16, <1>17, <1>18, <1>19, <1>20, <1>21, <1>22, <1>23, <1>24, <1>25, <1>26, <1>27,
     <1>28, <1>29, <1>30, <1>31 DEF Next, WorkerStep, ReplayStep, PresentStep,
     FrameStep, ShutdownStep, Terminated

\* Every thread stays in its code.
LEMMA ThreadTypeStep == TypeOK /\ [Next]_vars => ThreadTypeOK'
<1> SUFFICES ASSUME TypeOK, [Next]_vars PROVE ThreadTypeOK'
  OBVIOUS
<1> USE PipelineBuilderAssumption DEF IInv, TypeOK, poolVars, logVars, pipeVars, restVars, replayVars, saveVars, fileVars, procVars, bootVars, ThreadTypeOK, PointTypeOK, FlagTypeOK
<1>1. ASSUME NEW w \in Workers, WorkerTake(w) PROVE ThreadTypeOK'
  BY <1>1 DEF WorkerTake, Taken
<1>2. ASSUME NEW w \in Workers, WorkerSleep(w) PROVE ThreadTypeOK'
  BY <1>2 DEF WorkerSleep
<1>3. ASSUME NEW w \in Workers, WorkerExit(w) PROVE ThreadTypeOK'
  BY <1>3 DEF WorkerExit
<1>4. ASSUME NEW w \in Workers, WorkerBuild(w) PROVE ThreadTypeOK'
  BY <1>4 DEF WorkerBuild
<1>5. ASSUME NEW w \in Workers, WorkerFinish(w) PROVE ThreadTypeOK'
  BY <1>5 DEF WorkerFinish, IdleNotified, Idle
<1>6. CASE ReplayNext
  BY <1>6 DEF ReplayNext
<1>7. CASE ReplayRequest
  BY <1>7 DEF ReplayRequest, Enqueue, Record, NotifyOne, Placed, Request
<1>8. CASE ReplayFinish
  BY <1>8 DEF ReplayFinish
<1>9. CASE ReplayWait
  BY <1>9 DEF ReplayWait
<1>10. CASE ReplayExit
  BY <1>10 DEF ReplayExit
<1>11. CASE StartPrewarm
  BY <1>11 DEF StartPrewarm, IgnoreManifest, LoadManifest, Seeded
<1>12. CASE WarmWait
  BY <1>12 DEF WarmWait
<1>13. CASE WarmTimeout
  BY <1>13 DEF WarmTimeout
<1>14. CASE WarmFlush
  BY <1>14 DEF WarmFlush
<1>15. CASE Adopt
  BY <1>15 DEF Adopt
<1>16. ASSUME NEW d \in Draws, Draw(d) PROVE ThreadTypeOK'
  BY <1>16 DEF Draw, DrawBlacklisted, DrawInline, DrawRequest, Enqueue, Record, NotifyOne, Placed, Request
<1>17. CASE EndFrame(LoopHead)
  BY <1>17 DEF EndFrame, LoopHead
<1>18. CASE EndFrame("save")
  BY <1>18 DEF EndFrame
<1>19. CASE StopEarly
  BY <1>19 DEF StopEarly
<1>20. CASE SaveSnapshot
  BY <1>20 DEF SaveSnapshot, LoopHead
<1>21. CASE SaveHandoff
  BY <1>21 DEF SaveHandoff, LoopHead
<1>22. CASE SaveRestore
  BY <1>22 DEF SaveRestore, LoopHead, Restored
<1>23. CASE WriterDone
  <2>1. UNCHANGED <<rpc, ppc, spc, pipe_quit, enqueue_done, running, up, bootVars>>
    BY <1>23 DEF WriterDone
  <2>2. saving' = FALSE /\ writing' = FALSE /\ unread' \in BOOLEAN
    BY <1>23 DEF WriterDone, Written, fileVars
  <2> QED
    <3> HIDE DEF IInv
    <3>1. PointTypeOK'
      BY <2>1
    <3>2. FlagTypeOK'
      BY <2>1, <2>2
    <3> QED
      BY <3>1, <3>2
<1>24. CASE ShutdownStop
  BY <1>24 DEF ShutdownStop
<1>25. CASE ShutdownQuit
  BY <1>25 DEF ShutdownQuit, Woken
<1>26. CASE ShutdownSave
  BY <1>26 DEF ShutdownSave
<1>27. CASE ShutdownClaim
  BY <1>27 DEF ShutdownClaim
<1>28. CASE ShutdownWrite
  BY <1>28 DEF ShutdownWrite, Written, fileVars
<1>29. CASE ShutdownExit
  <2>1. UNCHANGED <<rpc, ppc, spc, pipe_quit, enqueue_done, running, saving, writing, bootVars>>
    BY <1>29 DEF ShutdownExit
  <2>2. up' = FALSE /\ UNCHANGED unread
    BY <1>29 DEF ShutdownExit
  <2> QED
    <3> HIDE DEF IInv
    <3>1. PointTypeOK'
      BY <2>1
    <3>2. FlagTypeOK'
      BY <2>1, <2>2
    <3> QED
      BY <3>1, <3>2
<1>30. CASE Boot
  <2>1. boots' \in Nat /\ mode' \in Modes
    BY <1>30 DEF Boot
  <2>2. /\ rpc' = "off" /\ ppc' = "start" /\ spc' = "off"
        /\ pipe_quit' = FALSE /\ enqueue_done' = FALSE /\ running' = TRUE
        /\ saving' = FALSE /\ writing' = FALSE /\ unread' = FALSE /\ up' = TRUE
    BY <1>30 DEF Boot
  <2> QED
    BY <2>1, <2>2
<1>31. CASE UNCHANGED vars
  BY <1>31 DEF vars
<1> QED
  BY <1>1, <1>2, <1>3, <1>4, <1>5, <1>6, <1>7, <1>8, <1>9, <1>10, <1>11, <1>12, <1>13, <1>14,
     <1>15, <1>16, <1>17, <1>18, <1>19, <1>20, <1>21, <1>22, <1>23, <1>24, <1>25, <1>26, <1>27,
     <1>28, <1>29, <1>30, <1>31 DEF Next, WorkerStep, ReplayStep, PresentStep,
     FrameStep, ShutdownStep, Terminated

\* Requests enter and leave the queue at the ends that keep its shape.
LEMMA ShapeStep == IInv /\ [Next]_vars => ShapeInv'
<1> SUFFICES ASSUME IInv, [Next]_vars PROVE ShapeInv'
  OBVIOUS
<1> USE PipelineBuilderAssumption DEF IInv, TypeOK, poolVars, logVars, pipeVars, restVars, replayVars, saveVars, fileVars, procVars, bootVars, PoolTypeOK, ShapeInv
<1>1. ASSUME NEW w \in Workers, WorkerTake(w) PROVE ShapeInv'
  <2>1. /\ Len(Tail(pipe_queue)) = Len(pipe_queue) - 1
        /\ \A i \in 1 .. Len(pipe_queue) - 1 : Tail(pipe_queue)[i] = pipe_queue[i + 1]
        /\ Head(pipe_queue) = pipe_queue[1] /\ Len(pipe_queue) \in Nat \ {0}
    BY <1>1 DEF WorkerTake
  <2>2. pipe_queue' = Tail(pipe_queue) /\ prewarm_queued' = Taken(pipe_queue[1])
    BY <1>1, <2>1 DEF WorkerTake
  <2>3. CASE pipe_queue[1].prewarm
    <3>b. 1 > Len(pipe_queue) - prewarm_queued
      BY <2>1, <2>3
    <3>1. prewarm_queued = Len(pipe_queue)
      <4> DEFINE n == Len(pipe_queue)
      <4>1. n \in Nat /\ prewarm_queued \in Nat /\ prewarm_queued <= n /\ 1 > n - prewarm_queued
        BY <2>1, <3>b
      <4> HIDE PipelineBuilderAssumption DEF IInv, n
      <4>2. n = prewarm_queued
        BY <4>1
      <4> QED
        BY <4>2 DEF n
    <3>a. prewarm_queued > 0
      BY <2>1, <3>1
    <3>2. prewarm_queued' = prewarm_queued - 1
      BY <2>2, <2>3, <3>a DEF Taken
    <3> QED
      BY <2>1, <2>2, <3>1, <3>2
  <2>4. CASE ~pipe_queue[1].prewarm
    <3>1. prewarm_queued' = prewarm_queued
      BY <2>2, <2>4 DEF Taken
    <3>2. prewarm_queued <= Len(pipe_queue) - 1
      BY <2>1, <2>4
    <3> QED
      BY <2>1, <2>2, <3>1, <3>2
  <2> QED
    BY <2>3, <2>4
<1>2. ASSUME NEW w \in Workers, WorkerSleep(w) PROVE ShapeInv'
  BY <1>2 DEF WorkerSleep
<1>3. ASSUME NEW w \in Workers, WorkerExit(w) PROVE ShapeInv'
  BY <1>3 DEF WorkerExit
<1>4. ASSUME NEW w \in Workers, WorkerBuild(w) PROVE ShapeInv'
  BY <1>4 DEF WorkerBuild
<1>5. ASSUME NEW w \in Workers, WorkerFinish(w) PROVE ShapeInv'
  BY <1>5 DEF WorkerFinish, IdleNotified, Idle
<1>6. CASE ReplayNext
  BY <1>6 DEF ReplayNext
<1>7. CASE ReplayRequest
  <2>1. CASE Replayable(rec)
    <3>1. rec \in Draws /\ Enqueue(rec, TRUE)
      BY <1>7, <2>1 DEF ReplayRequest, RecordTypeOK
    <3> QED
      BY <3>1, EnqueueShape
  <2>2. CASE ~Replayable(rec)
    BY <1>7, <2>2 DEF ReplayRequest
  <2> QED
    BY <2>1, <2>2
<1>8. CASE ReplayFinish
  BY <1>8 DEF ReplayFinish
<1>9. CASE ReplayWait
  BY <1>9 DEF ReplayWait
<1>10. CASE ReplayExit
  BY <1>10 DEF ReplayExit
<1>11. CASE StartPrewarm
  BY <1>11 DEF StartPrewarm, IgnoreManifest, LoadManifest, Seeded
<1>12. CASE WarmWait
  BY <1>12 DEF WarmWait
<1>13. CASE WarmTimeout
  BY <1>13 DEF WarmTimeout
<1>14. CASE WarmFlush
  BY <1>14 DEF WarmFlush
<1>15. CASE Adopt
  BY <1>15 DEF Adopt
<1>16. ASSUME NEW d \in Draws, Draw(d) PROVE ShapeInv'
  <2>1. CASE DrawRequest(d)
    <3>1. Enqueue(d, FALSE)
      BY <2>1 DEF DrawRequest
    <3> QED
      BY <3>1, EnqueueShape
  <2>2. CASE DrawBlacklisted(d) \/ DrawInline(d)
    BY <2>2 DEF DrawBlacklisted, DrawInline
  <2> QED
    BY <1>16, <2>1, <2>2 DEF Draw
<1>17. CASE EndFrame(LoopHead)
  BY <1>17 DEF EndFrame, LoopHead
<1>18. CASE EndFrame("save")
  BY <1>18 DEF EndFrame
<1>19. CASE StopEarly
  BY <1>19 DEF StopEarly
<1>20. CASE SaveSnapshot
  BY <1>20 DEF SaveSnapshot, LoopHead
<1>21. CASE SaveHandoff
  BY <1>21 DEF SaveHandoff, LoopHead
<1>22. CASE SaveRestore
  BY <1>22 DEF SaveRestore, LoopHead, Restored
<1>23. CASE WriterDone
  BY <1>23 DEF WriterDone, Written, fileVars
<1>24. CASE ShutdownStop
  BY <1>24 DEF ShutdownStop
<1>25. CASE ShutdownQuit
  BY <1>25 DEF ShutdownQuit, Woken
<1>26. CASE ShutdownSave
  BY <1>26 DEF ShutdownSave
<1>27. CASE ShutdownClaim
  BY <1>27 DEF ShutdownClaim
<1>28. CASE ShutdownWrite
  BY <1>28 DEF ShutdownWrite, Written, fileVars
<1>29. CASE ShutdownExit
  BY <1>29 DEF ShutdownExit
<1>30. CASE Boot
  BY <1>30 DEF Boot
<1>31. CASE UNCHANGED vars
  BY <1>31 DEF vars
<1> QED
  BY <1>1, <1>2, <1>3, <1>4, <1>5, <1>6, <1>7, <1>8, <1>9, <1>10, <1>11, <1>12, <1>13, <1>14,
     <1>15, <1>16, <1>17, <1>18, <1>19, <1>20, <1>21, <1>22, <1>23, <1>24, <1>25, <1>26, <1>27,
     <1>28, <1>29, <1>30, <1>31 DEF Next, WorkerStep, ReplayStep, PresentStep,
     FrameStep, ShutdownStep, Terminated

\* A worker sleeps only on an empty queue, and a request wakes one.
LEMMA WakeStep == IInv /\ [Next]_vars => NoLostWakeup'
<1> SUFFICES ASSUME IInv, [Next]_vars PROVE NoLostWakeup'
  OBVIOUS
<1> USE PipelineBuilderAssumption DEF IInv, TypeOK, poolVars, logVars, pipeVars, restVars, replayVars, saveVars, fileVars, procVars, bootVars, PoolTypeOK, NoLostWakeup
<1>1. ASSUME NEW w \in Workers, WorkerTake(w) PROVE NoLostWakeup'
  BY <1>1 DEF WorkerTake, Taken
<1>2. ASSUME NEW w \in Workers, WorkerSleep(w) PROVE NoLostWakeup'
  BY <1>2 DEF WorkerSleep
<1>3. ASSUME NEW w \in Workers, WorkerExit(w) PROVE NoLostWakeup'
  BY <1>3 DEF WorkerExit
<1>4. ASSUME NEW w \in Workers, WorkerBuild(w) PROVE NoLostWakeup'
  BY <1>4 DEF WorkerBuild
<1>5. ASSUME NEW w \in Workers, WorkerFinish(w) PROVE NoLostWakeup'
  BY <1>5 DEF WorkerFinish, IdleNotified, Idle
<1>6. CASE ReplayNext
  BY <1>6 DEF ReplayNext
<1>7. CASE ReplayRequest
  BY <1>7 DEF ReplayRequest, Enqueue, Record, NotifyOne, Placed, Request
<1>8. CASE ReplayFinish
  BY <1>8 DEF ReplayFinish
<1>9. CASE ReplayWait
  BY <1>9 DEF ReplayWait
<1>10. CASE ReplayExit
  BY <1>10 DEF ReplayExit
<1>11. CASE StartPrewarm
  BY <1>11 DEF StartPrewarm, IgnoreManifest, LoadManifest, Seeded
<1>12. CASE WarmWait
  BY <1>12 DEF WarmWait
<1>13. CASE WarmTimeout
  BY <1>13 DEF WarmTimeout
<1>14. CASE WarmFlush
  BY <1>14 DEF WarmFlush
<1>15. CASE Adopt
  BY <1>15 DEF Adopt
<1>16. ASSUME NEW d \in Draws, Draw(d) PROVE NoLostWakeup'
  BY <1>16 DEF Draw, DrawBlacklisted, DrawInline, DrawRequest, Enqueue, Record, NotifyOne, Placed, Request
<1>17. CASE EndFrame(LoopHead)
  BY <1>17 DEF EndFrame, LoopHead
<1>18. CASE EndFrame("save")
  BY <1>18 DEF EndFrame
<1>19. CASE StopEarly
  BY <1>19 DEF StopEarly
<1>20. CASE SaveSnapshot
  BY <1>20 DEF SaveSnapshot, LoopHead
<1>21. CASE SaveHandoff
  BY <1>21 DEF SaveHandoff, LoopHead
<1>22. CASE SaveRestore
  BY <1>22 DEF SaveRestore, LoopHead, Restored
<1>23. CASE WriterDone
  BY <1>23 DEF WriterDone, Written, fileVars
<1>24. CASE ShutdownStop
  BY <1>24 DEF ShutdownStop
<1>25. CASE ShutdownQuit
  BY <1>25 DEF ShutdownQuit, Woken
<1>26. CASE ShutdownSave
  BY <1>26 DEF ShutdownSave
<1>27. CASE ShutdownClaim
  BY <1>27 DEF ShutdownClaim
<1>28. CASE ShutdownWrite
  BY <1>28 DEF ShutdownWrite, Written, fileVars
<1>29. CASE ShutdownExit
  BY <1>29 DEF ShutdownExit
<1>30. CASE Boot
  BY <1>30 DEF Boot
<1>31. CASE UNCHANGED vars
  BY <1>31 DEF vars
<1> QED
  BY <1>1, <1>2, <1>3, <1>4, <1>5, <1>6, <1>7, <1>8, <1>9, <1>10, <1>11, <1>12, <1>13, <1>14,
     <1>15, <1>16, <1>17, <1>18, <1>19, <1>20, <1>21, <1>22, <1>23, <1>24, <1>25, <1>26, <1>27,
     <1>28, <1>29, <1>30, <1>31 DEF Next, WorkerStep, ReplayStep, PresentStep,
     FrameStep, ShutdownStep, Terminated

\* Saves are single-flight and each extends the one before.
LEMMA ManifestStep == IInv /\ [Next]_vars => ManifestInv'
<1> SUFFICES ASSUME IInv, [Next]_vars PROVE ManifestInv'
  OBVIOUS
<1> USE PipelineBuilderAssumption DEF IInv, TypeOK, poolVars, logVars, pipeVars, restVars, replayVars, saveVars, fileVars, procVars, bootVars, RecordTypeOK, ThreadTypeOK, ManifestInv, Untouched, Between, RecordInv, PointTypeOK, FlagTypeOK
<1>1. ASSUME NEW w \in Workers, WorkerTake(w) PROVE ManifestInv'
  BY <1>1 DEF WorkerTake, Taken
<1>2. ASSUME NEW w \in Workers, WorkerSleep(w) PROVE ManifestInv'
  BY <1>2 DEF WorkerSleep
<1>3. ASSUME NEW w \in Workers, WorkerExit(w) PROVE ManifestInv'
  BY <1>3 DEF WorkerExit
<1>4. ASSUME NEW w \in Workers, WorkerBuild(w) PROVE ManifestInv'
  BY <1>4 DEF WorkerBuild
<1>5. ASSUME NEW w \in Workers, WorkerFinish(w) PROVE ManifestInv'
  BY <1>5 DEF WorkerFinish, IdleNotified, Idle
<1>6. CASE ReplayNext
  BY <1>6 DEF ReplayNext
<1>7. CASE ReplayRequest
  BY <1>7 DEF ReplayRequest, Enqueue, Record, NotifyOne, Placed, Request
<1>8. CASE ReplayFinish
  BY <1>8 DEF ReplayFinish
<1>9. CASE ReplayWait
  BY <1>9 DEF ReplayWait
<1>10. CASE ReplayExit
  BY <1>10 DEF ReplayExit
<1>11. CASE StartPrewarm
  <2>1. Untouched /\ ppc = "start" /\ UNCHANGED mode
    BY <1>11 DEF StartPrewarm
  <2>2. CASE IgnoreManifest
    BY <1>11, <2>1, <2>2 DEF StartPrewarm, IgnoreManifest
  <2>3. CASE LoadManifest
    BY <1>11, <2>1, <2>3 DEF StartPrewarm, LoadManifest, Seeded
  <2> QED
    BY <1>11, <2>2, <2>3 DEF StartPrewarm
<1>12. CASE WarmWait
  BY <1>12 DEF WarmWait
<1>13. CASE WarmTimeout
  BY <1>13 DEF WarmTimeout
<1>14. CASE WarmFlush
  BY <1>14 DEF WarmFlush
<1>15. CASE Adopt
  BY <1>15 DEF Adopt
<1>16. ASSUME NEW d \in Draws, Draw(d) PROVE ManifestInv'
  BY <1>16 DEF Draw, DrawBlacklisted, DrawInline, DrawRequest, Enqueue, Record, NotifyOne, Placed, Request
<1>17. CASE EndFrame(LoopHead)
  BY <1>17 DEF EndFrame, LoopHead
<1>18. CASE EndFrame("save")
  BY <1>18 DEF EndFrame
<1>19. CASE StopEarly
  BY <1>19 DEF StopEarly
<1>20. CASE SaveSnapshot
  BY <1>20 DEF SaveSnapshot, LoopHead
<1>21. CASE SaveHandoff
  BY <1>21 DEF SaveHandoff, LoopHead
<1>22. CASE SaveRestore
  BY <1>22 DEF SaveRestore, LoopHead, Restored
<1>23. CASE WriterDone
  BY <1>23 DEF WriterDone, Written, fileVars
<1>24. CASE ShutdownStop
  BY <1>24 DEF ShutdownStop
<1>25. CASE ShutdownQuit
  BY <1>25 DEF ShutdownQuit, Woken
<1>26. CASE ShutdownSave
  BY <1>26 DEF ShutdownSave
<1>27. CASE ShutdownClaim
  BY <1>27 DEF ShutdownClaim
<1>28. CASE ShutdownWrite
  BY <1>28 DEF ShutdownWrite, Written, fileVars
<1>29. CASE ShutdownExit
  BY <1>29 DEF ShutdownExit
<1>30. CASE Boot
  BY <1>30 DEF Boot
<1>31. CASE UNCHANGED vars
  BY <1>31 DEF vars
<1> QED
  BY <1>1, <1>2, <1>3, <1>4, <1>5, <1>6, <1>7, <1>8, <1>9, <1>10, <1>11, <1>12, <1>13, <1>14,
     <1>15, <1>16, <1>17, <1>18, <1>19, <1>20, <1>21, <1>22, <1>23, <1>24, <1>25, <1>26, <1>27,
     <1>28, <1>29, <1>30, <1>31 DEF Next, WorkerStep, ReplayStep, PresentStep,
     FrameStep, ShutdownStep, Terminated

\* No save drops a record that is neither in the file nor in another save.
LEMMA RecordStep == IInv /\ [Next]_vars => RecordInv'
<1> SUFFICES ASSUME IInv, [Next]_vars PROVE RecordInv'
  OBVIOUS
<1> USE PipelineBuilderAssumption DEF IInv, TypeOK, poolVars, logVars, pipeVars, restVars, replayVars, saveVars, fileVars, procVars, bootVars, RecordTypeOK, ThreadTypeOK, ManifestInv, Untouched, Between, RecordInv, PointTypeOK, FlagTypeOK
<1>1. ASSUME NEW w \in Workers, WorkerTake(w) PROVE RecordInv'
  BY <1>1 DEF WorkerTake, Taken
<1>2. ASSUME NEW w \in Workers, WorkerSleep(w) PROVE RecordInv'
  BY <1>2 DEF WorkerSleep
<1>3. ASSUME NEW w \in Workers, WorkerExit(w) PROVE RecordInv'
  BY <1>3 DEF WorkerExit
<1>4. ASSUME NEW w \in Workers, WorkerBuild(w) PROVE RecordInv'
  BY <1>4 DEF WorkerBuild
<1>5. ASSUME NEW w \in Workers, WorkerFinish(w) PROVE RecordInv'
  BY <1>5 DEF WorkerFinish, IdleNotified, Idle
<1>6. CASE ReplayNext
  BY <1>6 DEF ReplayNext
<1>7. CASE ReplayRequest
  BY <1>7 DEF ReplayRequest, Enqueue, Record, NotifyOne, Placed, Request
<1>8. CASE ReplayFinish
  BY <1>8 DEF ReplayFinish
<1>9. CASE ReplayWait
  BY <1>9 DEF ReplayWait
<1>10. CASE ReplayExit
  BY <1>10 DEF ReplayExit
<1>11. CASE StartPrewarm
  <2>1. Untouched /\ ppc = "start"
    BY <1>11 DEF StartPrewarm
  <2>2. CASE IgnoreManifest
    BY <1>11, <2>1, <2>2 DEF StartPrewarm, IgnoreManifest
  <2>3. CASE LoadManifest
    BY <1>11, <2>1, <2>3 DEF StartPrewarm, LoadManifest, Seeded
  <2> QED
    BY <1>11, <2>2, <2>3 DEF StartPrewarm
<1>12. CASE WarmWait
  BY <1>12 DEF WarmWait
<1>13. CASE WarmTimeout
  BY <1>13 DEF WarmTimeout
<1>14. CASE WarmFlush
  BY <1>14 DEF WarmFlush
<1>15. CASE Adopt
  BY <1>15 DEF Adopt
<1>16. ASSUME NEW d \in Draws, Draw(d) PROVE RecordInv'
  BY <1>16 DEF Draw, DrawBlacklisted, DrawInline, DrawRequest, Enqueue, Record, NotifyOne, Placed, Request
<1>17. CASE EndFrame(LoopHead)
  BY <1>17 DEF EndFrame, LoopHead
<1>18. CASE EndFrame("save")
  BY <1>18 DEF EndFrame
<1>19. CASE StopEarly
  BY <1>19 DEF StopEarly
<1>20. CASE SaveSnapshot
  BY <1>20 DEF SaveSnapshot, LoopHead
<1>21. CASE SaveHandoff
  BY <1>21 DEF SaveHandoff, LoopHead
<1>22. CASE SaveRestore
  BY <1>22 DEF SaveRestore, LoopHead, Restored
<1>23. CASE WriterDone
  <2>1. CASE mode.fails
    BY <1>23, <2>1 DEF WriterDone
  <2>2. CASE ~mode.fails
    BY <1>23, <2>2 DEF WriterDone, Written
  <2> QED
    BY <2>1, <2>2
<1>24. CASE ShutdownStop
  BY <1>24 DEF ShutdownStop
<1>25. CASE ShutdownQuit
  BY <1>25 DEF ShutdownQuit, Woken
<1>26. CASE ShutdownSave
  BY <1>26 DEF ShutdownSave
<1>27. CASE ShutdownClaim
  BY <1>27 DEF ShutdownClaim
<1>28. CASE ShutdownWrite
  <2>1. CASE mode.fails
    BY <1>28, <2>1 DEF ShutdownWrite
  <2>2. CASE ~mode.fails
    BY <1>28, <2>2 DEF ShutdownWrite, Written
  <2> QED
    BY <2>1, <2>2
<1>29. CASE ShutdownExit
  BY <1>29 DEF ShutdownExit
<1>30. CASE Boot
  BY <1>30 DEF Boot
<1>31. CASE UNCHANGED vars
  BY <1>31 DEF vars
<1> QED
  BY <1>1, <1>2, <1>3, <1>4, <1>5, <1>6, <1>7, <1>8, <1>9, <1>10, <1>11, <1>12, <1>13, <1>14,
     <1>15, <1>16, <1>17, <1>18, <1>19, <1>20, <1>21, <1>22, <1>23, <1>24, <1>25, <1>26, <1>27,
     <1>28, <1>29, <1>30, <1>31 DEF Next, WorkerStep, ReplayStep, PresentStep,
     FrameStep, ShutdownStep, Terminated

LEMMA InitInv == Init => IInv
<1> SUFFICES ASSUME Init PROVE IInv
  OBVIOUS
<1> USE PipelineBuilderAssumption DEF Init
<1>1. PoolTypeOK
  BY DEF PoolTypeOK, Pipe
<1>2. RecordTypeOK /\ ThreadTypeOK
  BY DEF RecordTypeOK, ThreadTypeOK, PointTypeOK, FlagTypeOK
<1>3. ShapeInv /\ NoLostWakeup
  BY DEF ShapeInv, NoLostWakeup
<1>4. ManifestInv /\ RecordInv
  BY DEF ManifestInv, Untouched, RecordInv
<1> QED
  BY <1>1, <1>2, <1>3, <1>4 DEF IInv, TypeOK

\* IInv is an invariant.
THEOREM Invariance == Spec => []IInv
<1>1. IInv /\ [Next]_vars => IInv'
  BY PoolTypeStep, RecordTypeStep, ThreadTypeStep, ShapeStep, WakeStep, ManifestStep, RecordStep DEF IInv, TypeOK
<1> QED
  BY InitInv, <1>1, PTL DEF Spec

\* The variables of the builder keep their types, for any instance.
THEOREM TypeCorrect == Spec => []TypeOK
<1>1. IInv => TypeOK
  BY DEF IInv
<1> QED
  BY Invariance, <1>1, PTL

\* However many workers there are, none sleeps through a request: the
\* notify_one of every enqueue and the predicate of the wait are enough.
THEOREM WorkersWake == Spec => []NoLostWakeup
<1>1. IInv => NoLostWakeup
  BY DEF IInv
<1> QED
  BY Invariance, <1>1, PTL

\* prewarm_queued counts the pre-warm requests exactly and the live ones are in
\* front of them, for queues of any length.
THEOREM QueueOrder == Spec => []QueueShape
<1>1. IInv => QueueShape
  <2> SUFFICES ASSUME IInv PROVE QueueShape
    OBVIOUS
  <2> USE DEF IInv, TypeOK, PoolTypeOK, ShapeInv
  <2>1. DOMAIN pipe_queue = 1 .. Len(pipe_queue) /\ Len(pipe_queue) \in Nat
    OBVIOUS
  <2>2. \A i, j \in DOMAIN pipe_queue : i < j /\ PrewarmAt(i) => PrewarmAt(j)
    BY <2>1 DEF PrewarmAt
  <2> DEFINE m == Len(pipe_queue) - prewarm_queued + 1
  <2>3. {i \in DOMAIN pipe_queue : PrewarmAt(i)} = m .. Len(pipe_queue)
    BY <2>1 DEF PrewarmAt
  <2>4. Cardinality(m .. Len(pipe_queue)) = prewarm_queued
    BY <2>1, FS_Interval
  <2> QED
    BY <2>2, <2>3, <2>4 DEF QueueShape
<1> QED
  BY Invariance, <1>1, PTL

\* What is queued is built, live requests first.
THEOREM QueueServed == Spec => []QueueIsServed
<1>1. QueueShape /\ NoLostWakeup => QueueIsServed
  BY DEF QueueIsServed
<1> QED
  BY QueueOrder, WorkersWake, <1>1, PTL

\* Across kills, restarts, racing saves and failed writes a save drops a record
\* only in a run that ignored the file and has not replaced it yet, or by losing
\* its last flush.
THEOREM RecordsKept == Spec => SavesKeepRecords
<1>1. IInv /\ [Next]_vars => [manifest \subseteq manifest' \/ unread \/ Unreadable]_vars
  <2> SUFFICES ASSUME IInv, [Next]_vars PROVE manifest \subseteq manifest' \/ unread \/ Unreadable
    OBVIOUS
  <2> USE DEF IInv, ManifestInv, Between, Unreadable
  <2>1. CASE WriterDone
    BY <2>1 DEF WriterDone, Written, fileVars
  <2>2. CASE ShutdownWrite
    BY <2>2 DEF ShutdownWrite, Written, fileVars
  <2>3. CASE ~WriterDone /\ ~ShutdownWrite
    <3>1. manifest' = manifest
      BY <2>3 DEF Next, WorkerStep, WorkerTake, WorkerSleep, WorkerExit, WorkerBuild, WorkerFinish,
         ReplayStep, ReplayNext, ReplayRequest, ReplayFinish, ReplayWait, ReplayExit, PresentStep,
         StartPrewarm, IgnoreManifest, LoadManifest, WarmWait, WarmTimeout, WarmFlush, FrameStep, Adopt, Draw, EndFrame,
         StopEarly, SaveSnapshot, SaveHandoff, SaveRestore, ShutdownStep, ShutdownStop,
         ShutdownQuit, ShutdownSave, ShutdownClaim, ShutdownExit, Boot, Terminated, vars, saveVars, fileVars
    <3> QED
      BY <3>1
  <2> QED
    BY <2>1, <2>2, <2>3
<1> QED
  BY Invariance, <1>1, PTL DEF Spec, SavesKeepRecords

\* If no read or write fails and Shutdown leaves no detached writer behind, the file
\* holds every record of the run.
THEOREM ShutdownKeepsRecords == Spec => []RecordsSurviveShutdown
<1>1. IInv => RecordsSurviveShutdown
  BY PipelineBuilderAssumption DEF IInv, TypeOK, ThreadTypeOK, PointTypeOK, FlagTypeOK, ManifestInv, RecordInv, RecordsSurviveShutdown
<1> QED
  BY Invariance, <1>1, PTL
=============================================================================
