------------------------- MODULE PipelineHandlesProofs -------------------------
(***************************************************************************)
(* Where the requests and the handles of PipelineBuilder are, proved for   *)
(* any workers, draws and modes.  PendInv: the keys that are queued, in a  *)
(* worker's hands and published are distinct, disjoint, and together those *)
(* in flight.  HandleInv: a handle that was created is in the map, in the  *)
(* staging list or destroyed, and in one of these places only.  WarmInv:   *)
(* every record of the log is still to be replayed, was requested or is    *)
(* there, and pipe_active counts the workers that build.                   *)
(***************************************************************************)
EXTENDS PipelineBuilderProofs

KeysOf(s)   == {KeyOf(s[i]) : i \in 1 .. Len(s)}
Distinct(s) == \A i, j \in 1 .. Len(s) : KeyOf(s[i]) = KeyOf(s[j]) => i = j

Entries     == [key : Keys, pipe : Nat]
Staged      == {pipe_done[i] : i \in 1 .. Len(pipe_done)}
StagedKeys  == {e.key : e \in Staged}
StagedOnce  == \A i, j \in 1 .. Len(pipe_done) : pipe_done[i].key = pipe_done[j].key => i = j

Builders    == {w \in Workers : wreq[w] # None}
BuiltKeys   == {KeyOf(wreq[w]) : w \in Builders}
BuiltOnce   == \A v, w \in Builders : KeyOf(wreq[v]) = KeyOf(wreq[w]) => v = w

PendInv ==
  /\ Distinct(pipe_queue) /\ BuiltOnce /\ StagedOnce
  /\ KeysOf(pipe_queue) \cap BuiltKeys = {}
  /\ KeysOf(pipe_queue) \cap StagedKeys = {}
  /\ BuiltKeys \cap StagedKeys = {}
  /\ pipe_inflight = KeysOf(pipe_queue) \cup BuiltKeys \cup StagedKeys

Entry(k, n) == [key |-> k, pipe |-> n]

HandleInv ==
  \A k \in Keys : \A n \in Handles :
    /\ n <= builds[k] => pipelines[k] = n \/ Entry(k, n) \in Staged \/ Entry(k, n) \in destroyed
    /\ n > builds[k] => pipelines[k] # n /\ Entry(k, n) \notin Staged /\ Entry(k, n) \notin destroyed
    /\ ~(pipelines[k] = n /\ Entry(k, n) \in Staged)
    /\ ~(pipelines[k] = n /\ Entry(k, n) \in destroyed)
    /\ ~(Entry(k, n) \in Staged /\ Entry(k, n) \in destroyed)

-----------------------------------------------------------------------------
(* Queues of requests.                                                     *)

\* A request joins a queue at either end.
LEMMA Joined ==
  ASSUME NEW s \in Seq(Requests), NEW rq \in Requests, NEW t, t = Append(s, rq) \/ t = <<rq>> \o s
  PROVE  /\ KeysOf(t) = KeysOf(s) \cup {KeyOf(rq)}
         /\ Distinct(s) /\ KeyOf(rq) \notin KeysOf(s) => Distinct(t)
<1>1. PICK at \in {0, 1} : /\ Len(t) = Len(s) + 1
                           /\ \A i \in 1 .. Len(s) : t[i + at] = s[i]
                           /\ t[IF at = 0 THEN Len(s) + 1 ELSE 1] = rq
  <2>1. CASE t = Append(s, rq)
    <3>1. Len(t) = Len(s) + 1 /\ t[Len(s) + 1] = rq /\ \A i \in 1 .. Len(s) : t[i + 0] = s[i]
      BY <2>1
    <3> QED
      BY <3>1
  <2>2. CASE t = <<rq>> \o s
    <3>1. Len(t) = Len(s) + 1 /\ t[1] = rq /\ \A i \in 1 .. Len(s) : t[i + 1] = s[i]
      BY <2>2
    <3> QED
      BY <3>1
  <2> QED
    BY <2>1, <2>2
<1> DEFINE new == IF at = 0 THEN Len(s) + 1 ELSE 1
<1>2. /\ Len(s) \in Nat /\ new \in 1 .. Len(t) /\ t[new] = rq
      /\ \A j \in 1 .. Len(t) : j # new => j - at \in 1 .. Len(s) /\ t[j] = s[j - at]
      /\ \A i \in 1 .. Len(s) : i + at \in 1 .. Len(t) /\ i + at # new /\ t[i + at] = s[i]
  <2>1. Len(s) \in Nat /\ new \in 1 .. Len(t) /\ t[new] = rq
    BY <1>1
  <2>2. ASSUME NEW j \in 1 .. Len(t), j # new PROVE j - at \in 1 .. Len(s) /\ t[j] = s[j - at]
    <3>1. j - at \in 1 .. Len(s) /\ (j - at) + at = j
      BY <1>1, <2>1, <2>2
    <3> QED
      BY <1>1, <3>1
  <2>3. ASSUME NEW i \in 1 .. Len(s) PROVE i + at \in 1 .. Len(t) /\ i + at # new /\ t[i + at] = s[i]
    BY <1>1, <2>1
  <2> QED
    BY <2>1, <2>2, <2>3
<1> HIDE DEF new
<1>3. KeysOf(t) = KeysOf(s) \cup {KeyOf(rq)}
  <2>1. ASSUME NEW j \in 1 .. Len(t) PROVE KeyOf(t[j]) \in KeysOf(s) \cup {KeyOf(rq)}
    BY <1>2 DEF KeysOf
  <2>2. ASSUME NEW i \in 1 .. Len(s) PROVE KeyOf(s[i]) \in KeysOf(t)
    <3>1. i + at \in 1 .. Len(t) /\ t[i + at] = s[i]
      BY <1>2
    <3> QED
      BY <3>1 DEF KeysOf
  <2>3. KeyOf(rq) \in KeysOf(t)
    BY <1>2 DEF KeysOf
  <2> QED
    BY <2>1, <2>2, <2>3 DEF KeysOf
<1>4. ASSUME Distinct(s), KeyOf(rq) \notin KeysOf(s),
             NEW i \in 1 .. Len(t), NEW j \in 1 .. Len(t), KeyOf(t[i]) = KeyOf(t[j])
      PROVE  i = j
  <2>1. \A h \in 1 .. Len(t) : h # new => KeyOf(t[h]) # KeyOf(rq)
    BY <1>2, <1>4 DEF KeysOf
  <2>2. CASE i = new \/ j = new
    BY <1>2, <1>4, <2>1, <2>2
  <2>3. CASE i # new /\ j # new
    <3>1. i - at \in 1 .. Len(s) /\ j - at \in 1 .. Len(s) /\ KeyOf(s[i - at]) = KeyOf(s[j - at])
      BY <1>2, <1>4, <2>3
    <3>2. i - at = j - at
      BY <1>4, <3>1 DEF Distinct
    <3> QED
      BY <3>2
  <2> QED
    BY <2>2, <2>3
<1> QED
  BY <1>3, <1>4 DEF Distinct

\* The first request leaves the queue.
LEMMA Left ==
  ASSUME NEW s \in Seq(Requests), s # <<>>, Distinct(s)
  PROVE  /\ Distinct(Tail(s)) /\ KeyOf(Head(s)) \notin KeysOf(Tail(s))
         /\ KeysOf(s) = KeysOf(Tail(s)) \cup {KeyOf(Head(s))}
<1> DEFINE t == Tail(s)
<1>1. /\ Len(s) \in Nat \ {0} /\ Len(t) = Len(s) - 1 /\ Head(s) = s[1]
      /\ \A i \in 1 .. Len(t) : t[i] = s[i + 1]
  OBVIOUS
<1> HIDE DEF t
<1>2. /\ 1 \in 1 .. Len(s) /\ \A i \in 1 .. Len(t) : i + 1 \in 1 .. Len(s) /\ i + 1 # 1
      /\ \A j \in 1 .. Len(s) : j = 1 \/ (j - 1 \in 1 .. Len(t) /\ s[j] = t[j - 1])
  <2>1. ASSUME NEW j \in 1 .. Len(s), j # 1 PROVE j - 1 \in 1 .. Len(t) /\ s[j] = t[j - 1]
    <3>1. j - 1 \in 1 .. Len(t) /\ (j - 1) + 1 = j
      BY <1>1, <2>1
    <3> QED
      BY <1>1, <3>1
  <2> QED
    BY <1>1, <2>1
<1>3. Distinct(t)
  <2> SUFFICES ASSUME NEW i \in 1 .. Len(t), NEW j \in 1 .. Len(t), KeyOf(t[i]) = KeyOf(t[j]) PROVE i = j
    BY DEF Distinct
  <2>1. i + 1 = j + 1
    BY <1>1, <1>2 DEF Distinct
  <2> QED
    BY <2>1
<1>4. KeyOf(s[1]) \notin KeysOf(t)
  BY <1>1, <1>2 DEF Distinct, KeysOf
<1>5. KeysOf(s) = KeysOf(t) \cup {KeyOf(s[1])}
  BY <1>1, <1>2 DEF KeysOf
<1> QED
  BY <1>1, <1>3, <1>4, <1>5 DEF t

-----------------------------------------------------------------------------
(* The staging list and the builders.                                      *)

LEMMA StagedTypes ==
  ASSUME PoolTypeOK
  PROVE  /\ Staged \subseteq Entries /\ StagedKeys \subseteq Keys
         /\ DOMAIN pipe_done = 1 .. Len(pipe_done) /\ Len(pipe_done) \in Nat
         /\ \A w \in Builders : wreq[w] \in Requests /\ KeyOf(wreq[w]) \in Keys
<1>1. pipe_done \in Seq(Entries) /\ wreq \in [Workers -> Requests \cup {None}]
  BY DEF PoolTypeOK, Entries
<1>2. \A i \in 1 .. Len(pipe_done) : pipe_done[i] \in Entries
  BY <1>1, ElementOfSeq
<1>3. Staged \subseteq Entries
  BY <1>2 DEF Staged
<1>4. StagedKeys \subseteq Keys
  BY <1>3 DEF StagedKeys, Entries
<1>5. \A w \in Builders : wreq[w] \in Requests /\ KeyOf(wreq[w]) \in Keys
  BY <1>1, RequestKey DEF Builders
<1> QED
  BY <1>1, <1>3, <1>4, <1>5

\* What the drain finds of a key is one entry at most.
LEMMA StagedIsUnique ==
  ASSUME PoolTypeOK, StagedOnce, NEW e \in Staged, NEW f \in Staged, e.key = f.key
  PROVE  e = f
  BY DEF Staged, StagedOnce

\* What the drain makes of a key.
LEMMA AdoptedIs ==
  ASSUME PoolTypeOK, StagedOnce, NEW k \in Keys
  PROVE  /\ pipelines[k] \in Handles => Adopted(k) = pipelines[k]
         /\ k \notin StagedKeys => Adopted(k) = pipelines[k]
         /\ \A e \in Staged : e.key = k /\ pipelines[k] \notin Handles => Adopted(k) = e.pipe
<1>1. DOMAIN pipe_done = 1 .. Len(pipe_done) /\ Len(pipe_done) \in Nat /\ Staged \subseteq Entries
  BY StagedTypes
<1>2. pipelines[k] \in Nat \cup {None} /\ None \notin Nat
  BY PipelineBuilderAssumption DEF PoolTypeOK, Pipe
<1>3. pipelines[k] \in Handles <=> pipelines[k] \notin {None, Null}
  BY <1>2 DEF Handles, Null
<1>4. CASE pipelines[k] \in Handles
  BY <1>3, <1>4 DEF Adopted
<1>5. CASE Published(k) = {} /\ pipelines[k] \notin Handles
  <2>1. \A e \in Staged : e.key # k
    BY <1>1, <1>5 DEF Published, Staged
  <2> QED
    BY <1>5, <2>1 DEF Adopted, StagedKeys
<1>6. CASE Published(k) # {} /\ pipelines[k] \notin Handles
  <2>1. PICK i \in 1 .. Len(pipe_done) : pipe_done[i].key = k
    BY <1>1, <1>6 DEF Published
  <2>2. Published(k) = {i}
    BY <1>1, <2>1 DEF Published, StagedOnce
  <2>3. \A e \in Staged : e.key = k => e = pipe_done[i]
    BY <2>1 DEF Staged, StagedOnce
  <2>4. k \in StagedKeys
    BY <2>1 DEF StagedKeys, Staged
  <2>5. Adopted(k) = pipe_done[i].pipe
    <3>1. CASE pipe_done[i].pipe = Null
      <4>1. Built(k) = {}
        BY <2>2, <3>1 DEF Built
      <4> QED
        BY <1>3, <1>6, <3>1, <4>1 DEF Adopted
    <3>2. CASE pipe_done[i].pipe # Null
      <4>1. Built(k) = {i}
        BY <2>2, <3>2 DEF Built
      <4>2. (CHOOSE h \in {i} : \A j \in {i} : h <= j) = i
        BY <2>1, <1>1
      <4> QED
        BY <1>3, <1>6, <4>1, <4>2 DEF Adopted
    <3> QED
      BY <3>1, <3>2
  <2> QED
    BY <1>6, <2>3, <2>4, <2>5
<1> QED
  BY <1>4, <1>5, <1>6

-----------------------------------------------------------------------------
(* Requests.                                                               *)

LEMMA PendSame ==
  ASSUME PendInv, UNCHANGED <<pipe_inflight, pipe_queue, wreq, pipe_done>>
  PROVE  PendInv'
<1>1. /\ KeysOf(pipe_queue)' = KeysOf(pipe_queue) /\ Distinct(pipe_queue)'
  BY DEF KeysOf, Distinct, PendInv
<1>2. BuiltKeys' = BuiltKeys /\ BuiltOnce'
  BY DEF BuiltKeys, Builders, BuiltOnce, PendInv
<1>3. StagedKeys' = StagedKeys /\ StagedOnce'
  BY DEF StagedKeys, Staged, StagedOnce, PendInv
<1> QED
  BY <1>1, <1>2, <1>3 DEF PendInv

\* A request that is not in flight is queued once.
LEMMA EnqueuePend ==
  ASSUME PoolTypeOK, PendInv, NEW d \in Draws, NEW p \in BOOLEAN, Enqueue(d, p), UNCHANGED <<wreq, pipe_done>>
  PROVE  PendInv'
<1>1. CASE KeyOf(d) \in pipe_inflight
  <2>1. UNCHANGED <<pipe_inflight, pipe_queue>>
    BY <1>1 DEF Enqueue, poolVars
  <2> QED
    BY <2>1, PendSame
<1>2. CASE KeyOf(d) \notin pipe_inflight
  <2> DEFINE rq == Request(d, p)
  <2>1. /\ pipe_inflight' = pipe_inflight \cup {KeyOf(d)}
        /\ pipe_queue' = Append(pipe_queue, rq) \/ pipe_queue' = <<rq>> \o pipe_queue
    BY <1>2 DEF Enqueue, Placed
  <2>2. rq \in Requests /\ KeyOf(rq) = KeyOf(d) /\ pipe_queue \in Seq(Requests)
    BY KeyType DEF Request, KeyOf, PoolTypeOK
  <2> HIDE DEF rq
  <2>3. KeyOf(rq) \notin KeysOf(pipe_queue) \cup BuiltKeys \cup StagedKeys
    BY <1>2, <2>2 DEF PendInv
  <2>4. /\ KeysOf(pipe_queue') = KeysOf(pipe_queue) \cup {KeyOf(rq)}
        /\ Distinct(pipe_queue')
    BY <2>1, <2>2, <2>3, Joined DEF PendInv
  <2>5. BuiltKeys' = BuiltKeys /\ StagedKeys' = StagedKeys /\ BuiltOnce' /\ StagedOnce'
    BY DEF BuiltKeys, Builders, BuiltOnce, StagedKeys, Staged, StagedOnce, PendInv
  <2>6. KeysOf(pipe_queue)' = KeysOf(pipe_queue') /\ Distinct(pipe_queue)' = Distinct(pipe_queue')
    BY DEF KeysOf, Distinct
  <2> QED
    BY <2>1, <2>2, <2>3, <2>4, <2>5, <2>6 DEF PendInv
<1> QED
  BY <1>1, <1>2

\* A worker takes the first request in its hands.
LEMMA TakePend ==
  ASSUME PoolTypeOK, PendInv, NEW w \in Workers, WorkerTake(w)
  PROVE  PendInv'
<1> DEFINE rq == Head(pipe_queue)
<1>1. /\ wpc[w] = "awake" /\ pipe_queue # <<>> /\ wreq' = [wreq EXCEPT ![w] = rq]
      /\ pipe_queue' = Tail(pipe_queue) /\ UNCHANGED <<pipe_inflight, pipe_done>>
  BY DEF WorkerTake
<1>2. /\ pipe_queue \in Seq(Requests) /\ wreq \in [Workers -> Requests \cup {None}]
      /\ wreq[w] = None
  BY <1>1 DEF PoolTypeOK
<1>3. rq \in Requests /\ rq # None
  BY <1>1, <1>2, PipelineBuilderAssumption
<1>4. /\ Distinct(Tail(pipe_queue)) /\ KeyOf(rq) \notin KeysOf(Tail(pipe_queue))
      /\ KeysOf(pipe_queue) = KeysOf(Tail(pipe_queue)) \cup {KeyOf(rq)}
  BY <1>1, <1>2, Left DEF PendInv
<1> HIDE DEF rq
<1>5. /\ Builders' = Builders \cup {w} /\ w \notin Builders
      /\ wreq'[w] = rq /\ \A v \in Builders : wreq'[v] = wreq[v]
  BY <1>1, <1>2, <1>3 DEF Builders
<1>6. BuiltKeys' = BuiltKeys \cup {KeyOf(rq)}
  BY <1>5 DEF BuiltKeys
<1>7. KeyOf(rq) \notin BuiltKeys
  BY <1>4 DEF PendInv
<1>8. BuiltOnce'
  <2> SUFFICES ASSUME NEW u \in Builders', NEW v \in Builders', KeyOf(wreq'[u]) = KeyOf(wreq'[v]) PROVE u = v
    BY DEF BuiltOnce
  <2>1. \A x \in Builders : KeyOf(wreq'[x]) \in BuiltKeys
    BY <1>5 DEF BuiltKeys
  <2>2. CASE u \in Builders /\ v \in Builders
    BY <1>5, <2>2 DEF PendInv, BuiltOnce
  <2>3. CASE u = w \/ v = w
    BY <1>5, <1>7, <2>1, <2>3
  <2> QED
    BY <1>5, <2>2, <2>3
<1>9. StagedKeys' = StagedKeys /\ StagedOnce'
  BY <1>1 DEF StagedKeys, Staged, StagedOnce, PendInv
<1>10. KeysOf(pipe_queue)' = KeysOf(Tail(pipe_queue)) /\ Distinct(pipe_queue)' = Distinct(Tail(pipe_queue))
  BY <1>1 DEF KeysOf, Distinct
<1> QED
  BY <1>1, <1>4, <1>6, <1>7, <1>8, <1>9, <1>10 DEF PendInv

\* The result is published under the key of the request.
LEMMA BuildPend ==
  ASSUME PoolTypeOK, PendInv, NEW w \in Workers, WorkerBuild(w)
  PROVE  PendInv'
<1> DEFINE k == KeyOf(wreq[w])
<1>1. PICK ok \in BOOLEAN :
         /\ wpc[w] = "build" /\ wreq' = [wreq EXCEPT ![w] = None]
         /\ pipe_done' = Append(pipe_done, Entry(k, IF ok THEN builds[k] + 1 ELSE Null))
         /\ UNCHANGED <<pipe_inflight, pipe_queue>>
  BY DEF WorkerBuild, Entry
<1>2. /\ wreq \in [Workers -> Requests \cup {None}] /\ w \in Builders /\ k \in Keys
      /\ pipe_done \in Seq(Entries) /\ builds \in [Keys -> Nat]
  BY <1>1, StagedTypes DEF PoolTypeOK, Builders, Entries
<1> HIDE DEF k
<1> DEFINE e == Entry(k, IF ok THEN builds[k] + 1 ELSE Null)
<1>3. e \in Entries /\ e.key = k
  BY <1>2 DEF Entry, Entries, Null
<1> HIDE DEF e
<1>4. /\ Len(pipe_done) \in Nat /\ Len(pipe_done') = Len(pipe_done) + 1
      /\ pipe_done'[Len(pipe_done) + 1] = e /\ \A i \in 1 .. Len(pipe_done) : pipe_done'[i] = pipe_done[i]
  BY <1>1, <1>2, <1>3 DEF e
<1>5. Staged' = Staged \cup {e}
  BY <1>4 DEF Staged
<1>6. StagedKeys' = StagedKeys \cup {k}
  BY <1>3, <1>5 DEF StagedKeys
<1>7. k \in BuiltKeys
  BY <1>2 DEF BuiltKeys, k
<1>8. StagedOnce'
  <2> SUFFICES ASSUME NEW i \in 1 .. Len(pipe_done'), NEW j \in 1 .. Len(pipe_done'),
                      pipe_done'[i].key = pipe_done'[j].key
               PROVE  i = j
    BY DEF StagedOnce
  <2>1. \A h \in 1 .. Len(pipe_done) : pipe_done'[h].key # k
    BY <1>4, <1>7 DEF PendInv, StagedKeys, Staged
  <2>2. /\ i \in 1 .. Len(pipe_done) \/ (i = Len(pipe_done) + 1 /\ pipe_done'[i].key = k)
        /\ j \in 1 .. Len(pipe_done) \/ (j = Len(pipe_done) + 1 /\ pipe_done'[j].key = k)
    BY <1>3, <1>4
  <2>3. CASE i \in 1 .. Len(pipe_done) /\ j \in 1 .. Len(pipe_done)
    BY <1>4, <2>3 DEF PendInv, StagedOnce
  <2> QED
    BY <2>1, <2>2, <2>3
<1>9. Builders' = Builders \ {w} /\ \A v \in Builders' : wreq'[v] = wreq[v]
  BY <1>1, <1>2 DEF Builders
<1>10. BuiltKeys' = BuiltKeys \ {k}
  <2>1. ASSUME NEW v \in Builders PROVE KeyOf(wreq[v]) = k <=> v = w
    BY <1>2 DEF PendInv, BuiltOnce, k
  <2>2. BuiltKeys' = {KeyOf(wreq[v]) : v \in Builders \ {w}}
    BY <1>9 DEF BuiltKeys
  <2> QED
    BY <2>1, <2>2 DEF BuiltKeys
<1>11. BuiltOnce'
  BY <1>9 DEF BuiltOnce, PendInv
<1>12. KeysOf(pipe_queue)' = KeysOf(pipe_queue) /\ Distinct(pipe_queue)'
  BY <1>1 DEF KeysOf, Distinct, PendInv
<1> QED
  BY <1>1, <1>6, <1>7, <1>8, <1>10, <1>11, <1>12 DEF PendInv

\* The drain takes what was published out of flight.
LEMMA AdoptPend ==
  ASSUME PoolTypeOK, PendInv, Adopt
  PROVE  PendInv'
<1>1. /\ pipe_done' = <<>> /\ UNCHANGED <<pipe_queue, wreq>>
      /\ pipe_inflight' = pipe_inflight \ {pipe_done[i].key : i \in DOMAIN pipe_done}
  BY DEF Adopt
<1>2. StagedKeys = {pipe_done[i].key : i \in DOMAIN pipe_done}
  BY StagedTypes DEF StagedKeys, Staged
<1>3. StagedKeys' = {} /\ StagedOnce'
  BY <1>1 DEF StagedKeys, Staged, StagedOnce
<1>4. /\ KeysOf(pipe_queue)' = KeysOf(pipe_queue) /\ Distinct(pipe_queue)'
      /\ BuiltKeys' = BuiltKeys /\ BuiltOnce'
  BY <1>1 DEF KeysOf, Distinct, BuiltKeys, Builders, BuiltOnce, PendInv
<1> QED
  BY <1>1, <1>2, <1>3, <1>4 DEF PendInv

-----------------------------------------------------------------------------
(* Handles.                                                                *)

LEMMA HandlesSame ==
  ASSUME HandleInv, UNCHANGED <<pipelines, builds, pipe_done, destroyed>>
  PROVE  HandleInv'
<1>1. Staged' = Staged
  BY DEF Staged
<1> QED
  BY <1>1 DEF HandleInv

\* A build that succeeds creates the next handle of its key, and publishes it.
LEMMA BuildHandles ==
  ASSUME PoolTypeOK, HandleInv, NEW w \in Workers, WorkerBuild(w)
  PROVE  HandleInv'
<1> DEFINE k == KeyOf(wreq[w])
<1>1. PICK ok \in BOOLEAN :
         /\ wpc[w] = "build"
         /\ pipe_done' = Append(pipe_done, Entry(k, IF ok THEN builds[k] + 1 ELSE Null))
         /\ builds' = IF ok THEN [builds EXCEPT ![k] = builds[k] + 1] ELSE builds
         /\ UNCHANGED <<pipelines, destroyed>>
  BY DEF WorkerBuild, Entry
<1>2. /\ w \in Builders /\ k \in Keys /\ pipe_done \in Seq(Entries) /\ builds \in [Keys -> Nat]
  BY <1>1, StagedTypes DEF PoolTypeOK, Builders, Entries
<1> HIDE DEF k
<1> DEFINE e == Entry(k, IF ok THEN builds[k] + 1 ELSE Null)
<1>3. e \in Entries
  BY <1>2 DEF Entry, Entries, Null
<1> HIDE DEF e
<1>4. /\ Len(pipe_done) \in Nat /\ Len(pipe_done') = Len(pipe_done) + 1
      /\ pipe_done'[Len(pipe_done) + 1] = e /\ \A i \in 1 .. Len(pipe_done) : pipe_done'[i] = pipe_done[i]
  BY <1>1, <1>2, <1>3 DEF e
<1>5. Staged' = Staged \cup {e}
  BY <1>4 DEF Staged
<1> SUFFICES ASSUME NEW j \in Keys, NEW n \in Handles
             PROVE  /\ n <= builds'[j] => pipelines[j] = n \/ Entry(j, n) \in Staged' \/ Entry(j, n) \in destroyed
                    /\ n > builds'[j] => pipelines[j] # n /\ Entry(j, n) \notin Staged' /\ Entry(j, n) \notin destroyed
                    /\ ~(pipelines[j] = n /\ Entry(j, n) \in Staged')
                    /\ ~(pipelines[j] = n /\ Entry(j, n) \in destroyed)
                    /\ ~(Entry(j, n) \in Staged' /\ Entry(j, n) \in destroyed)
  BY <1>1 DEF HandleInv
<1>6. /\ n \in Nat /\ n # 0 /\ builds[j] \in Nat
      /\ n <= builds[j] => pipelines[j] = n \/ Entry(j, n) \in Staged \/ Entry(j, n) \in destroyed
      /\ n > builds[j] => pipelines[j] # n /\ Entry(j, n) \notin Staged /\ Entry(j, n) \notin destroyed
      /\ ~(pipelines[j] = n /\ Entry(j, n) \in Staged)
      /\ ~(pipelines[j] = n /\ Entry(j, n) \in destroyed)
      /\ ~(Entry(j, n) \in Staged /\ Entry(j, n) \in destroyed)
  BY <1>2 DEF HandleInv, Handles
<1>7. CASE Entry(j, n) = e
  <2>1. ok /\ j = k /\ n = builds[k] + 1
    BY <1>6, <1>7 DEF e, Entry, Null
  <2>2. builds'[j] = builds[j] + 1
    BY <1>1, <1>2, <2>1
  <2>3. n > builds[j] /\ ~(n > builds'[j])
    BY <1>6, <2>1, <2>2
  <2> QED
    BY <1>5, <1>6, <1>7, <2>3
<1>8. CASE Entry(j, n) # e
  <2>1. Entry(j, n) \in Staged' <=> Entry(j, n) \in Staged
    BY <1>5, <1>8
  <2>2. n <= builds'[j] <=> n <= builds[j]
    <3>1. CASE ok /\ j = k
      <4>1. builds'[j] = builds[j] + 1 /\ n # builds[j] + 1
        BY <1>1, <1>2, <1>8, <3>1 DEF e
      <4> QED
        BY <1>6, <4>1
    <3>2. CASE ~(ok /\ j = k)
      <4>1. builds'[j] = builds[j]
        BY <1>1, <1>2, <3>2
      <4> QED
        BY <4>1
    <3> QED
      BY <3>1, <3>2
  <2>3. builds'[j] \in Nat /\ (n > builds'[j] <=> n > builds[j])
    <3>1. builds'[j] \in Nat
      BY <1>1, <1>2
    <3> QED
      BY <1>6, <2>2, <3>1
  <2> QED
    BY <1>6, <2>1, <2>2, <2>3
<1> QED
  BY <1>7, <1>8

\* A handle that was published is adopted, or destroyed when the key has another.
LEMMA AdoptHandles ==
  ASSUME PoolTypeOK, StagedOnce, HandleInv, Adopt
  PROVE  HandleInv'
<1>1. /\ pipelines' = [k \in Keys |-> Adopted(k)] /\ pipe_done' = <<>> /\ builds' = builds
      /\ destroyed' = destroyed \cup {pipe_done[i] : i \in {j \in DOMAIN pipe_done : Redundant(pipe_done[j])}}
  BY DEF Adopt
<1>2. destroyed' = destroyed \cup {e \in Staged : Redundant(e)}
  BY <1>1, StagedTypes DEF Staged
<1>3. Staged' = {}
  BY <1>1 DEF Staged
<1> SUFFICES ASSUME NEW k \in Keys, NEW n \in Handles
             PROVE  /\ n <= builds[k] => Adopted(k) = n \/ Entry(k, n) \in destroyed'
                    /\ n > builds[k] => Adopted(k) # n /\ Entry(k, n) \notin destroyed'
                    /\ ~(Adopted(k) = n /\ Entry(k, n) \in destroyed')
  BY <1>1, <1>3 DEF HandleInv
<1>4. /\ n <= builds[k] => pipelines[k] = n \/ Entry(k, n) \in Staged \/ Entry(k, n) \in destroyed
      /\ n > builds[k] => pipelines[k] # n /\ Entry(k, n) \notin Staged /\ Entry(k, n) \notin destroyed
      /\ ~(pipelines[k] = n /\ Entry(k, n) \in Staged)
      /\ ~(pipelines[k] = n /\ Entry(k, n) \in destroyed)
      /\ ~(Entry(k, n) \in Staged /\ Entry(k, n) \in destroyed)
  BY DEF HandleInv
<1>5. Entry(k, n) \in destroyed'
         <=> Entry(k, n) \in destroyed \/ (Entry(k, n) \in Staged /\ n # Adopted(k))
  <2>1. Redundant(Entry(k, n)) <=> n # Adopted(k)
    BY DEF Redundant, Entry, Null, Handles
  <2> QED
    BY <1>2, <2>1
<1>6. Adopted(k) = n <=> pipelines[k] = n \/ (pipelines[k] \notin Handles /\ Entry(k, n) \in Staged)
  <2>1. CASE pipelines[k] \in Handles
    BY <2>1, AdoptedIs
  <2>2. CASE pipelines[k] \notin Handles /\ k \notin StagedKeys
    <3>1. Entry(k, n) \notin Staged
      BY <2>2 DEF StagedKeys, Entry
    <3> QED
      BY <2>2, <3>1, AdoptedIs
  <2>3. CASE pipelines[k] \notin Handles /\ k \in StagedKeys
    <3>1. PICK e \in Staged : e.key = k
      BY <2>3 DEF StagedKeys
    <3>2. Adopted(k) = e.pipe /\ e \in Entries
      BY <2>3, <3>1, AdoptedIs, StagedTypes
    <3>3. Entry(k, n) \in Staged <=> e = Entry(k, n)
      BY <3>1, StagedIsUnique DEF Entry
    <3>4. e = Entry(k, n) <=> e.pipe = n
      BY <3>1, <3>2 DEF Entry, Entries
    <3> QED
      BY <2>3, <3>2, <3>3, <3>4
  <2> QED
    BY <2>1, <2>2, <2>3
<1> QED
  BY <1>4, <1>5, <1>6

\* A draw fills a place of the map that was empty.
LEMMA DrawHandles ==
  ASSUME PoolTypeOK, HandleInv, NEW d \in Draws, Draw(d)
  PROVE  HandleInv'
<1> DEFINE k == KeyOf(d)
<1>1. /\ k \in Keys /\ pipelines[k] = None /\ UNCHANGED <<pipe_done, destroyed>>
      /\ pipelines \in [Keys -> Pipe] /\ builds \in [Keys -> Nat]
  BY KeyType DEF Draw, restVars, PoolTypeOK
<1>2. Staged' = Staged
  BY <1>1 DEF Staged
<1>3. None \notin Handles /\ Null \notin Handles
  BY PipelineBuilderAssumption DEF Handles, Null
<1>4. CASE DrawRequest(d)
  BY <1>1, <1>2, <1>4 DEF DrawRequest, HandleInv
<1>5. CASE pipelines' = [pipelines EXCEPT ![k] = Null] /\ builds' = builds
  <2>1. \A j \in Keys : \A n \in Handles : pipelines'[j] = n <=> pipelines[j] = n
    BY <1>1, <1>3, <1>5
  <2> QED
    BY <1>1, <1>2, <1>5, <2>1 DEF HandleInv
<1>6. CASE /\ pipelines' = [pipelines EXCEPT ![k] = builds[k] + 1]
           /\ builds' = [builds EXCEPT ![k] = builds[k] + 1]
  <2> SUFFICES ASSUME NEW j \in Keys, NEW n \in Handles
               PROVE  /\ n <= builds'[j] => pipelines'[j] = n \/ Entry(j, n) \in Staged \/ Entry(j, n) \in destroyed
                      /\ n > builds'[j] => pipelines'[j] # n /\ Entry(j, n) \notin Staged /\ Entry(j, n) \notin destroyed
                      /\ ~(pipelines'[j] = n /\ Entry(j, n) \in Staged)
                      /\ ~(pipelines'[j] = n /\ Entry(j, n) \in destroyed)
                      /\ ~(Entry(j, n) \in Staged /\ Entry(j, n) \in destroyed)
    BY <1>1, <1>2 DEF HandleInv
  <2>1. /\ n \in Nat /\ builds[j] \in Nat
        /\ n <= builds[j] => pipelines[j] = n \/ Entry(j, n) \in Staged \/ Entry(j, n) \in destroyed
        /\ n > builds[j] => pipelines[j] # n /\ Entry(j, n) \notin Staged /\ Entry(j, n) \notin destroyed
        /\ ~(pipelines[j] = n /\ Entry(j, n) \in Staged)
        /\ ~(pipelines[j] = n /\ Entry(j, n) \in destroyed)
        /\ ~(Entry(j, n) \in Staged /\ Entry(j, n) \in destroyed)
    BY <1>1 DEF HandleInv, Handles
  <2>2. CASE j # k
    <3>1. pipelines'[j] = pipelines[j] /\ builds'[j] = builds[j]
      BY <1>1, <1>6, <2>2
    <3> QED
      BY <2>1, <3>1
  <2>3. CASE j = k
    <3>1. pipelines'[j] = builds[j] + 1 /\ builds'[j] = builds[j] + 1 /\ pipelines[j] # n
      BY <1>1, <1>3, <1>6, <2>3
    <3>2. CASE n = builds[j] + 1
      <4>1. n > builds[j] /\ ~(n > builds'[j])
        BY <2>1, <3>1, <3>2
      <4> QED
        BY <2>1, <3>1, <3>2, <4>1
    <3>3. CASE n # builds[j] + 1
      <4>1. (n <= builds'[j] <=> n <= builds[j]) /\ (n > builds'[j] => n > builds[j])
        BY <2>1, <3>1, <3>3
      <4> QED
        BY <2>1, <3>1, <3>3, <4>1
    <3> QED
      BY <3>2, <3>3
  <2> QED
    BY <2>2, <2>3
<1> QED
  BY <1>4, <1>5, <1>6 DEF Draw, DrawBlacklisted, DrawInline

-----------------------------------------------------------------------------
\* Steps that touch neither requests nor handles.
LEMMA OtherSteps ==
  ASSUME [Next]_vars
  PROVE  \/ \E w \in Workers : WorkerTake(w) \/ WorkerBuild(w)
         \/ ReplayRequest \/ Adopt \/ Boot \/ \E d \in Draws : Draw(d)
         \/ UNCHANGED <<pipe_inflight, pipe_queue, wreq, pipe_done, pipelines, builds, destroyed>>
<1> USE DEF poolVars, logVars, pipeVars, restVars, replayVars, saveVars, fileVars, procVars, bootVars
<1>1. ASSUME NEW w \in Workers, WorkerSleep(w) \/ WorkerExit(w) \/ WorkerFinish(w)
      PROVE  UNCHANGED <<pipe_inflight, pipe_queue, wreq, pipe_done, pipelines, builds, destroyed>>
  BY <1>1 DEF WorkerSleep, WorkerExit, WorkerFinish
<1>2. ASSUME ReplayNext \/ ReplayFinish \/ ReplayWait \/ ReplayExit
      PROVE  UNCHANGED <<pipe_inflight, pipe_queue, wreq, pipe_done, pipelines, builds, destroyed>>
  BY <1>2 DEF ReplayNext, ReplayFinish, ReplayWait, ReplayExit
<1>3. ASSUME StartPrewarm \/ WarmWait \/ WarmTimeout \/ WarmFlush \/ StopEarly
      PROVE  UNCHANGED <<pipe_inflight, pipe_queue, wreq, pipe_done, pipelines, builds, destroyed>>
  BY <1>3 DEF StartPrewarm, IgnoreManifest, LoadManifest, WarmWait, WarmTimeout, WarmFlush, StopEarly
<1>4. ASSUME SaveSnapshot \/ SaveHandoff \/ SaveRestore \/ WriterDone
      PROVE  UNCHANGED <<pipe_inflight, pipe_queue, wreq, pipe_done, pipelines, builds, destroyed>>
  BY <1>4 DEF SaveSnapshot, SaveHandoff, SaveRestore, WriterDone
<1>5. ASSUME ShutdownStop \/ ShutdownQuit \/ ShutdownSave \/ ShutdownClaim \/ ShutdownWrite \/ ShutdownExit
      PROVE  UNCHANGED <<pipe_inflight, pipe_queue, wreq, pipe_done, pipelines, builds, destroyed>>
  BY <1>5 DEF ShutdownStop, ShutdownQuit, ShutdownSave, ShutdownClaim, ShutdownWrite, ShutdownExit
<1>6. ASSUME EndFrame(LoopHead) \/ EndFrame("save") \/ Terminated \/ UNCHANGED vars
      PROVE  UNCHANGED <<pipe_inflight, pipe_queue, wreq, pipe_done, pipelines, builds, destroyed>>
  BY <1>6 DEF EndFrame, Terminated, vars
<1> QED
  BY <1>1, <1>2, <1>3, <1>4, <1>5, <1>6 DEF Next, WorkerStep, ReplayStep, PresentStep, FrameStep, ShutdownStep

\* At the start nothing is requested and nothing built.
LEMMA FreshInv ==
  ASSUME pipelines = [k \in Keys |-> None], builds = [k \in Keys |-> 0], destroyed = {},
         pipe_inflight = {}, pipe_queue = <<>>, pipe_done = <<>>, wreq = [w \in Workers |-> None]
  PROVE  PendInv /\ HandleInv
<1>1. KeysOf(pipe_queue) = {} /\ Distinct(pipe_queue) /\ Staged = {} /\ StagedOnce
  BY DEF KeysOf, Distinct, Staged, StagedOnce
<1>2. StagedKeys = {} /\ BuiltKeys = {} /\ BuiltOnce
  BY <1>1 DEF StagedKeys, BuiltKeys, BuiltOnce, Builders
<1>3. None \notin Handles /\ \A n \in Handles : ~(n <= 0)
  BY PipelineBuilderAssumption DEF Handles
<1> QED
  BY <1>1, <1>2, <1>3 DEF PendInv, HandleInv

LEMMA PendStep ==
  ASSUME TypeOK, PendInv, HandleInv, [Next]_vars
  PROVE  PendInv' /\ HandleInv'
<1> USE DEF TypeOK
<1>1. ASSUME NEW w \in Workers, WorkerTake(w) PROVE PendInv' /\ HandleInv'
  <2>1. UNCHANGED <<pipelines, builds, pipe_done, destroyed>>
    BY <1>1 DEF WorkerTake, pipeVars
  <2> QED
    BY <1>1, <2>1, TakePend, HandlesSame
<1>2. ASSUME NEW w \in Workers, WorkerBuild(w) PROVE PendInv' /\ HandleInv'
  BY <1>2, BuildPend, BuildHandles
<1>3. CASE ReplayRequest
  <2>1. UNCHANGED <<pipelines, builds, pipe_done, destroyed, wreq>>
    BY <1>3 DEF ReplayRequest, pipeVars, restVars
  <2>2. CASE Replayable(rec)
    <3>1. rec \in Draws /\ Enqueue(rec, TRUE)
      BY <1>3, <2>2 DEF ReplayRequest, RecordTypeOK
    <3> QED
      BY <2>1, <3>1, EnqueuePend, HandlesSame
  <2>3. CASE ~Replayable(rec)
    <3>1. UNCHANGED <<pipe_inflight, pipe_queue>>
      BY <1>3, <2>3 DEF ReplayRequest, poolVars
    <3> QED
      BY <2>1, <3>1, PendSame, HandlesSame
  <2> QED
    BY <2>2, <2>3
<1>4. CASE Adopt
  <2>1. StagedOnce
    BY DEF PendInv
  <2> QED
    BY <1>4, <2>1, AdoptPend, AdoptHandles
<1>5. CASE Boot
  <2>1. /\ pipelines' = [k \in Keys |-> None] /\ builds' = [k \in Keys |-> 0] /\ destroyed' = {}
        /\ pipe_inflight' = {} /\ pipe_queue' = <<>> /\ pipe_done' = <<>> /\ wreq' = [w \in Workers |-> None]
    BY <1>5 DEF Boot
  <2>2. KeysOf(pipe_queue)' = {} /\ Distinct(pipe_queue)' /\ Staged' = {} /\ StagedOnce'
    BY <2>1 DEF KeysOf, Distinct, Staged, StagedOnce
  <2>3. StagedKeys' = {} /\ BuiltKeys' = {} /\ BuiltOnce'
    BY <2>1, <2>2 DEF StagedKeys, BuiltKeys, BuiltOnce, Builders
  <2>4. None \notin Handles /\ \A n \in Handles : ~(n <= 0)
    BY PipelineBuilderAssumption DEF Handles
  <2> QED
    BY <2>1, <2>2, <2>3, <2>4 DEF PendInv, HandleInv
<1>6. ASSUME NEW d \in Draws, Draw(d) PROVE PendInv' /\ HandleInv'
  <2>1. UNCHANGED <<wreq, pipe_done>>
    BY <1>6 DEF Draw, restVars
  <2>2. CASE DrawRequest(d)
    <3>1. Enqueue(d, FALSE)
      BY <2>2 DEF DrawRequest
    <3> QED
      BY <1>6, <2>1, <3>1, EnqueuePend, DrawHandles
  <2>3. CASE DrawBlacklisted(d) \/ DrawInline(d)
    <3>1. UNCHANGED <<pipe_inflight, pipe_queue>>
      BY <2>3 DEF DrawBlacklisted, DrawInline, poolVars
    <3> QED
      BY <1>6, <2>1, <3>1, PendSame, DrawHandles
  <2> QED
    BY <1>6, <2>2, <2>3 DEF Draw
<1>7. CASE UNCHANGED <<pipe_inflight, pipe_queue, wreq, pipe_done, pipelines, builds, destroyed>>
  BY <1>7, PendSame, HandlesSame
<1> QED
  BY <1>1, <1>2, <1>3, <1>4, <1>5, <1>6, <1>7, OtherSteps

LEMMA HandlesInvariance == Spec => [](TypeOK /\ PendInv /\ HandleInv)
<1>1. Init => PendInv /\ HandleInv
  BY FreshInv DEF Init
<1>2. TypeOK /\ PendInv /\ HandleInv /\ [Next]_vars => (PendInv /\ HandleInv)'
  BY PendStep
<1> QED
  BY TypeCorrect, <1>1, <1>2, PTL DEF Spec

-----------------------------------------------------------------------------
(* Back to counting.                                                       *)

LEMMA OneOrNone ==
  ASSUME NEW S, \A x, y \in S : x = y
  PROVE  Cardinality(S) = IF S = {} THEN 0 ELSE 1
<1>1. CASE S = {}
  BY <1>1, FS_EmptySet
<1>2. CASE S # {}
  <2>1. PICK x : S = {x}
    BY <1>2
  <2> QED
    BY <2>1, <1>2, FS_Singleton
<1> QED
  BY <1>1, <1>2

LEMMA PendingCounts == TypeOK /\ PendInv => InflightIsPending
<1> SUFFICES ASSUME TypeOK, PendInv, NEW k \in Keys
             PROVE  Pending(k) = IF k \in pipe_inflight THEN 1 ELSE 0
  BY DEF InflightIsPending
<1> DEFINE Q == {i \in DOMAIN pipe_queue : KeyOf(pipe_queue[i]) = k}
           W == {w \in Workers : wreq[w] # None /\ KeyOf(wreq[w]) = k}
<1>1. /\ DOMAIN pipe_queue = 1 .. Len(pipe_queue) /\ DOMAIN pipe_done = 1 .. Len(pipe_done)
  BY StagedTypes DEF TypeOK, PoolTypeOK
<1>2. /\ \A i, j \in Q : i = j
      /\ \A v, w \in W : v = w
      /\ \A i, j \in Published(k) : i = j
  BY <1>1 DEF PendInv, Distinct, BuiltOnce, Builders, StagedOnce, Published
<1>3. /\ Q # {} <=> k \in KeysOf(pipe_queue)
      /\ W # {} <=> k \in BuiltKeys
      /\ Published(k) # {} <=> k \in StagedKeys
  <2>1. Q # {} <=> k \in KeysOf(pipe_queue)
    BY <1>1 DEF KeysOf
  <2>2. W # {} <=> k \in BuiltKeys
    BY DEF BuiltKeys, Builders
  <2>3. Published(k) # {} <=> k \in StagedKeys
    BY <1>1 DEF Published, StagedKeys, Staged
  <2> QED
    BY <2>1, <2>2, <2>3
<1> HIDE DEF Q, W
<1>4. /\ Cardinality(Q) = IF Q = {} THEN 0 ELSE 1
      /\ Cardinality(W) = IF W = {} THEN 0 ELSE 1
      /\ Cardinality(Published(k)) = IF Published(k) = {} THEN 0 ELSE 1
  BY <1>2, OneOrNone
<1>5. Pending(k) = Cardinality(Q) + Cardinality(W) + Cardinality(Published(k))
  BY DEF Pending, Q, W
<1>6. /\ k \in pipe_inflight <=> Q # {} \/ W # {} \/ Published(k) # {}
      /\ Q = {} \/ W = {}
      /\ Q = {} \/ Published(k) = {}
      /\ W = {} \/ Published(k) = {}
  BY <1>3 DEF PendInv
<1> QED
  BY <1>4, <1>5, <1>6

LEMMA PlaceCounts == TypeOK /\ PendInv /\ HandleInv => HandleAccounting
<1> SUFFICES ASSUME TypeOK, PendInv, HandleInv, NEW k \in Keys, NEW n \in 1 .. builds[k]
             PROVE  Places(k, n) = 1
  BY DEF HandleAccounting
<1> DEFINE P == {i \in Published(k) : pipe_done[i].pipe = n}
<1>1. builds[k] \in Nat /\ n \in Handles /\ n <= builds[k]
  BY DEF TypeOK, PoolTypeOK, Handles
<1>2. /\ pipelines[k] = n \/ Entry(k, n) \in Staged \/ Entry(k, n) \in destroyed
      /\ ~(pipelines[k] = n /\ Entry(k, n) \in Staged)
      /\ ~(pipelines[k] = n /\ Entry(k, n) \in destroyed)
      /\ ~(Entry(k, n) \in Staged /\ Entry(k, n) \in destroyed)
  BY <1>1 DEF HandleInv
<1>3. DOMAIN pipe_done = 1 .. Len(pipe_done) /\ Staged \subseteq Entries
  BY StagedTypes DEF TypeOK
<1>4. \A i, j \in P : i = j
  BY <1>3 DEF PendInv, StagedOnce, Published
<1>5. P # {} <=> Entry(k, n) \in Staged
  <2>1. ASSUME NEW i \in 1 .. Len(pipe_done)
        PROVE  pipe_done[i] = Entry(k, n) <=> pipe_done[i].key = k /\ pipe_done[i].pipe = n
    <3>1. pipe_done[i] \in Entries
      BY <1>3 DEF Staged
    <3> QED
      BY <3>1 DEF Entries, Entry
  <2> QED
    BY <1>3, <2>1 DEF Staged, Published
<1> HIDE DEF P
<1>6. Cardinality(P) = IF P = {} THEN 0 ELSE 1
  BY <1>4, OneOrNone
<1>7. Places(k, n) = (IF pipelines[k] = n THEN 1 ELSE 0) + Cardinality(P)
                       + (IF Entry(k, n) \in destroyed THEN 1 ELSE 0)
  BY DEF Places, P, Entry
<1> QED
  BY <1>2, <1>5, <1>6, <1>7

-----------------------------------------------------------------------------
(* The pool implements PipelinePromise: what queue, workers and replay do  *)
(* between a question and its answer are none of its steps.                *)

LEMMA AnswersAre ==
  ASSUME PoolTypeOK
  PROVE  Answers = Staged /\ Pool!Answered = StagedKeys
  BY StagedTypes DEF Answers, Staged, Pool!Answered, StagedKeys

LEMMA PoolSame ==
  ASSUME UNCHANGED <<pipe_inflight, pipe_done, pipelines, builds, destroyed>>
  PROVE  UNCHANGED Pool!vars
  BY DEF Pool!vars, Answers

\* A request that is queued asks; one that is in flight already asks nothing.
LEMMA EnqueueAsks ==
  ASSUME PoolTypeOK, NEW d \in Draws, NEW p \in BOOLEAN, Enqueue(d, p),
         UNCHANGED <<pipe_done, pipelines, builds, destroyed>>
  PROVE  [Pool!Next]_(Pool!vars)
<1>1. CASE KeyOf(d) \in pipe_inflight
  BY <1>1, PoolSame DEF Enqueue, poolVars
<1>2. CASE KeyOf(d) \notin pipe_inflight
  <2>1. Pool!Ask(KeyOf(d))
    BY <1>2 DEF Enqueue, Pool!Ask, Answers
  <2> QED
    BY <2>1, KeyType DEF Pool!Next
<1> QED
  BY <1>1, <1>2

\* A build answers: its key is in flight, and nothing was published for it.
LEMMA BuildAnswers ==
  ASSUME PoolTypeOK, PendInv, NEW w \in Workers, WorkerBuild(w)
  PROVE  Pool!Next
<1> DEFINE k == KeyOf(wreq[w])
<1>1. PICK ok \in BOOLEAN :
         /\ wpc[w] = "build"
         /\ pipe_done' = Append(pipe_done, Entry(k, IF ok THEN builds[k] + 1 ELSE Null))
         /\ builds' = IF ok THEN [builds EXCEPT ![k] = builds[k] + 1] ELSE builds
         /\ UNCHANGED <<pipe_inflight, pipelines, destroyed>>
  BY DEF WorkerBuild, Entry
<1>2. /\ w \in Builders /\ k \in Keys /\ pipe_done \in Seq(Entries) /\ builds \in [Keys -> Nat]
  BY <1>1, StagedTypes DEF PoolTypeOK, Builders, Entries
<1>3. k \in BuiltKeys
  BY <1>2 DEF BuiltKeys
<1> HIDE DEF k
<1> DEFINE p == IF ok THEN builds[k] + 1 ELSE Null
           e == Entry(k, p)
<1>4. p \in Pool!Outcomes(k) /\ p \in Nat /\ Pool!Make(k, p)
  <2>1. builds[k] + 1 \in Nat /\ builds[k] + 1 # Null /\ Null \in Nat
    BY <1>2 DEF Null
  <2>2. CASE ok
    BY <1>1, <2>1, <2>2 DEF Pool!Outcomes, Pool!Make
  <2>3. CASE ~ok
    BY <1>1, <2>1, <2>3 DEF Pool!Outcomes, Pool!Make
  <2> QED
    BY <2>2, <2>3
<1> HIDE DEF p
<1>5. e \in Entries /\ pipe_done' = Append(pipe_done, e)
  BY <1>1, <1>2, <1>4 DEF Entry, Entries, p
<1> HIDE DEF e
<1>6. /\ Len(pipe_done) \in Nat /\ Len(pipe_done') = Len(pipe_done) + 1 /\ DOMAIN pipe_done' = 1 .. Len(pipe_done')
      /\ pipe_done'[Len(pipe_done) + 1] = e /\ \A i \in 1 .. Len(pipe_done) : pipe_done'[i] = pipe_done[i]
  BY <1>2, <1>5
<1>7. Answers' = Answers \cup {e}
  BY <1>2, <1>6 DEF Answers
<1>8. k \in pipe_inflight /\ k \notin StagedKeys
  BY <1>3 DEF PendInv
<1>9. Pool!Answer(k, p)
  BY <1>1, <1>4, <1>7, <1>8, AnswersAre DEF Pool!Answer, Entry, e
<1> QED
  BY <1>2, <1>4, <1>9 DEF Pool!Next

\* The drain adopts; what it destroys are the handles whose place was taken.
LEMMA AdoptAdopts ==
  ASSUME PoolTypeOK, PendInv, HandleInv, Adopt
  PROVE  Pool!Next
<1>1. /\ pipelines' = [k \in Keys |-> Adopted(k)] /\ pipe_done' = <<>> /\ builds' = builds
      /\ destroyed' = destroyed \cup {pipe_done[i] : i \in {j \in DOMAIN pipe_done : Redundant(pipe_done[j])}}
      /\ pipe_inflight' = pipe_inflight \ {pipe_done[i].key : i \in DOMAIN pipe_done}
  BY DEF Adopt
<1>2. /\ StagedOnce /\ Answers = Staged /\ Pool!Answered = StagedKeys
      /\ Staged \subseteq Entries /\ StagedKeys \subseteq Keys
  BY AnswersAre, StagedTypes DEF PendInv
<1>3. \A k \in Keys : pipelines[k] \in Nat \cup {None} /\ None \notin Nat
  BY PipelineBuilderAssumption DEF PoolTypeOK, Pipe
<1>4. \A k \in Keys : Pool!Empty(k) <=> pipelines[k] \notin Handles
  BY <1>3 DEF Pool!Empty, Handles, Null
<1>5. ASSUME NEW k \in Keys
      PROVE  Adopted(k) = IF Pool!Empty(k) /\ k \in Pool!Answered THEN (CHOOSE e \in Answers : e.key = k).pipe
                          ELSE pipelines[k]
  <2>1. CASE Pool!Empty(k) /\ k \in StagedKeys
    <3>1. \E e \in Staged : e.key = k
      BY <2>1 DEF StagedKeys
    <3>2. (CHOOSE e \in Staged : e.key = k) \in Staged /\ (CHOOSE e \in Staged : e.key = k).key = k
      BY <3>1
    <3> QED
      BY <1>2, <1>4, <2>1, <3>2, AdoptedIs
  <2>2. CASE ~(Pool!Empty(k) /\ k \in StagedKeys)
    BY <1>2, <1>4, <2>2, AdoptedIs
  <2> QED
    BY <1>2, <2>1, <2>2
<1>6. destroyed' = destroyed \cup {e \in Staged : Redundant(e)}
  BY <1>1, StagedTypes DEF Staged
<1>7. ASSUME NEW e \in Staged PROVE Redundant(e) <=> ~Pool!Empty(e.key) /\ e.pipe # Null
  <2>1. e.key \in Keys /\ e.pipe \in Nat /\ e = Entry(e.key, e.pipe)
    BY <1>2 DEF Entries, Entry
  <2>2. CASE pipelines[e.key] \notin Handles
    BY <1>4, <2>1, <2>2, <1>2, AdoptedIs DEF Redundant
  <2>3. CASE pipelines[e.key] \in Handles
    <3>1. Adopted(e.key) = pipelines[e.key]
      BY <1>2, <2>1, <2>3, AdoptedIs
    <3>2. e.pipe # pipelines[e.key]
      BY <2>1, <2>3 DEF HandleInv
    <3> QED
      BY <1>4, <2>1, <2>3, <3>1, <3>2 DEF Redundant
  <2> QED
    BY <2>2, <2>3
<1>8. Answers' = {} /\ {pipe_done[i].key : i \in DOMAIN pipe_done} = Pool!Answered
  BY <1>1 DEF Answers, Pool!Answered
<1>9. Pool!Adopt
  <2>1. pipelines' = [k \in Keys |-> IF Pool!Empty(k) /\ k \in Pool!Answered THEN (CHOOSE e \in Answers : e.key = k).pipe
                                     ELSE pipelines[k]]
    BY <1>1, <1>5
  <2>2. destroyed' = destroyed \cup {e \in Answers : ~Pool!Empty(e.key) /\ e.pipe # Null}
    BY <1>2, <1>6, <1>7
  <2> QED
    BY <1>1, <1>8, <2>1, <2>2 DEF Pool!Adopt
<1> QED
  BY <1>9 DEF Pool!Next

LEMMA DrawFills ==
  ASSUME PoolTypeOK, NEW d \in Draws, Draw(d)
  PROVE  [Pool!Next]_(Pool!vars)
<1> DEFINE k == KeyOf(d)
<1>1. /\ k \in Keys /\ pipelines[k] = None /\ UNCHANGED <<pipe_done, destroyed>>
      /\ builds \in [Keys -> Nat] /\ Answers' = Answers
  BY KeyType DEF Draw, restVars, PoolTypeOK, Answers
<1>2. CASE DrawRequest(d)
  BY <1>1, <1>2, EnqueueAsks DEF DrawRequest
<1>3. CASE DrawBlacklisted(d) \/ DrawInline(d)
  <2>1. PICK p \in Pool!Outcomes(k) : /\ pipelines' = [pipelines EXCEPT ![k] = p]
                                      /\ Pool!Make(k, p) /\ pipe_inflight' = pipe_inflight
    <3>1. CASE DrawBlacklisted(d)
      BY <3>1 DEF DrawBlacklisted, Pool!Outcomes, Pool!Make, poolVars
    <3>2. CASE DrawInline(d)
      <4>1. PICK ok \in BOOLEAN : LET q == IF ok THEN builds[k] + 1 ELSE Null
                                  IN /\ pipelines' = [pipelines EXCEPT ![k] = q]
                                     /\ builds' = IF ok THEN [builds EXCEPT ![k] = q] ELSE builds
        BY <3>2 DEF DrawInline
      <4>2. builds[k] + 1 # Null
        BY <1>1 DEF Null
      <4> QED
        BY <3>2, <4>1, <4>2 DEF DrawInline, Pool!Outcomes, Pool!Make, poolVars
    <3> QED
      BY <1>3, <3>1, <3>2
  <2>2. Pool!Fill(k, p)
    BY <1>1, <2>1 DEF Pool!Fill
  <2> QED
    BY <1>1, <2>2 DEF Pool!Next
<1> QED
  BY <1>2, <1>3 DEF Draw

LEMMA PoolStep ==
  ASSUME TypeOK, PendInv, HandleInv, [Next]_vars
  PROVE  [Pool!Next]_(Pool!vars)
<1> USE DEF TypeOK
<1>1. ASSUME NEW w \in Workers, WorkerTake(w) PROVE UNCHANGED Pool!vars
  BY <1>1, PoolSame DEF WorkerTake, pipeVars
<1>2. CASE ReplayRequest
  <2>1. UNCHANGED <<pipe_done, pipelines, builds, destroyed>>
    BY <1>2 DEF ReplayRequest, pipeVars, restVars
  <2>2. CASE Replayable(rec)
    <3>1. rec \in Draws /\ Enqueue(rec, TRUE)
      BY <1>2, <2>2 DEF ReplayRequest, RecordTypeOK
    <3> QED
      BY <2>1, <3>1, EnqueueAsks
  <2>3. CASE ~Replayable(rec)
    BY <1>2, <2>1, <2>3, PoolSame DEF ReplayRequest, poolVars
  <2> QED
    BY <2>2, <2>3
<1>3. Boot => Pool!Restart
  BY DEF Boot, Pool!Restart, Answers
<1>4. CASE UNCHANGED <<pipe_inflight, pipe_queue, wreq, pipe_done, pipelines, builds, destroyed>>
  BY <1>4, PoolSame
<1> QED
  BY <1>1, <1>2, <1>3, <1>4, BuildAnswers, AdoptAdopts, DrawFills, OtherSteps DEF Pool!Next

\* Each key in flight has one request that will be adopted, each handle has one
\* place, the map never loses a live pipeline, and requests, workers and the drain
\* together answer each question once (GetOrCreateTranslatedPipeline,
\* PipelineWorker and the drain of PrepareTranslatedDraws).
THEOREM PipelinesKept == Spec => PipelinesAreKept
<1>1. TypeOK /\ PendInv /\ HandleInv => InflightIsPending /\ HandleAccounting
  BY PendingCounts, PlaceCounts
<1>2. TypeOK /\ PendInv /\ HandleInv /\ [Next]_vars
        => [\A k \in Keys : pipelines[k] \notin {None, Null} /\ boots' = boots
                              => pipelines'[k] = pipelines[k]]_vars
  <2> SUFFICES ASSUME TypeOK, PendInv, [Next]_vars, boots' = boots, NEW k \in Keys, pipelines[k] \notin {None, Null}
               PROVE  pipelines'[k] = pipelines[k]
    OBVIOUS
  <2>1. pipelines \in [Keys -> Pipe] /\ boots \in Nat
    BY DEF TypeOK, PoolTypeOK, ThreadTypeOK, FlagTypeOK
  <2>2. ~Boot
    BY <2>1 DEF Boot
  <2>3. CASE Adopt
    <3>1. pipelines[k] \in Handles /\ StagedOnce
      BY <2>1 DEF Pipe, Handles, Null, PendInv
    <3> QED
      BY <2>3, <3>1, AdoptedIs DEF Adopt, TypeOK
  <2>4. ASSUME NEW d \in Draws, Draw(d) PROVE pipelines'[k] = pipelines[k]
    <3>1. KeyOf(d) # k
      BY <2>4 DEF Draw
    <3> QED
      BY <2>1, <2>4, <3>1 DEF Draw, DrawBlacklisted, DrawInline, DrawRequest
  <2>5. ASSUME (\E w \in Workers : WorkerTake(w) \/ WorkerBuild(w)) \/ ReplayRequest PROVE pipelines'[k] = pipelines[k]
    BY <2>5 DEF WorkerTake, WorkerBuild, ReplayRequest, pipeVars
  <2> QED
    BY <2>2, <2>3, <2>4, <2>5, OtherSteps
<1>3. Init => Pool!Init
  BY DEF Init, Pool!Init, Answers
<1>4. TypeOK /\ PendInv /\ HandleInv /\ [Next]_vars => [Pool!Next]_(Pool!vars)
  BY PoolStep
<1> QED
  BY HandlesInvariance, <1>1, <1>2, <1>3, <1>4, PTL DEF Spec, PipelinesAreKept, NeverClobber, Pool!Spec

-----------------------------------------------------------------------------
(* The warm pass.                                                          *)

Busy  == {w \in Workers : wpc[w] \in {"build", "finish"}}
OnWay(k) == k \in pipe_inflight \/ pipelines[k] # None

\* Every record that can be requested is still to be replayed, or was requested, or is
\* there; pipe_active counts the workers between the queue and the end of a build.
WarmInv ==
  /\ \A d \in prewarm_log : Replayable(d) => d \in todo \/ (rpc = "request" /\ rec = d) \/ OnWay(KeyOf(d))
  /\ enqueue_done => todo = {} /\ rpc \notin {"off", "check", "request"}
  /\ rpc = "off" => todo = {}
  /\ ppc = "start" => rpc = "off"
  /\ pipe_active = Cardinality(Busy)

LEMMA BusyCounts ==
  /\ IsFiniteSet(Busy) /\ Cardinality(Busy) \in Nat
  /\ \A w \in Workers \ Busy : Cardinality(Busy \cup {w}) = Cardinality(Busy) + 1
  /\ \A w \in Busy : Cardinality(Busy) > 0 /\ Cardinality(Busy \ {w}) = Cardinality(Busy) - 1
<1>1. IsFiniteSet(Busy)
  BY PipelineBuilderAssumption, FS_Subset DEF Busy
<1>2. Cardinality(Busy) \in Nat
  BY <1>1, FS_CardinalityType
<1>3. ASSUME NEW w \in Workers \ Busy PROVE Cardinality(Busy \cup {w}) = Cardinality(Busy) + 1
  BY <1>1, FS_AddElement
<1>4. ASSUME NEW w \in Busy PROVE Cardinality(Busy) > 0 /\ Cardinality(Busy \ {w}) = Cardinality(Busy) - 1
  <2>1. Cardinality(Busy \ {w}) = Cardinality(Busy) - 1
    BY <1>1, FS_RemoveElement
  <2>2. Cardinality(Busy) # 0
    BY <1>1, FS_EmptySet
  <2> QED
    BY <1>2, <2>1, <2>2
<1> QED
  BY <1>1, <1>2, <1>3, <1>4

\* A request puts its key on the way.
LEMMA EnqueueWarm ==
  ASSUME PoolTypeOK, NEW d \in Draws, NEW p \in BOOLEAN, Enqueue(d, p)
  PROVE  /\ KeyOf(d) \in pipe_inflight' /\ pipe_inflight \subseteq pipe_inflight'
         /\ prewarm_log' \subseteq prewarm_log \cup {d}
         /\ Busy' = Busy
<1>1. CASE KeyOf(d) \in pipe_inflight
  BY <1>1 DEF Enqueue, poolVars, logVars, Busy
<1>2. CASE KeyOf(d) \notin pipe_inflight
  <2>1. prewarm_log' \subseteq prewarm_log \cup {d}
    BY <1>2 DEF Enqueue, Record, logVars
  <2>2. Busy' = Busy
    BY <1>2 DEF Enqueue, NotifyOne, Busy, PoolTypeOK
  <2> QED
    BY <1>2, <2>1, <2>2 DEF Enqueue
<1> QED
  BY <1>1, <1>2

\* The replay: what is left of the records, and what they become.
LEMMA ReplayWarm ==
  ASSUME TypeOK, WarmInv, ReplayStep \/ StartPrewarm
  PROVE  WarmInv'
<1> USE DEF poolVars, logVars, pipeVars, restVars, procVars, TypeOK
<1>1. CASE StartPrewarm
  <2>1. /\ ppc = "start" /\ ppc' # "start" /\ UNCHANGED <<pipe_inflight, pipelines, pipe_active, wpc, enqueue_done, rec>>
        /\ \/ UNCHANGED <<prewarm_log, rpc, todo>>
           \/ prewarm_log' = prewarm_log \cup manifest /\ rpc' = "check" /\ todo' = manifest
    BY <1>1 DEF StartPrewarm, IgnoreManifest, LoadManifest, Seeded
  <2>2. rpc = "off" /\ todo = {} /\ ~enqueue_done
    BY <2>1 DEF WarmInv
  <2> QED
    BY <2>1, <2>2 DEF WarmInv, OnWay, Busy
<1>2. CASE ReplayNext
  <2>1. /\ UNCHANGED <<pipe_inflight, pipelines, pipe_active, wpc, enqueue_done, prewarm_log, ppc>>
        /\ rpc = "check" /\ rpc' \in {"end", "request"}
        /\ \/ UNCHANGED todo
           \/ \E d \in todo : rec' = d /\ todo' = todo \ {d} /\ rpc' = "request"
    BY <1>2 DEF ReplayNext
  <2> QED
    BY <2>1 DEF WarmInv, OnWay, Busy
<1>3. CASE ReplayRequest
  <2>1. /\ UNCHANGED <<pipelines, pipe_active, enqueue_done, todo, ppc>>
        /\ rpc = "request" /\ rpc' = "check" /\ rec \in Draws
    BY <1>3 DEF ReplayRequest, RecordTypeOK
  <2>2. CASE Replayable(rec)
    <3>1. /\ KeyOf(rec) \in pipe_inflight' /\ pipe_inflight \subseteq pipe_inflight'
          /\ prewarm_log' \subseteq prewarm_log \cup {rec} /\ Busy' = Busy
      BY <1>3, <2>1, <2>2, EnqueueWarm DEF ReplayRequest
    <3> QED
      BY <2>1, <3>1 DEF WarmInv, OnWay
  <2>3. CASE ~Replayable(rec)
    <3>1. UNCHANGED <<pipe_inflight, prewarm_log, wpc>>
      BY <1>3, <2>3 DEF ReplayRequest
    <3> QED
      BY <2>1, <2>3, <3>1 DEF WarmInv, OnWay, Busy
  <2> QED
    BY <2>2, <2>3
<1>4. CASE ReplayFinish
  <2>1. /\ UNCHANGED <<pipe_inflight, pipelines, pipe_active, wpc, prewarm_log, todo>>
        /\ rpc = "check" /\ rpc' \in {"end", "idle"} /\ todo = {} /\ (ppc' = "start" => ppc = "start")
    BY <1>4 DEF ReplayFinish
  <2> QED
    BY <2>1 DEF WarmInv, OnWay, Busy
<1>5. CASE ReplayWait \/ ReplayExit
  <2>1. /\ UNCHANGED <<pipe_inflight, pipelines, pipe_active, wpc, prewarm_log, todo, enqueue_done, ppc>>
        /\ rpc \in {"idle", "flush"} /\ rpc' \in {"flush", "idleAsleep"}
    BY <1>5 DEF ReplayWait, ReplayExit, replayVars
  <2> QED
    BY <2>1 DEF WarmInv, OnWay, Busy
<1> QED
  BY <1>1, <1>2, <1>3, <1>4, <1>5 DEF ReplayStep

LEMMA WorkerWarm ==
  ASSUME TypeOK, WarmInv, NEW w \in Workers, WorkerStep(w)
  PROVE  WarmInv'
<1> USE DEF poolVars, logVars, pipeVars, restVars, replayVars, procVars
<1>1. /\ UNCHANGED <<pipe_inflight, pipelines, prewarm_log, todo, rec, enqueue_done>>
      /\ ppc' = "start" => ppc = "start"
      /\ rpc' = rpc \/ (rpc = "idleAsleep" /\ rpc' = "idle")
  BY DEF WorkerStep, WorkerTake, WorkerSleep, WorkerExit, WorkerBuild, WorkerFinish, IdleNotified
<1>2. pipe_active' = Cardinality(Busy)'
  <2>0. wpc \in [Workers -> {"awake", "asleep", "build", "finish", "exited"}] /\ pipe_active = Cardinality(Busy)
    BY DEF TypeOK, PoolTypeOK, WarmInv
  <2>1. CASE WorkerTake(w)
    <3>1. Busy' = Busy \cup {w} /\ w \notin Busy /\ pipe_active' = pipe_active + 1
      BY <2>0, <2>1 DEF WorkerTake, Busy
    <3> QED
      BY <2>0, <3>1, BusyCounts
  <2>2. CASE WorkerSleep(w) \/ WorkerExit(w) \/ WorkerBuild(w)
    <3>1. Busy' = Busy /\ pipe_active' = pipe_active
      BY <2>0, <2>2 DEF WorkerSleep, WorkerExit, WorkerBuild, Busy
    <3> QED
      BY <2>0, <3>1
  <2>3. CASE WorkerFinish(w)
    <3>1. Busy' = Busy \ {w} /\ w \in Busy /\ pipe_active' = IF pipe_active > 0 THEN pipe_active - 1 ELSE 0
      BY <2>0, <2>3 DEF WorkerFinish, Busy
    <3> QED
      BY <2>0, <3>1, BusyCounts
  <2> QED
    BY <2>1, <2>2, <2>3 DEF WorkerStep
<1> QED
  BY <1>1, <1>2 DEF WarmInv, OnWay

\* What the drain takes out of flight is in the map.
LEMMA AdoptWarm ==
  ASSUME TypeOK, PendInv, WarmInv, Adopt
  PROVE  WarmInv'
<1>1. /\ pipelines' = [k \in Keys |-> Adopted(k)] /\ ppc = "adopt" /\ ppc' = "draw"
      /\ pipe_inflight' = pipe_inflight \ {pipe_done[i].key : i \in DOMAIN pipe_done}
      /\ UNCHANGED <<wpc, prewarm_log, pipe_active, enqueue_done, rpc, todo, rec>>
  BY DEF Adopt, logVars, replayVars
<1>2. ASSUME NEW k \in Keys, OnWay(k) PROVE OnWay(k)'
  <2>1. pipelines[k] \in Nat \cup {None} /\ None \notin Nat /\ Staged \subseteq Entries /\ StagedOnce
    BY StagedTypes, PipelineBuilderAssumption DEF TypeOK, PoolTypeOK, Pipe, PendInv
  <2>2. DOMAIN pipe_done = 1 .. Len(pipe_done)
    BY StagedTypes DEF TypeOK
  <2>3. CASE k \in StagedKeys /\ pipelines[k] \notin Handles
    <3>1. PICK e \in Staged : e.key = k
      BY <2>3 DEF StagedKeys
    <3>2. Adopted(k) = e.pipe /\ e.pipe \in Nat
      BY <2>1, <2>3, <3>1, AdoptedIs DEF TypeOK, Entries
    <3> QED
      BY <1>1, <2>1, <3>2 DEF OnWay
  <2>4. CASE pipelines[k] \in Handles \/ k \notin StagedKeys
    <3>1. Adopted(k) = pipelines[k]
      BY <2>1, <2>4, AdoptedIs DEF TypeOK
    <3>2. CASE pipelines[k] # None
      BY <1>1, <3>1, <3>2 DEF OnWay
    <3>3. CASE pipelines[k] = None
      <4>1. k \in pipe_inflight /\ k \notin StagedKeys
        BY <1>2, <2>1, <2>4, <3>3 DEF OnWay, Handles
      <4>2. k \in pipe_inflight'
        BY <1>1, <2>2, <4>1 DEF StagedKeys, Staged
      <4> QED
        BY <4>2 DEF OnWay
    <3> QED
      BY <3>2, <3>3
  <2> QED
    BY <2>3, <2>4
<1>3. \A d \in prewarm_log : KeyOf(d) \in Keys
  BY KeyType DEF TypeOK, RecordTypeOK
<1> QED
  BY <1>1, <1>2, <1>3 DEF WarmInv, Busy

LEMMA DrawWarm ==
  ASSUME TypeOK, WarmInv, NEW d \in Draws, Draw(d)
  PROVE  WarmInv'
<1>1. /\ ppc' = ppc /\ UNCHANGED <<pipe_active, enqueue_done, rpc, todo, rec>> /\ KeyOf(d) \in Keys
  BY KeyType DEF Draw, restVars, replayVars
<1>2. CASE DrawRequest(d)
  <2>1. /\ KeyOf(d) \in pipe_inflight' /\ pipe_inflight \subseteq pipe_inflight' /\ pipelines' = pipelines
        /\ prewarm_log' \subseteq prewarm_log \cup {d} /\ Busy' = Busy
    BY <1>2, EnqueueWarm DEF DrawRequest, TypeOK
  <2> QED
    BY <1>1, <2>1 DEF WarmInv, OnWay
<1>3. CASE DrawBlacklisted(d) \/ DrawInline(d)
  <2>1. UNCHANGED <<pipe_inflight, prewarm_log, wpc>>
    BY <1>3 DEF DrawBlacklisted, DrawInline, poolVars, logVars
  <2>2. pipelines \in [Keys -> Pipe] /\ builds \in [Keys -> Nat] /\ None \notin Nat
    BY PipelineBuilderAssumption DEF TypeOK, PoolTypeOK
  <2>3. \A k \in Keys : pipelines[k] # None => pipelines'[k] # None
    BY <1>1, <1>3, <2>2 DEF DrawBlacklisted, DrawInline, Null
  <2>4. \A e \in prewarm_log : KeyOf(e) \in Keys
    BY KeyType DEF TypeOK, RecordTypeOK
  <2> QED
    BY <1>1, <2>1, <2>3, <2>4 DEF WarmInv, OnWay, Busy
<1> QED
  BY <1>2, <1>3 DEF Draw

LEMMA RestWarm ==
  ASSUME TypeOK, WarmInv,
         \/ WarmWait \/ WarmTimeout \/ WarmFlush \/ SaveSnapshot \/ SaveHandoff \/ SaveRestore
         \/ EndFrame(LoopHead) \/ EndFrame("save") \/ StopEarly \/ WriterDone
         \/ ShutdownStop \/ ShutdownStep \/ ShutdownExit \/ UNCHANGED vars
  PROVE  WarmInv'
<1> USE DEF poolVars, logVars, pipeVars, restVars, replayVars, procVars, bootVars
<1>1. /\ UNCHANGED <<pipe_inflight, pipelines, prewarm_log, todo, rec, rpc, enqueue_done, pipe_active>>
      /\ ppc' = "start" => ppc = "start"
      /\ UNCHANGED wpc \/ ShutdownQuit
  BY DEF WarmWait, WarmTimeout, WarmFlush, SaveSnapshot, SaveHandoff, SaveRestore, EndFrame, LoopHead, StopEarly,
         WriterDone, ShutdownStop, ShutdownStep, ShutdownQuit, ShutdownSave, ShutdownClaim, ShutdownWrite,
         ShutdownExit, vars
<1>2. Busy' = Busy
  BY <1>1 DEF Busy, ShutdownQuit, Woken, TypeOK, PoolTypeOK
<1> QED
  BY <1>1, <1>2 DEF WarmInv, OnWay

LEMMA WarmStarts ==
  ASSUME prewarm_log = {}, enqueue_done = FALSE, todo = {}, rpc = "off", pipe_active = 0,
         wpc = [w \in Workers |-> "awake"]
  PROVE  WarmInv
<1>1. Busy = {}
  BY DEF Busy
<1> QED
  BY <1>1, FS_EmptySet DEF WarmInv

LEMMA WarmStep ==
  ASSUME TypeOK, PendInv, WarmInv, [Next]_vars
  PROVE  WarmInv'
<1>1. CASE Boot
  <2>1. /\ prewarm_log' = {} /\ enqueue_done' = FALSE /\ todo' = {} /\ rpc' = "off" /\ pipe_active' = 0
        /\ wpc' = [w \in Workers |-> "awake"]
    BY <1>1 DEF Boot
  <2>2. Busy' = {}
    BY <2>1 DEF Busy
  <2> QED
    BY <2>1, <2>2, FS_EmptySet DEF WarmInv
<1> QED
  BY <1>1, ReplayWarm, WorkerWarm, AdoptWarm, DrawWarm, RestWarm DEF Next, PresentStep, FrameStep, Terminated

\* With nothing queued and no worker at work, what is in flight is published.
LEMMA WarmEnds ==
  ASSUME TypeOK, PendInv, WarmInv, WarmOver, ~pipe_quit, NEW d \in prewarm_log, Replayable(d)
  PROVE  Landed(KeyOf(d))
<1>1. enqueue_done /\ pipe_queue = <<>> /\ pipe_active = 0
  BY DEF WarmOver
<1>2. OnWay(KeyOf(d))
  BY <1>1 DEF WarmInv
<1>3. Busy = {}
  BY <1>1, BusyCounts DEF WarmInv
<1>4. BuiltKeys = {}
  BY <1>3 DEF BuiltKeys, Builders, Busy, TypeOK, PoolTypeOK
<1>5. KeysOf(pipe_queue) = {}
  BY <1>1 DEF KeysOf
<1>6. KeyOf(d) \in StagedKeys => Published(KeyOf(d)) # {}
  BY StagedTypes DEF StagedKeys, Staged, Published, TypeOK
<1> QED
  BY <1>2, <1>4, <1>5, <1>6 DEF OnWay, Landed, PendInv

\* When the pass that warms up reports its end, every record it could request is built:
\* none is in the replay's hands, in the queue, with a worker or between two of these.
THEOREM WarmCompletes == Spec => WarmIsComplete
<1>1. Init => WarmInv
  BY WarmStarts DEF Init
<1>2. TypeOK /\ PendInv /\ WarmInv /\ [Next]_vars => WarmInv'
  BY WarmStep
<1>3. TypeOK /\ PendInv /\ WarmInv /\ [Next]_vars
        => [~pipe_quit /\ "flush" \notin {ppc, rpc} /\ "flush" \in {ppc', rpc'}
              => \A d \in prewarm_log : Replayable(d) => Landed(KeyOf(d))]_vars
  <2> SUFFICES ASSUME TypeOK, PendInv, WarmInv, [Next]_vars, ~pipe_quit, "flush" \notin {ppc, rpc},
                      "flush" \in {ppc', rpc'}
               PROVE  \A d \in prewarm_log : Replayable(d) => Landed(KeyOf(d))
    OBVIOUS
  <2>1. WarmOver
    <3> USE DEF replayVars
    <3>1. ASSUME NEW w \in Workers, WorkerStep(w) PROVE FALSE
      BY <3>1 DEF WorkerStep, WorkerTake, WorkerSleep, WorkerExit, WorkerBuild, WorkerFinish, IdleNotified
    <3>2. ReplayStep => WarmOver
      BY DEF ReplayStep, ReplayNext, ReplayRequest, ReplayFinish, ReplayWait, ReplayExit
    <3>3. PresentStep => WarmOver
      BY DEF PresentStep, StartPrewarm, IgnoreManifest, LoadManifest, WarmWait, WarmTimeout, WarmFlush, FrameStep, Adopt, SaveSnapshot, SaveHandoff,
             SaveRestore, EndFrame, LoopHead, StopEarly
    <3>4. ~((\E d \in Draws : Draw(d)) \/ EndFrame("save") \/ WriterDone)
      BY DEF Draw, EndFrame, WriterDone
    <3>5. ~(ShutdownStop \/ ShutdownStep \/ ShutdownExit \/ Boot \/ UNCHANGED vars)
      BY DEF ShutdownStop, ShutdownStep, ShutdownQuit, ShutdownSave, ShutdownClaim, ShutdownWrite, ShutdownExit, Boot,
             vars
    <3> QED
      BY <3>1, <3>2, <3>3, <3>4, <3>5 DEF Next, Terminated
  <2> QED
    BY <2>1, WarmEnds
<1> QED
  BY HandlesInvariance, <1>1, <1>2, <1>3, PTL DEF Spec, WarmIsComplete
=============================================================================
