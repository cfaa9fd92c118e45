--------------------------- MODULE TexturesProofs ---------------------------
(***************************************************************************)
(* What TLAPS proves of Textures, for any hashes, addresses, files and     *)
(* bounds: its types, the gate that one atomic load makes of two           *)
(* generations, that no request is forgotten, and which pixels are right.  *)
(***************************************************************************)
EXTENDS Textures, TLAPS

Bumping == lpc \in {"revert_bump", "diff_bump"}

\* No stamp is ahead of the global generation.
StampInv ==
  /\ \A k \in Keys : textures[k] # None => textures[k].mod_gen <= g_mod_gen
  /\ mod_gen <= g_mod_gen

\* What GateIsSound says of entries, said of the entry that is being uploaded.
UploadInv == ppc = "upload" /\ mod_gen = g_mod_gen /\ hash_gen # g_hash_gen[hash] => Bumping

IInv == TypeOK /\ StampInv /\ UploadInv /\ GateIsSound /\ PendingIsServed

-----------------------------------------------------------------------------
(* Types.                                                                  *)

LEMMA NothingIsNone ==
  /\ \A h \in Hashes : h # None
  /\ \A e \in Entries : e # None
  /\ \A p \in Pixels : p # None
  BY TexturesAssumption DEF Entries

LEMMA InitTypes == Init => TypeOK
<1> SUFFICES ASSUME Init PROVE TypeOK
  OBVIOUS
<1>1. 0 \in Pixels /\ NoFiles \in [Hashes -> Times \cup {0}]
  BY DEF Pixels, NoFiles
<1>2. <<>> \in Seq(Hashes)
  OBVIOUS
<1> QED
  BY <1>1, <1>2, TexturesAssumption DEF Init, TypeOK

LEMMA ChangeTypes ==
  ASSUME TypeOK, NEW h \in Hashes, NEW e \in Exts, NEW file \in Files \cup {NoFile}, Change(h, e, file)
  PROVE  TypeOK'
<1>1. disk' \in [Hashes -> [Exts -> Files \cup {NoFile}]]
  BY DEF TypeOK, Change
<1>2. last' \in [Hashes -> Exts] /\ unnoted' \subseteq Hashes /\ events' \in Nat
  BY DEF TypeOK, Change, Event
<1> QED
  BY <1>1, <1>2 DEF TypeOK, Change, sharedVars, loaderVars, presentVars, localVars

LEMMA UserTypes ==
  ASSUME TypeOK,
         \/ Save \/ \E h \in Hashes : Remove(h)
         \/ Toggle
         \/ \E k \in Keys, h \in Hashes : Stream(k, h)
  PROVE  TypeOK'
<1> USE DEF sharedVars, historyVars, loaderVars, presentVars, localVars, Event
<1>1. CASE Save
  <2>1. PICK f \in Drops : Change(f.hash, f.ext, [pix |-> f.pix, time |-> f.time])
    BY <1>1 DEF Save
  <2>2. f.hash \in Hashes /\ f.ext \in Exts /\ [pix |-> f.pix, time |-> f.time] \in Files
    BY TexturesAssumption DEF Files
  <2> QED
    BY <2>1, <2>2, ChangeTypes
<1>2. ASSUME NEW h \in Hashes, Remove(h) PROVE TypeOK'
  BY <1>2, ChangeTypes DEF Remove
<1>3. CASE Toggle
  BY <1>3 DEF Toggle, TypeOK
<1>4. ASSUME NEW k \in Keys, NEW h \in Hashes, Stream(k, h) PROVE TypeOK'
  BY <1>4 DEF Stream, TypeOK
<1> QED
  BY <1>1, <1>2, <1>3, <1>4

\* Where there is no file, the guest's own pixels are shown.
LEMMA FileTypes ==
  ASSUME TypeOK, NEW h \in Hashes
  PROVE  Shows(disk[h]) \in Pixels /\ (Written(h) = {} => Shows(disk[h]) = 0)
<1>1. 0 \in Pixels /\ \A e \in Exts : disk[h][e].pix \in Pixels
  BY DEF TypeOK, Files, NoFile, Pixels
<1>2. First(disk[h]) \subseteq Exts /\ \A e \in First(disk[h]) : disk[h][e] # NoFile
  BY TexturesAssumption DEF First
<1>3. First(disk[h]) # {} => (CHOOSE e \in First(disk[h]) : TRUE) \in First(disk[h])
  OBVIOUS
<1>4. Written(h) = {} => First(disk[h]) = {}
  BY <1>2 DEF Written
<1> QED
  BY <1>1, <1>2, <1>3, <1>4 DEF Shows

LEMMA LoaderTypes ==
  ASSUME TypeOK, PollDue \/ Loader
  PROVE  TypeOK'
<1> USE DEF TypeOK, userVars, historyVars, sharedVars, presentVars, localVars
<1>1. 0 \in Times \cup {0}
  OBVIOUS
<1>2. CASE PollDue
  BY <1>2 DEF PollDue, loaderVars
<1>3. CASE Top
  BY <1>3 DEF Top
<1>4. CASE Revert
  BY <1>4 DEF Revert, Invalidated
<1>5. CASE Bump
  BY <1>5 DEF Bump, loaderVars
<1>6. CASE ReadDir
  <2>1. unnoted' \subseteq Hashes /\ cur' \in [Hashes -> Times \cup {0}] /\ events' \in Nat
    BY <1>6 DEF ReadDir, Event
  <2> QED
    BY <1>6, <2>1 DEF ReadDir
<1>7. CASE Diff
  <2>1. g_seen' \in [Hashes -> Times \cup {0}] /\ cur' \in [Hashes -> Times \cup {0}]
    BY <1>1, <1>7 DEF Diff, NoFiles
  <2>2. /\ g_cache' \in [Hashes -> Pixels \cup {None}] /\ g_pending' \subseteq Hashes
        /\ g_queue' \in Seq(Hashes) /\ g_hash_gen' \in [Hashes -> Nat]
    BY <1>7 DEF Diff, Invalidated
  <2> QED
    BY <1>7, <2>1, <2>2 DEF Diff
<1>8. CASE BackToTop
  BY <1>8 DEF BackToTop, loaderVars
<1>9. CASE Take
  BY <1>9 DEF Take
<1>10. CASE Load
  BY <1>10, FileTypes DEF Load
<1>11. CASE Store
  <2>1. loading \in Hashes /\ loaded \in Pixels
    BY <1>11 DEF Store
  <2>2. g_cache' \in [Hashes -> Pixels \cup {None}] /\ g_pending' \subseteq Hashes
    BY <1>11, <2>1 DEF Store
  <2>3. g_hash_gen' \in [Hashes -> Nat] /\ g_mod_gen' \in Nat
    <3>1. CASE loaded = 0
      BY <1>11, <3>1 DEF Store
    <3>2. CASE loaded # 0
      <4>1. /\ g_hash_gen' = [g_hash_gen EXCEPT ![loading] = @ + 1] /\ g_mod_gen' = g_mod_gen + 1
            /\ g_hash_gen \in [Hashes -> Nat] /\ g_mod_gen \in Nat
        BY <1>11, <3>2 DEF Store
      <4> QED
        BY <2>1, <4>1
    <3> QED
      BY <3>1, <3>2
  <2> QED
    BY <1>11, <2>2, <2>3 DEF Store
<1> QED
  BY <1>2, <1>3, <1>4, <1>5, <1>6, <1>7, <1>8, <1>9, <1>10, <1>11 DEF Loader

LEMMA PresentTypes ==
  ASSUME TypeOK, Present \/ \E binds, evicted \in SUBSET Keys : Frame(binds, evicted)
  PROVE  TypeOK'
<1> USE DEF TypeOK, userVars, historyVars, sharedVars, loaderVars, localVars, Returned, Poll
<1>1. 0 \in Pixels
  BY TexturesAssumption DEF Pixels
<1>2. ASSUME NEW binds \in SUBSET Keys, NEW evicted \in SUBSET Keys, Frame(binds, evicted)
      PROVE  TypeOK'
  <2>1. textures' \in [Keys -> Entries \cup {None}] /\ todo' \subseteq Keys
    BY <1>2 DEF Frame, TexEvictSweep
  <2> QED
    BY <1>2, <2>1 DEF Frame
<1>3. ASSUME NEW k \in Keys, Resolve(k) PROVE TypeOK'
  BY <1>1, <1>3 DEF Resolve, Reading, Cached
<1>4. CASE Compare
  <2>1. textures[key] \in Entries
    BY <1>4 DEF Compare
  <2>2. [textures[key] EXCEPT !.mod_gen = mod_gen] \in Entries
    BY <2>1 DEF Entries
  <2> QED
    BY <1>1, <1>4, <2>2 DEF Compare
<1>5. CASE PollFirst
  BY <1>5 DEF PollFirst
<1>6. CASE Find
  <2>1. Found(hash) \in Pixels
    BY <1>1, <1>6 DEF Find, Found
  <2> QED
    BY <1>6, <2>1 DEF Find
<1>7. CASE Upload
  <2>1. Entry \in Entries
    BY <1>7 DEF Upload, Entry, Entries
  <2> QED
    BY <1>1, <1>7, <2>1 DEF Upload
<1> QED
  BY <1>2, <1>3, <1>4, <1>5, <1>6, <1>7 DEF Present

LEMMA TypeStep == TypeOK /\ [Next]_vars => TypeOK'
<1>1. CASE UNCHANGED vars
  BY <1>1 DEF TypeOK, vars, userVars, historyVars, sharedVars, loaderVars, presentVars, localVars
<1> QED
  BY <1>1, UserTypes, LoaderTypes, PresentTypes DEF Next

-----------------------------------------------------------------------------
(* The two generations.                                                    *)

Gates == StampInv /\ UploadInv /\ GateIsSound

\* Whatever leaves the generations and the stamps alone leaves the gate alone, unless
\* it ends the loader's announcement.
LEMMA GateKept ==
  ASSUME TypeOK, Gates,
         UNCHANGED <<g_hash_gen, g_mod_gen, textures, ppc, hash, mod_gen, hash_gen>>,
         Bumping => Bumping'
  PROVE  Gates'
  BY DEF Gates, StampInv, UploadInv, GateIsSound, Stale, Bumping

\* Invalidation raises generations of hashes before the announcement.
LEMMA GateInvalidated ==
  ASSUME TypeOK, Gates, UNCHANGED <<g_mod_gen, textures, ppc, hash, mod_gen, hash_gen>>, Bumping'
  PROVE  Gates'
  BY DEF Gates, StampInv, UploadInv, GateIsSound, Bumping

\* A new global generation is on no entry yet.
LEMMA GateRaised ==
  ASSUME TypeOK, Gates, g_mod_gen' = g_mod_gen + 1, UNCHANGED <<textures, ppc, mod_gen>>
  PROVE  Gates'
<1>1. \A k \in Keys : textures[k] # None => textures[k].mod_gen \in Nat
  BY DEF TypeOK, Entries
<1>2. mod_gen \in Nat /\ g_mod_gen \in Nat
  BY DEF TypeOK
<1>3. \A k \in Keys : textures[k] # None => textures[k].mod_gen < g_mod_gen'
  BY <1>1, <1>2 DEF Gates, StampInv
<1>4. mod_gen < g_mod_gen'
  BY <1>2 DEF Gates, StampInv
<1> QED
  BY <1>1, <1>2, <1>3, <1>4 DEF Gates, StampInv, UploadInv, GateIsSound

LEMMA GateLoader ==
  ASSUME TypeOK, Gates, PollDue \/ Loader
  PROVE  Gates'
<1> USE DEF presentVars, localVars, sharedVars
<1>1. CASE PollDue \/ Top \/ ReadDir \/ BackToTop \/ Take \/ Load
  BY <1>1, GateKept DEF PollDue, Top, ReadDir, BackToTop, Take, Load, Bumping
<1>2. CASE Revert
  BY <1>2, GateInvalidated DEF Revert, Bumping
<1>3. CASE Bump
  BY <1>3, GateRaised DEF Bump
<1>4. CASE Diff
  <2>1. CASE Dirty = {}
    <3>1. g_hash_gen' = g_hash_gen
      BY <1>4, <2>1 DEF Diff, Invalidated, TypeOK
    <3> QED
      BY <1>4, <2>1, <3>1, GateKept DEF Diff, Bumping
  <2>2. CASE Dirty # {}
    BY <1>4, <2>2, GateInvalidated DEF Diff, Bumping
  <2> QED
    BY <2>1, <2>2
<1>5. CASE Store
  <2>1. CASE loaded # 0
    BY <1>5, <2>1, GateRaised DEF Store
  <2>2. CASE loaded = 0
    BY <1>5, <2>2, GateKept DEF Store, Bumping
  <2> QED
    BY <2>1, <2>2
<1> QED
  BY <1>1, <1>2, <1>3, <1>4, <1>5 DEF Loader

LEMMA GatePresent ==
  ASSUME TypeOK, Gates, Present \/ \E binds, evicted \in SUBSET Keys : Frame(binds, evicted)
  PROVE  Gates'
<1> USE DEF localVars, sharedVars, loaderVars
<1>0. g_mod_gen \in Nat /\ mod_gen \in Nat /\ mod_gen <= g_mod_gen
  BY DEF TypeOK, Gates, StampInv
<1>1. ASSUME NEW binds \in SUBSET Keys, NEW evicted \in SUBSET Keys, Frame(binds, evicted)
      PROVE  Gates'
  <2>1. \A k \in Keys : textures'[k] # None => textures'[k] = textures[k]
    BY <1>1 DEF Frame, TexEvictSweep, TypeOK
  <2>2. Bumping => Bumping'
    BY <1>1 DEF Frame, Poll, Bumping
  <2>3. UNCHANGED <<g_hash_gen, g_mod_gen, ppc, hash, mod_gen, hash_gen>>
    BY <1>1 DEF Frame
  <2> QED
    BY <2>1, <2>2, <2>3 DEF Gates, StampInv, UploadInv, GateIsSound, Stale, Bumping
<1>2. ASSUME NEW k \in Keys, Resolve(k) PROVE Gates'
  <2>1. mod_gen' <= g_mod_gen /\ ppc' # "upload"
    BY <1>0, <1>2 DEF Resolve, Returned, Reading
  <2> QED
    BY <1>2, <2>1 DEF Resolve, Gates, StampInv, UploadInv, GateIsSound, Stale, Bumping
<1>3. CASE Compare
  <2>1. mod_gen' <= g_mod_gen /\ ppc' # "upload" /\ g_mod_gen' = g_mod_gen
        /\ g_hash_gen' = g_hash_gen /\ lpc' = lpc
    BY <1>0, <1>3 DEF Compare, Returned
  <2>2. CASE textures[key].hash_gen = g_hash_gen[hash]
    <3>1. textures[key] \in Entries /\ textures[key].hash = hash /\ key \in Keys
      BY <1>3 DEF Compare, TypeOK
    <3>2. textures'[key].mod_gen = mod_gen /\ textures'[key].hash = hash
          /\ textures'[key].hash_gen = g_hash_gen[hash]
      BY <1>3, <2>2, <3>1 DEF Compare, TypeOK, Entries
    <3>3. \A k \in Keys \ {key} : textures'[k] = textures[k]
      BY <1>3, <2>2, <3>1 DEF Compare, TypeOK
    <3> QED
      BY <1>0, <2>1, <3>2, <3>3 DEF Gates, StampInv, UploadInv, GateIsSound, Stale, Bumping
  <2>3. CASE textures[key].hash_gen # g_hash_gen[hash]
    <3>1. textures' = textures
      BY <1>3, <2>3 DEF Compare
    <3> QED
      BY <2>1, <3>1 DEF Gates, StampInv, UploadInv, GateIsSound, Stale, Bumping
  <2> QED
    BY <2>2, <2>3
<1>4. CASE PollFirst
  BY <1>0, <1>4 DEF PollFirst, Poll, Gates, StampInv, UploadInv, GateIsSound, Stale, Bumping
<1>5. CASE Find
  BY <1>0, <1>5 DEF Find, Gates, StampInv, UploadInv, GateIsSound, Stale, Bumping
<1>6. CASE Upload
  <2>1. mod_gen' <= g_mod_gen /\ ppc' # "upload" /\ g_mod_gen' = g_mod_gen
        /\ g_hash_gen' = g_hash_gen /\ lpc' = lpc
    BY <1>0, <1>6 DEF Upload, Returned
  <2>2. key \in Keys /\ textures'[key] \in {Entry, None}
    BY <1>6 DEF Upload, TypeOK
  <2>3. \A k \in Keys \ {key} : textures'[k] = textures[k]
    BY <1>6 DEF Upload, TypeOK
  <2>4. Entry.mod_gen = mod_gen /\ Entry.hash = hash /\ Entry.hash_gen = hash_gen
    BY DEF Entry
  <2>5. mod_gen = g_mod_gen /\ hash_gen # g_hash_gen[hash] => Bumping
    BY <1>6 DEF Upload, Gates, UploadInv
  <2> QED
    BY <1>0, <2>1, <2>2, <2>3, <2>4, <2>5 DEF Gates, StampInv, UploadInv, GateIsSound, Stale, Bumping
<1> QED
  BY <1>1, <1>2, <1>3, <1>4, <1>5, <1>6 DEF Present

LEMMA GateStep == TypeOK /\ Gates /\ [Next]_vars => Gates'
<1> SUFFICES ASSUME TypeOK, Gates, [Next]_vars PROVE Gates'
  OBVIOUS
<1>1. CASE UNCHANGED vars
  BY <1>1, GateKept DEF vars, sharedVars, presentVars, localVars, Bumping
<1>2. CASE \/ Save \/ \E h \in Hashes : Remove(h)
           \/ Toggle
           \/ \E k \in Keys, h \in Hashes : Stream(k, h)
  BY <1>2, GateKept DEF Save, Remove, Change, Toggle, Stream, sharedVars, presentVars, localVars, Bumping
<1> QED
  BY <1>1, <1>2, GateLoader, GatePresent DEF Next

-----------------------------------------------------------------------------
(* Requests.                                                               *)

InQueue(h) == \E i \in DOMAIN g_queue : g_queue[i] = h

LEMMA PendingStep == TypeOK /\ PendingIsServed /\ [Next]_vars => PendingIsServed'
<1> SUFFICES ASSUME TypeOK, PendingIsServed, [Next]_vars PROVE PendingIsServed'
  OBVIOUS
<1> USE DEF sharedVars, loaderVars, PendingIsServed
<1>1. CASE UNCHANGED <<g_pending, g_queue, loading>> /\ (lpc \in {"load", "store"} => lpc' = lpc \/ lpc' = "store")
  BY <1>1
<1>2. CASE Revert \/ Diff
  BY <1>2 DEF Revert, Diff, Invalidated
<1>3. CASE Take
  <2>1. g_queue \in Seq(Hashes) /\ g_queue # <<>>
    BY <1>3 DEF Take, TypeOK
  <2>2. \A h \in Hashes : InQueue(h) => h = Head(g_queue) \/ \E j \in DOMAIN Tail(g_queue) : Tail(g_queue)[j] = h
    <3> SUFFICES ASSUME NEW i \in DOMAIN g_queue, g_queue[i] # Head(g_queue)
                 PROVE  \E j \in DOMAIN Tail(g_queue) : Tail(g_queue)[j] = g_queue[i]
      BY DEF InQueue
    <3>1. i \in 2 .. Len(g_queue) /\ i - 1 \in DOMAIN Tail(g_queue)
      BY <2>1
    <3>2. Tail(g_queue)[i - 1] = g_queue[i]
      BY <2>1, <3>1
    <3> QED
      BY <3>1, <3>2
  <2>3. g_queue' = Tail(g_queue) /\ lpc = "wait"
    BY <1>3 DEF Take
  <2>4. ASSUME NEW h \in g_pending' PROVE InQueue(h)' \/ (lpc' = "load" /\ loading' = h)
    <3>1. h \in g_pending /\ h \in Hashes /\ InQueue(h)
      BY <1>3, <2>3 DEF Take, TypeOK, InQueue
    <3>2. CASE h = Head(g_queue)
      BY <1>3, <2>4, <3>1, <3>2 DEF Take
    <3>3. CASE h # Head(g_queue)
      BY <2>2, <2>3, <3>1, <3>3 DEF InQueue
    <3> QED
      BY <3>2, <3>3
  <2> QED
    BY <2>4 DEF InQueue
<1>4. CASE Store
  BY <1>4 DEF Store
<1>5. CASE Find
  <2>1. hash \in Hashes
    BY <1>5 DEF Find, TypeOK
  <2>2. \A i \in DOMAIN g_queue : i \in DOMAIN Append(g_queue, hash) /\ Append(g_queue, hash)[i] = g_queue[i]
    BY <2>1 DEF TypeOK
  <2>3. Len(g_queue) + 1 \in DOMAIN Append(g_queue, hash) /\ Append(g_queue, hash)[Len(g_queue) + 1] = hash
    BY <2>1 DEF TypeOK
  <2> QED
    BY <1>5, <2>2, <2>3 DEF Find
<1> QED
  BY <1>1, <1>2, <1>3, <1>4, <1>5 DEF Next, Save, Remove, Change, Toggle, Stream, PollDue, Loader, Top, Bump,
     ReadDir, BackToTop, Load, Present, Resolve, Compare, PollFirst, Upload, Frame, Poll, vars

-----------------------------------------------------------------------------
(* The decoded files.                                                      *)

\* The time the next listing is compared with.
Base(h) == IF lpc = "diff" THEN cur[h] ELSE g_seen[h]

\* Nothing is scanned or decoded while replacements are off, and a forced scan is over
\* before anything else is done.
SwitchInv ==
  /\ lpc \in {"read", "diff", "diff_bump", "load", "store"} => was_on
  /\ s_force_dirty => lpc \in {"revert_bump", "read", "diff"} /\ was_on

\* CacheIsFresh of one hash; that no replacement is kept for a hash the loader takes for one
\* without files, which a toggle would not invalidate; and that there are none then, once
\* the scan a toggle forces is over.
HashInv(h) ==
  /\ g_cache[h] \in {None, Shows(disk[h])} \/ ~was_on \/ Forced \/ Unknown(h)
  /\ Base(h) = 0 => g_cache[h] \in {None, 0} \/ Unknown(h)
  /\ was_on /\ (~Forced \/ lpc = "diff") /\ Base(h) = 0 => Written(h) = {} \/ h \in unnoted
StoreInv == lpc = "store" => loaded = Shows(disk[loading]) \/ loading \in unnoted

FreshInv == SwitchInv /\ (\A h \in Hashes : HashInv(h)) /\ StoreInv

freshVars == <<disk, unnoted, g_cache, lpc, was_on, g_seen, s_force_dirty, cur, loading, loaded>>

LEMMA InitFresh == Init => FreshInv
<1> SUFFICES ASSUME Init PROVE FreshInv
  OBVIOUS
<1> QED
  BY DEF Init, FreshInv, SwitchInv, HashInv, StoreInv

LEMMA FreshKept ==
  ASSUME FreshInv, UNCHANGED freshVars
  PROVE  FreshInv'
<1>1. SwitchInv' /\ StoreInv'
  BY DEF FreshInv, freshVars, SwitchInv, StoreInv
<1>2. ASSUME NEW h \in Hashes PROVE HashInv(h)'
  <2>1. HashInv(h)
    BY DEF FreshInv
  <2>2. /\ disk'[h] = disk[h] /\ Written(h)' = Written(h)
        /\ Base(h)' = Base(h) /\ (Forced' <=> Forced) /\ (Unknown(h)' <=> Unknown(h))
    BY DEF freshVars, Base, Forced, Unknown, Dirty, Written
  <2> QED
    BY <2>1, <2>2 DEF HashInv, freshVars
<1> QED
  BY <1>1, <1>2 DEF FreshInv

\* The files of other hashes are the same, and those of this one are not yet listed or
\* replacements are off.
LEMMA FreshChange ==
  ASSUME TypeOK, FreshInv, NEW h \in Hashes, NEW e, NEW file, Change(h, e, file)
  PROVE  FreshInv'
<1>1. /\ UNCHANGED <<g_cache, lpc, was_on, g_seen, s_force_dirty, cur, loading, loaded>>
      /\ unnoted' = IF was_on THEN unnoted \cup {h} ELSE unnoted
      /\ disk' = [disk EXCEPT ![h][e] = file]
  BY DEF Change, sharedVars, loaderVars
<1>2. \A g \in Hashes \ {h} : disk'[g] = disk[g]
  BY <1>1 DEF TypeOK
<1>3. SwitchInv'
  BY <1>1 DEF FreshInv, SwitchInv
<1>4. ASSUME NEW g \in Hashes PROVE HashInv(g)'
  <2>1. HashInv(g)
    BY DEF FreshInv
  <2>2. CASE g # h
    <3>1. /\ disk'[g] = disk[g] /\ Written(g)' = Written(g)
          /\ Base(g)' = Base(g) /\ (Forced' <=> Forced) /\ (Unknown(g)' <=> Unknown(g))
          /\ g \in unnoted' <=> g \in unnoted
      BY <1>1, <1>2, <2>2 DEF Base, Forced, Unknown, Dirty, Written
    <3> QED
      BY <1>1, <2>1, <3>1 DEF HashInv
  <2>3. CASE g = h /\ was_on
    BY <1>1, <2>3 DEF HashInv, Unknown
  <2>4. CASE g = h /\ ~was_on
    BY <1>1, <2>1, <2>4 DEF HashInv, Base, Unknown, Dirty
  <2> QED
    BY <2>2, <2>3, <2>4
<1>5. StoreInv'
  <2> SUFFICES ASSUME lpc = "store" PROVE loaded = Shows(disk[loading])' \/ loading \in unnoted'
    BY <1>1 DEF StoreInv
  <2>1. was_on /\ loading \in Hashes /\ (loaded = Shows(disk[loading]) \/ loading \in unnoted)
    BY DEF FreshInv, SwitchInv, StoreInv, TypeOK
  <2> QED
    BY <1>1, <1>2, <2>1 DEF Shows, First
<1> QED
  BY <1>3, <1>4, <1>5 DEF FreshInv

LEMMA FreshTop ==
  ASSUME TypeOK, FreshInv, Top
  PROVE  FreshInv'
<1>1. /\ lpc = "top" /\ was_on' = g_mods_requested
      /\ lpc' = CASE g_mods_requested # was_on -> "revert"
                  [] g_mods_requested = was_on /\ due /\ g_mods_requested -> "read"
                  [] g_mods_requested = was_on /\ ~(due /\ g_mods_requested) -> "wait"
      /\ UNCHANGED <<disk, unnoted, g_cache, g_seen, s_force_dirty, cur, loading, loaded>>
  BY DEF Top, userVars, historyVars, sharedVars
<1>2. /\ lpc' \in {"revert", "read", "wait"} /\ (lpc' = "read" => was_on')
      /\ lpc' # "revert" => was_on' = was_on
  BY <1>1
<1>3. SwitchInv' /\ StoreInv' /\ ~s_force_dirty
  BY <1>1, <1>2 DEF FreshInv, SwitchInv, StoreInv
<1>4. ASSUME NEW h \in Hashes PROVE HashInv(h)'
  <2>1. HashInv(h)
    BY DEF FreshInv
  <2>2. CASE lpc' = "revert"
    BY <1>1, <2>1, <2>2 DEF HashInv, Base, Forced, Unknown
  <2>3. CASE lpc' # "revert"
    BY <1>1, <1>2, <1>3, <2>1, <2>3 DEF HashInv, Base, Forced, Unknown, Shows, First, Written
  <2> QED
    BY <2>2, <2>3
<1> QED
  BY <1>3, <1>4 DEF FreshInv

\* What a toggle leaves in the cache are misses, and what was not listed.
LEMMA FreshRevert ==
  ASSUME TypeOK, FreshInv, Revert
  PROVE  FreshInv'
<1>1. /\ lpc = "revert" /\ lpc' = "revert_bump" /\ s_force_dirty' = was_on
      /\ unnoted' = {h \in unnoted : g_seen[h] = 0}
      /\ \A h \in Hashes : g_cache'[h] = IF g_seen[h] # 0 THEN None ELSE g_cache[h]
      /\ UNCHANGED <<disk, was_on, g_seen, cur, loading, loaded>>
  BY DEF Revert, Invalidated, userVars
<1>2. SwitchInv' /\ StoreInv'
  BY <1>1 DEF FreshInv, SwitchInv, StoreInv, TypeOK
<1>3. ASSUME NEW h \in Hashes PROVE HashInv(h)'
  <2>1. HashInv(h)
    BY DEF FreshInv
  <2> QED
    BY <1>1, <2>1 DEF HashInv, Base, Forced, Unknown
<1> QED
  BY <1>2, <1>3 DEF FreshInv

\* Whatever is listed at another time is found changed.
LEMMA FreshRead ==
  ASSUME TypeOK, FreshInv, ReadDir
  PROVE  FreshInv'
<1>1. /\ lpc = "read" /\ lpc' = "diff"
      /\ unnoted' = {h \in unnoted : cur'[h] = g_seen[h]}
                      \cup {h \in Hashes : cur'[h] = 0 /\ Written(h) # {}}
      /\ UNCHANGED <<disk, g_cache, was_on, g_seen, s_force_dirty, loading, loaded>>
  BY DEF ReadDir, sharedVars
<1>2. SwitchInv' /\ StoreInv'
  BY <1>1 DEF FreshInv, SwitchInv, StoreInv
<1>3. ASSUME NEW h \in Hashes PROVE HashInv(h)'
  <2>1. HashInv(h)
    BY DEF FreshInv
  <2>2. cur'[h] # g_seen[h] => Unknown(h)'
    BY <1>1 DEF Unknown, Dirty
  <2>3. cur'[h] = g_seen[h] /\ Unknown(h) => Unknown(h)'
    BY <1>1 DEF Unknown
  <2>4. Base(h) = g_seen[h] /\ Base(h)' = cur'[h] /\ (Forced' <=> Forced)
    BY <1>1 DEF Base, Forced
  <2>5. g_cache'[h] \in {None, Shows(disk'[h])} \/ ~was_on' \/ Forced' \/ Unknown(h)'
    BY <1>1, <2>1, <2>2, <2>3, <2>4 DEF HashInv, Shows, First
  <2>6. Base(h)' = 0 => g_cache'[h] \in {None, 0} \/ Unknown(h)'
    BY <1>1, <2>1, <2>2, <2>3, <2>4 DEF HashInv
  <2>7. Base(h)' = 0 => Written(h)' = {} \/ h \in unnoted'
    BY <1>1, <2>4 DEF Written
  <2> QED
    BY <2>5, <2>6, <2>7 DEF HashInv, Shows, First
<1> QED
  BY <1>2, <1>3 DEF FreshInv

\* What a forced scan leaves in the cache are misses of hashes without files.
LEMMA FreshDiff ==
  ASSUME TypeOK, FreshInv, Diff
  PROVE  FreshInv'
<1>1. /\ lpc = "diff" /\ lpc' \in {"wait", "diff_bump"} /\ g_seen' = cur /\ ~s_force_dirty'
      /\ \A h \in Hashes : g_cache'[h] = IF h \in Dirty THEN None ELSE g_cache[h]
      /\ UNCHANGED <<disk, unnoted, was_on, loading, loaded>>
  BY DEF Diff, Invalidated, userVars, historyVars
<1>2. SwitchInv' /\ StoreInv'
  BY <1>1 DEF FreshInv, SwitchInv, StoreInv
<1>3. ASSUME NEW h \in Hashes PROVE HashInv(h)'
  <2>1. HashInv(h) /\ was_on
    BY <1>1 DEF FreshInv, SwitchInv
  <2>2. /\ Base(h) = cur[h] /\ Base(h)' = cur[h] /\ ~Forced' /\ (h \in unnoted => Unknown(h)')
        /\ disk'[h] = disk[h] /\ Written(h)' = Written(h) /\ unnoted' = unnoted /\ was_on' = was_on
    BY <1>1, <2>1 DEF Base, Forced, Unknown, Written
  <2>3. cur[h] = 0 => Written(h) = {} \/ h \in unnoted
    BY <1>1, <2>1, <2>2 DEF HashInv
  <2>4. CASE h \in Dirty
    BY <1>1, <2>1, <2>2, <2>3, <2>4 DEF HashInv
  <2>5. CASE h \notin Dirty
    <3>1. g_cache'[h] = g_cache[h] /\ (Unknown(h) => Unknown(h)')
      BY <1>1, <2>2, <2>5 DEF Unknown
    <3>2. cur[h] = 0 => g_cache[h] \in {None, 0} \/ Unknown(h)'
      BY <2>1, <2>2, <3>1 DEF HashInv
    <3>3. CASE Forced
      <4>1. cur[h] = 0
        BY <1>1, <2>5, <3>3 DEF Forced, Dirty
      <4>2. g_cache[h] \in {None, Shows(disk[h])} \/ Unknown(h)'
        BY <2>2, <2>3, <3>2, <4>1, FileTypes
      <4> QED
        BY <2>2, <2>3, <3>1, <3>2, <4>2 DEF HashInv
    <3>4. CASE ~Forced
      BY <2>1, <2>2, <2>3, <3>1, <3>2, <3>4 DEF HashInv
    <3> QED
      BY <3>3, <3>4
  <2> QED
    BY <2>4, <2>5
<1> QED
  BY <1>2, <1>3 DEF FreshInv

LEMMA FreshStore ==
  ASSUME TypeOK, FreshInv, Store
  PROVE  FreshInv'
<1>1. /\ lpc = "store" /\ lpc' = "top" /\ g_cache' = [g_cache EXCEPT ![loading] = loaded]
      /\ UNCHANGED <<disk, unnoted, was_on, g_seen, s_force_dirty, cur>>
  BY DEF Store, userVars, historyVars
<1>2. /\ loading \in Hashes /\ was_on /\ ~Forced
      /\ loaded = Shows(disk[loading]) \/ loading \in unnoted
  BY <1>1 DEF FreshInv, SwitchInv, StoreInv, Forced, TypeOK
<1>3. SwitchInv' /\ StoreInv'
  BY <1>1 DEF FreshInv, SwitchInv, StoreInv
<1>4. ASSUME NEW h \in Hashes PROVE HashInv(h)'
  <2>1. HashInv(h) /\ g_cache'[h] = IF h = loading THEN loaded ELSE g_cache[h]
    BY <1>1, <1>2 DEF FreshInv, TypeOK
  <2>2. /\ Base(h)' = Base(h) /\ ~Forced' /\ (Unknown(h)' <=> Unknown(h)) /\ (Unknown(h) <=> h \in unnoted)
        /\ Shows(disk[h])' = Shows(disk[h]) /\ Written(h)' = Written(h)
    BY <1>1, <1>2 DEF Base, Forced, Unknown, Shows, First, Written
  <2>3. CASE h # loading
    BY <1>1, <1>2, <2>1, <2>2, <2>3 DEF HashInv
  <2>4. CASE h = loading
    <3>1. Base(h) = 0 => Written(h) = {} \/ h \in unnoted
      BY <1>2, <2>1 DEF HashInv
    <3>2. Base(h) = 0 => loaded = 0 \/ h \in unnoted
      BY <1>2, <2>4, <3>1, FileTypes
    <3> QED
      BY <1>1, <1>2, <2>1, <2>2, <2>4, <3>1, <3>2 DEF HashInv
  <2> QED
    BY <2>3, <2>4
<1> QED
  BY <1>3, <1>4 DEF FreshInv

\* The steps that only move the loader, or start it.
LEMMA FreshMoved ==
  ASSUME FreshInv, UNCHANGED <<disk, unnoted, g_cache, was_on, g_seen, s_force_dirty, cur>>,
         lpc \notin {"revert", "diff"}, lpc' \notin {"revert", "diff"},
         lpc' \in {"read", "diff_bump", "load", "store"} => was_on,
         s_force_dirty => lpc' \in {"revert_bump", "read"},
         lpc' = "store" => loaded' = Shows(disk[loading'])
  PROVE  FreshInv'
<1>1. SwitchInv' /\ StoreInv'
  BY DEF FreshInv, SwitchInv, StoreInv, Shows, First
<1>2. ASSUME NEW h \in Hashes PROVE HashInv(h)'
  <2>1. HashInv(h)
    BY DEF FreshInv
  <2>2. /\ disk'[h] = disk[h] /\ Written(h)' = Written(h)
        /\ Base(h)' = Base(h) /\ (Forced' <=> Forced) /\ (Unknown(h)' <=> Unknown(h))
    BY DEF Base, Forced, Unknown, Written
  <2> QED
    BY <2>1, <2>2 DEF HashInv
<1> QED
  BY <1>1, <1>2 DEF FreshInv

LEMMA FreshLoader ==
  ASSUME TypeOK, FreshInv, Loader
  PROVE  FreshInv'
<1> USE DEF userVars, historyVars, sharedVars, loaderVars
<1>1. CASE Bump
  <2>1. /\ lpc \in {"revert_bump", "diff_bump"} /\ lpc' \in {"read", "wait"}
        /\ lpc' = "read" <=> lpc = "revert_bump" /\ was_on
        /\ UNCHANGED <<disk, unnoted, g_cache, was_on, g_seen, s_force_dirty, cur>>
    BY <1>1 DEF Bump
  <2>2. s_force_dirty => lpc = "revert_bump" /\ was_on
    BY <2>1 DEF FreshInv, SwitchInv
  <2> QED
    BY <2>1, <2>2, FreshMoved
<1>2. CASE BackToTop \/ Take
  <2>1. /\ lpc = "wait" /\ lpc' \in {"top", "load"} /\ (lpc' = "load" => was_on)
        /\ UNCHANGED <<disk, unnoted, g_cache, was_on, g_seen, s_force_dirty, cur>>
    BY <1>2 DEF BackToTop, Take
  <2>2. ~s_force_dirty
    BY <2>1 DEF FreshInv, SwitchInv
  <2> QED
    BY <2>1, <2>2, FreshMoved
<1>3. CASE Load
  <2>1. /\ lpc = "load" /\ lpc' = "store" /\ loaded' = Shows(disk[loading]) /\ loading' = loading
        /\ UNCHANGED <<disk, unnoted, g_cache, was_on, g_seen, s_force_dirty, cur>>
    BY <1>3 DEF Load
  <2>2. ~s_force_dirty /\ was_on
    BY <2>1 DEF FreshInv, SwitchInv
  <2> QED
    BY <2>1, <2>2, FreshMoved
<1> QED
  BY <1>1, <1>2, <1>3, FreshTop, FreshRevert, FreshRead, FreshDiff, FreshStore DEF Loader

LEMMA FreshPoll ==
  ASSUME FreshInv, Poll,
         UNCHANGED <<disk, unnoted, g_cache, was_on, g_seen, s_force_dirty, cur, loading, loaded>>
  PROVE  FreshInv'
<1>1. lpc' = lpc \/ (lpc = "off" /\ lpc' = "top")
  BY DEF Poll
<1>2. CASE lpc' = lpc
  BY <1>2, FreshKept DEF freshVars
<1>3. CASE lpc = "off" /\ lpc' = "top"
  BY <1>3, FreshMoved DEF FreshInv, SwitchInv
<1> QED
  BY <1>1, <1>2, <1>3

LEMMA FreshStep == TypeOK /\ FreshInv /\ [Next]_vars => FreshInv'
<1> SUFFICES ASSUME TypeOK, FreshInv, [Next]_vars PROVE FreshInv'
  OBVIOUS
<1> USE DEF userVars, historyVars, sharedVars, loaderVars, localVars, presentVars
<1>1. CASE Save
  <2>1. PICK f \in Drops : Change(f.hash, f.ext, [pix |-> f.pix, time |-> f.time])
    BY <1>1 DEF Save
  <2>2. f.hash \in Hashes
    BY TexturesAssumption
  <2> QED
    BY <2>1, <2>2, FreshChange
<1>2. ASSUME NEW h \in Hashes, Remove(h) PROVE FreshInv'
  BY <1>2, FreshChange DEF Remove
<1>3. CASE \/ UNCHANGED vars \/ Toggle \/ PollDue \/ Compare \/ Find \/ Upload
           \/ \E k \in Keys, h \in Hashes : Stream(k, h)
           \/ \E k \in Keys : Resolve(k)
  BY <1>3, FreshKept DEF vars, Toggle, PollDue, Compare, Find, Upload, Stream, Resolve, freshVars
<1>4. CASE Loader
  BY <1>4, FreshLoader
<1>5. CASE PollFirst \/ \E binds, evicted \in SUBSET Keys : Frame(binds, evicted)
  BY <1>5, FreshPoll DEF PollFirst, Frame
<1> QED
  BY <1>1, <1>2, <1>3, <1>4, <1>5 DEF Next, Present

-----------------------------------------------------------------------------
(* The pixels that are drawn.                                              *)

\* What is asked for is not cached: a decode never replaces another.
AskInv ==
  /\ \A h \in g_pending : g_cache[h] = None
  /\ lpc \in {"load", "store"} => g_cache[loading] = None

\* What pixels of the current generation of a hash are: those a lookup would find now, once
\* the loader has invalidated what a toggle has to; and if there were none to find, they
\* were asked for or the last scan found no file.
FoundBy(h)  == IF was_on /\ g_cache[h] # None THEN g_cache[h] ELSE 0
Shown(h, p) ==
  /\ p \in {0, g_cache[h]}
  /\ lpc # "revert" /\ h \notin glimpsed =>
       /\ p = FoundBy(h) \/ Unknown(h)
       /\ was_on /\ g_cache[h] = None /\ h \notin g_pending => Base(h) = 0 \/ Unknown(h)
Carries(h, gen, p) == gen <= g_hash_gen[h] /\ (gen = g_hash_gen[h] => Shown(h, p))

\* Said of every entry, and of the one that is being uploaded.
EntryInv ==
  /\ \A k \in Keys : textures[k] # None => Carries(textures[k].hash, textures[k].hash_gen, textures[k].pix)
  /\ ppc = "upload" => Carries(hash, hash_gen, pix)

LEMMA AskStep == TypeOK /\ AskInv /\ [Next]_vars => AskInv'
<1> SUFFICES ASSUME TypeOK, AskInv, [Next]_vars PROVE AskInv'
  OBVIOUS
<1> USE DEF userVars, historyVars, sharedVars, loaderVars, localVars, presentVars
<1>1. CASE /\ UNCHANGED <<g_cache, g_pending, loading>>
           /\ lpc' \in {"load", "store"} => lpc \in {"load", "store"}
  BY <1>1 DEF AskInv
<1>2. CASE Revert \/ Diff
  BY <1>2 DEF Revert, Diff, Invalidated, AskInv, TypeOK
<1>3. CASE Take
  BY <1>3 DEF Take, AskInv, TypeOK
<1>4. CASE Store
  BY <1>4 DEF Store, AskInv, TypeOK
<1>5. CASE Find
  BY <1>5 DEF Find, AskInv, TypeOK
<1> QED
  BY <1>1, <1>2, <1>3, <1>4, <1>5 DEF Next, Save, Remove, Change, Toggle, Stream, PollDue, Loader, Top, Bump,
     ReadDir, BackToTop, Load, Present, Resolve, Compare, PollFirst, Upload, Frame, Poll, vars

LEMMA EntriesKept ==
  ASSUME TypeOK, EntryInv, UNCHANGED <<textures, ppc, hash, hash_gen, pix>>,
         \A h \in Hashes, gen \in Nat, p \in Pixels : Carries(h, gen, p) => Carries(h, gen, p)'
  PROVE  EntryInv'
<1>1. \A k \in Keys : textures[k] # None
        => textures[k].hash \in Hashes /\ textures[k].hash_gen \in Nat /\ textures[k].pix \in Pixels
  BY DEF TypeOK, Entries
<1>2. ppc = "upload" => hash \in Hashes /\ hash_gen \in Nat /\ pix \in Pixels
  BY DEF TypeOK
<1>3. (\A k \in Keys : textures[k] # None => Carries(textures[k].hash, textures[k].hash_gen, textures[k].pix))'
  BY <1>1 DEF EntryInv
<1>4. (ppc = "upload" => Carries(hash, hash_gen, pix))'
  BY <1>2 DEF EntryInv
<1> QED
  BY <1>3, <1>4 DEF EntryInv

LEMMA CarriesKept ==
  ASSUME UNCHANGED <<g_cache, g_hash_gen>>, g_pending \subseteq g_pending', glimpsed \subseteq glimpsed',
         lpc' # "revert" => lpc # "revert" /\ was_on' = was_on,
         NEW h \in Hashes, NEW gen \in Nat, NEW p \in Pixels, Carries(h, gen, p),
         Unknown(h) => Unknown(h)', Base(h) = 0 => Base(h)' = 0 \/ Unknown(h)'
  PROVE  Carries(h, gen, p)'
  BY DEF Carries, Shown, FoundBy

\* Whatever lets the loader forget pixels moves the generation of their hash.
LEMMA CarriesCancelled ==
  ASSUME TypeOK, NEW hs \in SUBSET Hashes, Invalidated(hs),
         NEW h \in Hashes, NEW gen \in Nat, NEW p \in Pixels, Carries(h, gen, p)
  PROVE  IF h \in hs THEN Carries(h, gen, p)'
         ELSE /\ g_cache'[h] = g_cache[h] /\ g_hash_gen'[h] = g_hash_gen[h]
              /\ h \in g_pending <=> h \in g_pending'
<1>1. g_hash_gen[h] \in Nat
  BY DEF TypeOK
<1>2. CASE h \in hs
  <2>1. g_hash_gen'[h] = g_hash_gen[h] + 1
    BY <1>2 DEF Invalidated
  <2> QED
    BY <1>1, <1>2, <2>1 DEF Carries
<1>3. CASE h \notin hs
  BY <1>3 DEF Invalidated
<1> QED
  BY <1>2, <1>3

LEMMA CarriesRevert ==
  ASSUME TypeOK, FreshInv, Revert,
         NEW h \in Hashes, NEW gen \in Nat, NEW p \in Pixels, Carries(h, gen, p)
  PROVE  Carries(h, gen, p)'
<1> DEFINE hs == {g \in Hashes : g_seen[g] # 0}
<1>1. /\ Invalidated(hs) /\ lpc = "revert" /\ lpc' = "revert_bump" /\ UNCHANGED <<was_on, g_seen>>
      /\ unnoted' = {g \in unnoted : g_seen[g] = 0}
  BY DEF Revert
<1>2. CASE h \in hs
  BY <1>1, <1>2, CarriesCancelled
<1>3. CASE h \notin hs
  <2>1. g_cache'[h] = g_cache[h] /\ g_hash_gen'[h] = g_hash_gen[h]
    BY <1>1, <1>3, CarriesCancelled
  <2>2. g_seen[h] = 0 /\ Base(h) = 0 /\ Base(h)' = 0
    BY <1>1, <1>3 DEF Base
  <2>3. g_cache[h] \in {None, 0} \/ Unknown(h)'
    BY <1>1, <2>2 DEF FreshInv, HashInv, Unknown
  <2>4. p # None
    BY NothingIsNone
  <2> QED
    BY <1>1, <2>1, <2>2, <2>3, <2>4 DEF Carries, Shown, FoundBy
<1> QED
  BY <1>2, <1>3

LEMMA CarriesDiff ==
  ASSUME TypeOK, Diff,
         NEW h \in Hashes, NEW gen \in Nat, NEW p \in Pixels, Carries(h, gen, p)
  PROVE  Carries(h, gen, p)'
<1>1. /\ Invalidated(Dirty) /\ lpc = "diff" /\ lpc' \in {"wait", "diff_bump"} /\ g_seen' = cur
      /\ UNCHANGED <<was_on, unnoted, glimpsed>>
  BY DEF Diff, historyVars
<1>2. CASE h \in Dirty
  BY <1>1, <1>2, CarriesCancelled DEF Dirty
<1>3. CASE h \notin Dirty
  <2>1. /\ g_cache'[h] = g_cache[h] /\ g_hash_gen'[h] = g_hash_gen[h]
        /\ h \in g_pending <=> h \in g_pending'
    BY <1>1, <1>3, CarriesCancelled DEF Dirty
  <2>2. Base(h)' = Base(h) /\ (Unknown(h)' <=> Unknown(h))
    BY <1>1, <1>3 DEF Base, Unknown
  <2> QED
    BY <1>1, <2>1, <2>2 DEF Carries, Shown, FoundBy
<1> QED
  BY <1>2, <1>3

\* A listing that tells of something new makes the hash one the scan finds changed.
LEMMA CarriesRead ==
  ASSUME TypeOK, ReadDir,
         NEW h \in Hashes, NEW gen \in Nat, NEW p \in Pixels, Carries(h, gen, p)
  PROVE  Carries(h, gen, p)'
<1>1. /\ lpc = "read" /\ lpc' = "diff"
      /\ unnoted' = {g \in unnoted : cur'[g] = g_seen[g]}
                      \cup {g \in Hashes : cur'[g] = 0 /\ Written(g) # {}}
      /\ UNCHANGED <<g_cache, g_hash_gen, g_pending, glimpsed, was_on, g_seen>>
  BY DEF ReadDir, sharedVars
<1>2. cur'[h] # g_seen[h] => Unknown(h)'
  BY <1>1 DEF Unknown, Dirty
<1>3. Unknown(h) => Unknown(h)'
  BY <1>1, <1>2 DEF Unknown
<1>4. Base(h) = 0 => Base(h)' = 0 \/ Unknown(h)'
  BY <1>1, <1>2 DEF Base
<1> QED
  BY <1>1, <1>3, <1>4, CarriesKept

LEMMA CarriesTake ==
  ASSUME TypeOK, Take,
         NEW h \in Hashes, NEW gen \in Nat, NEW p \in Pixels, Carries(h, gen, p)
  PROVE  Carries(h, gen, p)'
<1>1. /\ lpc = "wait" /\ lpc' \in {"load", "top"} /\ (was_on => g_pending' = g_pending)
      /\ UNCHANGED <<was_on, g_cache, g_hash_gen, g_seen, unnoted, glimpsed>>
  BY DEF Take, historyVars
<1>2. Base(h)' = Base(h) /\ (Unknown(h)' <=> Unknown(h))
  BY <1>1 DEF Base, Unknown
<1> QED
  BY <1>1, <1>2 DEF Carries, Shown, FoundBy

\* A miss is the guest's own pixels; anything else has a generation of its own.
LEMMA CarriesStore ==
  ASSUME TypeOK, AskInv, Store,
         NEW h \in Hashes, NEW gen \in Nat, NEW p \in Pixels, Carries(h, gen, p)
  PROVE  Carries(h, gen, p)'
<1>1. /\ lpc = "store" /\ lpc' = "top" /\ g_cache' = [g_cache EXCEPT ![loading] = loaded]
      /\ g_pending' = g_pending \ {loading} /\ UNCHANGED <<was_on, g_seen, unnoted, glimpsed>>
  BY DEF Store, historyVars
<1>2. loading \in Hashes /\ loaded \in Pixels /\ loaded # None /\ p # None /\ g_cache[loading] = None
  BY <1>1, NothingIsNone DEF TypeOK, AskInv
<1>3. Base(h)' = Base(h) /\ (Unknown(h)' <=> Unknown(h))
  BY <1>1 DEF Base, Unknown
<1>4. CASE h # loading
  <2>1. g_cache'[h] = g_cache[h] /\ g_hash_gen'[h] = g_hash_gen[h] /\ (h \in g_pending <=> h \in g_pending')
    BY <1>1, <1>2, <1>4 DEF Store, TypeOK
  <2> QED
    BY <1>1, <1>3, <2>1 DEF Carries, Shown, FoundBy
<1>5. CASE h = loading /\ loaded # 0
  <2>1. g_hash_gen'[h] = g_hash_gen[h] + 1 /\ g_hash_gen[h] \in Nat
    BY <1>2, <1>5 DEF Store, TypeOK
  <2> QED
    BY <2>1 DEF Carries
<1>6. CASE h = loading /\ loaded = 0
  <2>1. g_cache'[h] = 0 /\ g_hash_gen'[h] = g_hash_gen[h]
    BY <1>1, <1>2, <1>6 DEF Store, TypeOK
  <2> QED
    BY <1>1, <1>2, <1>6, <2>1 DEF Carries, Shown, FoundBy
<1> QED
  BY <1>4, <1>5, <1>6

LEMMA EntriesLoader ==
  ASSUME TypeOK, FreshInv, AskInv, EntryInv, PollDue \/ Loader
  PROVE  EntryInv'
<1> USE DEF presentVars, localVars, sharedVars, loaderVars, historyVars
<1>1. UNCHANGED <<textures, ppc, hash, hash_gen, pix>>
  BY DEF PollDue, Loader, Top, Revert, Bump, ReadDir, Diff, BackToTop, Take, Load, Store
<1>2. ASSUME NEW h \in Hashes, NEW gen \in Nat, NEW p \in Pixels, Carries(h, gen, p)
      PROVE  Carries(h, gen, p)'
  <2>1. CASE PollDue \/ Bump \/ BackToTop \/ Load \/ Top
    <3>1. /\ UNCHANGED <<g_cache, g_hash_gen, g_seen, g_pending, unnoted, glimpsed>>
          /\ lpc \notin {"revert", "diff"} /\ lpc' # "diff"
          /\ was_on' = was_on \/ lpc' = "revert"
      BY <2>1 DEF PollDue, Bump, BackToTop, Load, Top
    <3>2. Base(h)' = Base(h) /\ (Unknown(h)' <=> Unknown(h))
      BY <3>1 DEF Base, Unknown
    <3> QED
      BY <1>2, <3>1, <3>2, CarriesKept
  <2> QED
    BY <1>2, <2>1, CarriesRevert, CarriesRead, CarriesDiff, CarriesTake, CarriesStore DEF Loader
<1> QED
  BY <1>1, <1>2, EntriesKept

\* The present thread changes nothing an entry depends on; what it asks for is pending, and
\* what it looks up during a toggle is glimpsed.
LEMMA CarriesPresent ==
  ASSUME UNCHANGED <<g_cache, g_hash_gen, g_seen, cur, s_force_dirty, was_on, unnoted>>,
         g_pending \subseteq g_pending', glimpsed \subseteq glimpsed',
         lpc' = lpc \/ (lpc = "off" /\ lpc' = "top"),
         NEW h \in Hashes, NEW gen \in Nat, NEW p \in Pixels, Carries(h, gen, p)
  PROVE  Carries(h, gen, p)'
<1>1. Base(h)' = Base(h) /\ (Unknown(h)' <=> Unknown(h))
  BY DEF Base, Unknown, Dirty
<1> QED
  BY <1>1, CarriesKept

LEMMA EntriesPresent ==
  ASSUME TypeOK, EntryInv, Present \/ \E binds, evicted \in SUBSET Keys : Frame(binds, evicted)
  PROVE  EntryInv'
<1> USE DEF localVars, sharedVars, loaderVars, historyVars
<1>0. \A k \in Keys : textures[k] # None
        => textures[k].hash \in Hashes /\ textures[k].hash_gen \in Nat /\ textures[k].pix \in Pixels
  BY DEF TypeOK, Entries
<1>1. /\ UNCHANGED <<g_cache, g_hash_gen, g_seen, cur, s_force_dirty, was_on, unnoted>>
      /\ g_pending \subseteq g_pending' /\ glimpsed \subseteq glimpsed'
      /\ lpc' = lpc \/ (lpc = "off" /\ lpc' = "top")
  BY DEF Present, Frame, Resolve, Compare, PollFirst, Find, Upload, Poll
<1>2. \A h \in Hashes, gen \in Nat, p \in Pixels : Carries(h, gen, p) => Carries(h, gen, p)'
  BY <1>1, CarriesPresent
<1>3. ASSUME NEW binds \in SUBSET Keys, NEW evicted \in SUBSET Keys, Frame(binds, evicted)
      PROVE  EntryInv'
  <2>1. \A k \in Keys : textures'[k] # None => textures'[k] = textures[k]
    BY <1>3 DEF Frame, TexEvictSweep, TypeOK
  <2>2. ppc' = "bind"
    BY <1>3 DEF Frame
  <2> QED
    BY <1>0, <1>2, <2>1, <2>2 DEF EntryInv
<1>4. ASSUME NEW k \in Keys, Resolve(k) PROVE EntryInv'
  <2>1. textures' = textures /\ ppc' # "upload"
    BY <1>4 DEF Resolve
  <2> QED
    BY <1>0, <1>2, <2>1 DEF EntryInv
<1>5. CASE Compare
  <2>1. \A k \in Keys : /\ textures'[k] # None <=> textures[k] # None
                        /\ textures[k] # None => /\ textures'[k].hash = textures[k].hash
                                                 /\ textures'[k].hash_gen = textures[k].hash_gen
                                                 /\ textures'[k].pix = textures[k].pix
    <3> DEFINE again == [textures[key] EXCEPT !.mod_gen = mod_gen]
    <3>1. textures[key] \in Entries /\ key \in Keys /\ textures[key] # None
      BY <1>5 DEF Compare, TypeOK
    <3>2. /\ again \in Entries /\ again.hash = textures[key].hash
          /\ again.hash_gen = textures[key].hash_gen /\ again.pix = textures[key].pix
      BY <1>5, <3>1 DEF Entries, TypeOK
    <3>3. again # None
      BY <3>2, NothingIsNone
    <3>4. \A k \in Keys : textures'[k] = textures[k] \/ (k = key /\ textures'[k] = again)
      BY <1>5 DEF Compare, TypeOK
    <3> HIDE DEF again
    <3> QED
      BY <3>1, <3>2, <3>3, <3>4
  <2>2. ppc' # "upload"
    BY <1>5 DEF Compare
  <2> QED
    BY <1>0, <1>2, <2>1, <2>2 DEF EntryInv
<1>6. CASE PollFirst
  <2>1. textures' = textures /\ ppc' # "upload"
    BY <1>6 DEF PollFirst
  <2> QED
    BY <1>0, <1>2, <2>1 DEF EntryInv
<1>7. CASE Find
  <2>1. /\ UNCHANGED <<g_mods_requested, lpc, textures, hash>> /\ ppc = "find"
        /\ hash_gen' = g_hash_gen[hash] /\ pix' = Found(hash)
        /\ g_mods_requested /\ g_cache[hash] = None => hash \in g_pending'
        /\ g_mods_requested # was_on => hash \in glimpsed'
    BY <1>7 DEF Find
  <2>2. hash \in Hashes /\ g_hash_gen[hash] \in Nat
    BY <2>1 DEF TypeOK
  <2>3. Carries(hash, hash_gen, pix)'
    BY <1>1, <2>1, <2>2 DEF Carries, Shown, Found, FoundBy
  <2> QED
    BY <1>0, <1>2, <2>1, <2>3 DEF EntryInv
<1>8. CASE Upload
  <2>1. ppc = "upload" /\ ppc' # "upload" /\ key \in Keys
    BY <1>8 DEF Upload, TypeOK
  <2>2. \A k \in Keys : textures'[k] # None => textures'[k] = textures[k] \/ textures'[k] = Entry
    BY <1>8 DEF Upload, TypeOK
  <2>3. Entry.hash = hash /\ Entry.hash_gen = hash_gen /\ Entry.pix = pix
    BY DEF Entry
  <2>4. hash \in Hashes /\ hash_gen \in Nat /\ pix \in Pixels /\ Carries(hash, hash_gen, pix)
    BY <2>1 DEF EntryInv, TypeOK
  <2>5. (\A k \in Keys : textures[k] # None => Carries(textures[k].hash, textures[k].hash_gen, textures[k].pix))'
    BY <1>0, <1>2, <2>2, <2>3, <2>4 DEF EntryInv
  <2> QED
    BY <2>1, <2>5 DEF EntryInv
<1> QED
  BY <1>3, <1>4, <1>5, <1>6, <1>7, <1>8 DEF Present

LEMMA EntryStep == TypeOK /\ FreshInv /\ AskInv /\ EntryInv /\ [Next]_vars => EntryInv'
<1> SUFFICES ASSUME TypeOK, FreshInv, AskInv, EntryInv, [Next]_vars PROVE EntryInv'
  OBVIOUS
<1>1. CASE \/ UNCHANGED vars
           \/ Save \/ \E h \in Hashes : Remove(h)
           \/ Toggle
           \/ \E k \in Keys, h \in Hashes : Stream(k, h)
  <2> USE DEF Save, Remove, Change, Toggle, Stream, vars, historyVars, sharedVars, loaderVars,
              presentVars, localVars
  <2>1. /\ UNCHANGED <<g_cache, g_hash_gen, g_seen, cur, s_force_dirty, g_pending, glimpsed, was_on, lpc>>
        /\ UNCHANGED <<textures, ppc, hash, hash_gen, pix>>
    BY <1>1
  <2>2. unnoted \subseteq unnoted'
    BY <1>1
  <2>3. \A h \in Hashes : Base(h)' = Base(h) /\ (Unknown(h) => Unknown(h)')
    BY <2>1, <2>2 DEF Base, Unknown, Dirty
  <2> QED
    BY <2>1, <2>3, EntriesKept, CarriesKept
<1> QED
  BY <1>1, EntriesLoader, EntriesPresent DEF Next

LEMMA InitEntries == Init => AskInv /\ EntryInv
  BY DEF Init, AskInv, EntryInv

LEMMA ShownFollows == TypeOK /\ FreshInv /\ EntryInv => ShownIsRight
<1> SUFFICES ASSUME TypeOK, FreshInv, EntryInv, NEW k \in Keys, textures[k] # None, ~Stale(k),
                    ~Toggling, ~(g_mods_requested /\ textures[k].hash \in g_pending),
                    ~Unknown(textures[k].hash), textures[k].hash \notin glimpsed
             PROVE  textures[k].pix = IF g_mods_requested THEN Shows(disk[textures[k].hash]) ELSE 0
  BY DEF ShownIsRight
<1> DEFINE h == textures[k].hash
<1> DEFINE p == textures[k].pix
<1>1. h \in Hashes /\ textures[k].hash_gen = g_hash_gen[h]
  BY DEF TypeOK, Entries, Stale
<1>2. Shown(h, p) /\ g_mods_requested = was_on /\ ~Forced
  BY <1>1 DEF EntryInv, Carries, Toggling
<1>3. /\ p = FoundBy(h)
      /\ was_on /\ g_cache[h] = None => Base(h) = 0
  BY <1>2 DEF Shown, Forced
<1>4. CASE ~g_mods_requested
  BY <1>2, <1>3, <1>4 DEF FoundBy
<1>5. CASE g_mods_requested /\ g_cache[h] # None
  <2>1. g_cache[h] = Shows(disk[h])
    BY <1>1, <1>2, <1>5 DEF FreshInv, HashInv
  <2> QED
    BY <1>2, <1>3, <1>5, <2>1 DEF FoundBy
<1>6. CASE g_mods_requested /\ g_cache[h] = None
  <2>1. p = 0 /\ Base(h) = 0 /\ h \notin unnoted
    BY <1>2, <1>3, <1>6 DEF FoundBy, Unknown
  <2>2. Written(h) = {}
    BY <1>1, <1>2, <1>6, <2>1 DEF FreshInv, HashInv
  <2> QED
    BY <1>1, <1>6, <2>1, <2>2, FileTypes
<1> QED
  BY <1>4, <1>5, <1>6

-----------------------------------------------------------------------------
(* The theorems.                                                           *)

LEMMA InitInv == Init => IInv
<1> SUFFICES ASSUME Init PROVE IInv
  OBVIOUS
<1> QED
  BY InitTypes DEF Init, IInv, StampInv, UploadInv, GateIsSound, PendingIsServed

\* IInv is an invariant of Textures.
THEOREM Invariance == Spec => []IInv
<1>1. IInv /\ [Next]_vars => IInv'
  BY TypeStep, GateStep, PendingStep DEF IInv, Gates
<1> QED
  BY InitInv, <1>1, PTL DEF Spec

\* The variables keep their types, for any instance.
THEOREM TypeCorrect == Spec => []TypeOK
<1>1. IInv => TypeOK
  BY DEF IInv
<1> QED
  BY Invariance, <1>1, PTL

\* An entry that the one atomic load lets pass was built from the current generation
\* of its hash, unless the loader is about to announce a newer one.
THEOREM GateSound == Spec => []GateIsSound
<1>1. IInv => GateIsSound
  BY DEF IInv
<1> QED
  BY Invariance, <1>1, PTL

\* A hash that is marked as pending is in the queue or in the loader's hands, however
\* many requests a scan cancels.
THEOREM RequestsServed == Spec => []PendingIsServed
<1>1. IInv => PendingIsServed
  BY DEF IInv
<1> QED
  BY Invariance, <1>1, PTL

\* Whatever the user does, and whenever: what is cached for a hash is what its files decode
\* to, unless a scan is about to invalidate it or no listing has told of the change.  No
\* decode that was under way wins over a reload.
THEOREM CacheFresh == Spec => []CacheIsFresh
<1>1. TypeOK /\ FreshInv /\ [Next]_vars => FreshInv'
  BY FreshStep
<1>2. FreshInv => CacheIsFresh
  BY DEF FreshInv, HashInv, CacheIsFresh
<1> QED
  BY InitFresh, TypeCorrect, <1>1, <1>2, PTL DEF Spec

\* What an entry of the current generation shows is what the directory and the switch say,
\* whatever was looked up, decoded, switched or written in between, or the loader is on its
\* way to find out; but for hashes whose change no listing has told of, and for those looked
\* up during a toggle the loader has not seen.
THEOREM PixelsRight == Spec => []PixelsAreRight
<1> DEFINE Inv == TypeOK /\ FreshInv /\ AskInv /\ EntryInv
<1>1. Init => Inv
  BY InitTypes, InitFresh, InitEntries
<1>2. Inv /\ [Next]_vars => Inv'
  BY TypeStep, FreshStep, AskStep, EntryStep
<1>3. Inv => ShownIsRight
  BY ShownFollows
<1> QED
  BY CacheFresh, <1>1, <1>2, <1>3, PTL DEF Spec, PixelsAreRight
=============================================================================
