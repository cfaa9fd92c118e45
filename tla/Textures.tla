------------------------------ MODULE Textures ------------------------------
(***************************************************************************)
(* Texture replacement: the loader of renderer/texture_mods.cpp and the    *)
(* texture cache of native_vk.cpp that shows what it finds.                *)
(*                                                                         *)
(* A replacement is a file named by the hash of the guest texture.  The    *)
(* loader thread scans the directory at 4 Hz and decodes what the present  *)
(* thread asks for.  An entry of the texture cache carries two stamps: the *)
(* global generation it was last found valid at, read without a lock, and  *)
(* the generation of its own hash.                                         *)
(*                                                                         *)
(* Pixels are a picture, or 0 for the guest's own. The files of a hash     *)
(* differ in their extension. The directory is listed in one step, and so  *)
(* are the files of a hash looked at when one is decoded. The condition    *)
(* variable only shortens the loader's wait, which ends with the next poll *)
(* anyway, and is a guard here. Dumps and decoders are left out, and so is *)
(* what happens to the images an entry had before.                         *)
(*                                                                         *)
(* Operators named Bad... are faulty variants the properties are tested    *)
(* against; Next uses none.                                                *)
(***************************************************************************)
EXTENDS Integers, Sequences

CONSTANTS
  Keys,       \* keys of the texture cache: guest addresses
  Hashes,     \* content hashes of guest textures
  Start,      \* what the guest has at the addresses in the beginning
  Exts,       \* extensions of files in texture_mods
  kExts,      \* those the loader opens, in this order
  Pictures,   \* what files may decode to
  Times,      \* what the time of the last write of a file may be
  Pack,       \* the files that are in texture_mods in the beginning
  Drops,      \* the files the user may put there: hash, extension, picture, time
  MaxEvents,  \* bound: events, listings that break off among them
  None

Pixels == Pictures \cup {0}
Files  == [pix : Pixels, time : Times]
NoFile == [pix |-> 0, time |-> 0]

ASSUME TexturesAssumption ==
  /\ Start \in [Keys -> Hashes] /\ Exts \subseteq Nat /\ kExts \subseteq Exts
  /\ Pictures \subseteq Nat \ {0} /\ Times \subseteq Nat \ {0}
  /\ Pack \in [Hashes -> [Exts -> Files \cup {NoFile}]]
  /\ Drops \subseteq [hash : Hashes, ext : Exts, pix : Pixels, time : Times]
  /\ MaxEvents \in Nat
  /\ None \notin Keys \cup Hashes \cup Pixels
  /\ None \notin [hash : Hashes, mod_gen : Nat, hash_gen : Nat, pix : Pixels]

VARIABLES
  disk,             \* the files of each hash in texture_mods, by extension
  last,             \* the extension of the file of each hash that is listed last
  events,           \* how many events there were
  content,          \* hash of what the guest has at each address
  tex_mods,         \* the cvar
  unnoted,          \* history: hashes with files that no listing has told of
  glimpsed,         \* history: hashes looked up before the loader saw the last toggle
  g_mods_requested, g_cache, g_pending, g_queue, g_hash_gen, g_mod_gen,
  lpc,              \* where the loader stands
  was_on,           \* was_on and s_was_on of the loader, its `on' from Top on
  due,              \* next_poll has passed
  g_seen, s_force_dirty, cur, \* times of hashes, 0 for a hash that is not in the map
  loading, loaded,  \* hash taken from the queue, what its file decoded to
  textures,         \* entries of the cache, or None
  ppc, todo,        \* where the present thread stands; keys its frame still binds
  key, hash, mod_gen, hash_gen, pix \* locals of ResolveTextureEntry

userVars   == <<disk, last, events, content, tex_mods>>
historyVars == <<unnoted, glimpsed>>
sharedVars == <<g_cache, g_pending, g_queue, g_hash_gen>>
loaderVars == <<was_on, g_seen, s_force_dirty, cur, loading, loaded>>
localVars  == <<key, hash, mod_gen, hash_gen, pix>>
presentVars == <<textures, ppc, todo, localVars>>
vars == <<userVars, historyVars, g_mods_requested, sharedVars, g_mod_gen, lpc, due, loaderVars,
          presentVars>>

\* A file that is listed is there, if any is.
Lists(files, e) == files[e] # NoFile \/ \A d \in Exts : files[d] = NoFile

NoFiles == [h \in Hashes |-> 0]

Init ==
  /\ disk = Pack /\ last \in [Hashes -> Exts] /\ \A h \in Hashes : Lists(disk[h], last[h])
  /\ events = 0 /\ content = Start /\ tex_mods \in BOOLEAN
  /\ unnoted = {} /\ glimpsed = {}
  /\ g_mods_requested = FALSE
  /\ g_cache = [h \in Hashes |-> None] /\ g_pending = {} /\ g_queue = <<>>
  /\ g_hash_gen = [h \in Hashes |-> 0] /\ g_mod_gen = 1
  /\ lpc = "off" /\ was_on = FALSE /\ due = TRUE
  /\ g_seen = NoFiles /\ s_force_dirty = FALSE /\ cur = NoFiles /\ loading = None /\ loaded = None
  /\ textures = [k \in Keys |-> None]
  /\ ppc = "bind" /\ todo = {} /\ key = None /\ hash = None
  /\ mod_gen = 0 /\ hash_gen = 0 /\ pix = 0

-----------------------------------------------------------------------------
(* The user and the guest.                                                 *)

Event == events < MaxEvents /\ events' = events + 1

\* The user acts whenever he likes.  A file that is written may have the time of the
\* one before, or of any other, and the directory may list another file last.  While
\* replacements are off, nothing is decoded, and the next scan takes every file for new.
Change(h, e, file) ==
  /\ Event
  /\ disk' = [disk EXCEPT ![h][e] = file]
  /\ \E l \in Exts : Lists(disk'[h], l) /\ last' = [last EXCEPT ![h] = l]
  /\ unnoted' = IF was_on THEN unnoted \cup {h} ELSE unnoted
  /\ UNCHANGED <<content, tex_mods, glimpsed, g_mods_requested, sharedVars, g_mod_gen, lpc, due,
                 loaderVars, presentVars>>

\* A file that is still being written does not decode: its picture is 0.
Save == \E f \in Drops : Change(f.hash, f.ext, [pix |-> f.pix, time |-> f.time])

Remove(h) == \E e \in Exts : disk[h][e] # NoFile /\ Change(h, e, NoFile)

\* F8 or the checkbox.
Toggle ==
  /\ Event
  /\ tex_mods' = ~tex_mods
  /\ UNCHANGED <<disk, last, content, historyVars, g_mods_requested, sharedVars, g_mod_gen, lpc,
                 due, loaderVars, presentVars>>

\* The guest has streamed another texture to an address.
Stream(k, h) ==
  /\ Event
  /\ content' = [content EXCEPT ![k] = h]
  /\ UNCHANGED <<disk, last, tex_mods, historyVars, g_mods_requested, sharedVars, g_mod_gen,
                 lpc, due, loaderVars, presentVars>>

-----------------------------------------------------------------------------
(* The loader: LoaderMain, with ScanModDir and LoadBlocking.               *)

\* The clock is read in the wait only: at the top of the loop it would do what one
\* more round does.
PollDue ==
  /\ lpc = "wait" /\ ~due /\ due' = TRUE
  /\ UNCHANGED <<userVars, historyVars, g_mods_requested, sharedVars, g_mod_gen, lpc,
                 loaderVars, presentVars>>

BadInvalidated(hs) ==
  /\ g_cache' = [h \in Hashes |-> IF h \in hs THEN None ELSE g_cache[h]]
  /\ g_hash_gen' = [h \in Hashes |-> IF h \in hs THEN g_hash_gen[h] + 1 ELSE g_hash_gen[h]]
  /\ g_pending' = g_pending
  /\ g_queue' = SelectSeq(g_queue, LAMBDA h : h \notin hs)

\* The hash of a cancelled load stays in the queue.
Invalidated(hs) ==
  /\ g_cache' = [h \in Hashes |-> IF h \in hs THEN None ELSE g_cache[h]]
  /\ g_hash_gen' = [h \in Hashes |-> IF h \in hs THEN g_hash_gen[h] + 1 ELSE g_hash_gen[h]]
  /\ g_pending' = g_pending \ hs
  /\ g_queue' = g_queue

\* The top of the loop, which scans when it is time or after a toggle.
Top ==
  LET on == g_mods_requested
  IN /\ lpc = "top"
     /\ was_on' = on
     /\ due' = IF due \/ on # was_on THEN FALSE ELSE due
     /\ lpc' = CASE on # was_on                 -> "revert"
                 [] on = was_on /\ due /\ on    -> "read"
                 [] on = was_on /\ ~(due /\ on) -> "wait"
     /\ UNCHANGED <<userVars, historyVars, g_mods_requested, sharedVars, g_mod_gen, g_seen,
                    s_force_dirty, cur, loading, loaded, presentVars>>

\* After a toggle, whatever has a file changes its looks.
Revert ==
  /\ lpc = "revert" /\ lpc' = "revert_bump"
  /\ Invalidated({h \in Hashes : g_seen[h] # 0})
  /\ s_force_dirty' = was_on
  /\ unnoted' = {h \in unnoted : g_seen[h] = 0} /\ glimpsed' = {}
  /\ UNCHANGED <<userVars, g_mods_requested, g_mod_gen, due, was_on, g_seen, cur, loading,
                 loaded, presentVars>>

\* The global generation moves after the mutex is free.
Bump ==
  /\ lpc \in {"revert_bump", "diff_bump"}
  /\ g_mod_gen' = g_mod_gen + 1
  /\ lpc' = IF lpc = "revert_bump" /\ was_on THEN "read" ELSE "wait"
  /\ UNCHANGED <<userVars, historyVars, g_mods_requested, sharedVars, due, loaderVars,
                 presentVars>>

\* The times the directory has for a hash.
Written(h) == {disk[h][e].time : e \in {e \in Exts : disk[h][e] # NoFile}}

\* One time is kept for a hash, that of the file which happens to be listed last.  A
\* listing that breaks off leaves files out.  The first scan follows a toggle and is
\* forced, so the branch for a baseline is not reached.
ReadDir ==
  /\ lpc = "read" /\ lpc' = "diff"
  /\ cur' \in [Hashes -> Times \cup {0}]
  /\ \/ (\A h \in Hashes : cur'[h] = disk[h][last[h]].time) /\ UNCHANGED events
     \/ (\A h \in Hashes : cur'[h] \in Written(h) \cup {0}) /\ Event
  /\ unnoted' = {h \in unnoted : cur'[h] = g_seen[h]}
                  \cup {h \in Hashes : cur'[h] = 0 /\ Written(h) # {}}
  /\ UNCHANGED <<disk, last, content, tex_mods, glimpsed, g_mods_requested, sharedVars,
                 g_mod_gen, due, was_on, g_seen, s_force_dirty, loading, loaded, presentVars>>

BadDirty == {h \in Hashes : cur[h] # 0 /\ (s_force_dirty \/ g_seen[h] # cur[h])}
Dirty    == {h \in Hashes : g_seen[h] # cur[h] \/ (s_force_dirty /\ cur[h] # 0)}

Diff ==
  /\ lpc = "diff"
  /\ Invalidated(Dirty)
  /\ lpc' = IF Dirty = {} THEN "wait" ELSE "diff_bump"
  /\ g_seen' = cur /\ s_force_dirty' = FALSE /\ cur' = NoFiles
  /\ UNCHANGED <<userVars, historyVars, g_mods_requested, g_mod_gen, due, was_on, loading,
                 loaded, presentVars>>

\* The wait is over: for a poll, a toggle or a request, which is dropped when it
\* was cancelled or when replacements are off.
BackToTop ==
  /\ lpc = "wait" /\ (due \/ g_mods_requested # was_on)
  /\ lpc' = "top"
  /\ UNCHANGED <<userVars, historyVars, g_mods_requested, sharedVars, g_mod_gen, due,
                 loaderVars, presentVars>>

Take ==
  LET h == Head(g_queue)
      load == h \in g_pending /\ was_on
  IN /\ lpc = "wait" /\ ~due /\ g_mods_requested = was_on /\ g_queue # <<>>
     /\ g_queue' = Tail(g_queue)
     /\ g_pending' = IF was_on THEN g_pending ELSE g_pending \ {h}
     /\ lpc' = IF load THEN "load" ELSE "top"
     /\ loading' = IF load THEN h ELSE None
     /\ UNCHANGED <<userVars, historyVars, g_mods_requested, g_cache, g_hash_gen, g_mod_gen,
                    due, was_on, g_seen, s_force_dirty, cur, loaded, presentVars>>

\* LoadBlocking, without the mutex: the first file decides, also when it does not
\* decode.
First(files) ==
  {e \in kExts : files[e] # NoFile /\ \A d \in kExts : d < e => files[d] = NoFile}
Shows(files) == IF First(files) = {} THEN 0 ELSE files[CHOOSE e \in First(files) : TRUE].pix
Load ==
  /\ lpc = "load" /\ lpc' = "store"
  /\ loaded' = Shows(disk[loading])
  /\ UNCHANGED <<userVars, historyVars, g_mods_requested, sharedVars, g_mod_gen, due, was_on,
                 g_seen, s_force_dirty, cur, loading, presentVars>>

\* A miss is remembered too, but invalidates nothing.
Store ==
  /\ lpc = "store" /\ lpc' = "top"
  /\ g_cache' = [g_cache EXCEPT ![loading] = loaded]
  /\ g_pending' = g_pending \ {loading} /\ g_queue' = g_queue
  /\ IF loaded # 0
     THEN /\ g_hash_gen' = [g_hash_gen EXCEPT ![loading] = @ + 1]
          /\ g_mod_gen' = g_mod_gen + 1
     ELSE UNCHANGED <<g_hash_gen, g_mod_gen>>
  /\ loading' = None /\ loaded' = None
  /\ UNCHANGED <<userVars, historyVars, g_mods_requested, due, was_on, g_seen, s_force_dirty,
                 cur, presentVars>>

Loader == Top \/ Revert \/ Bump \/ ReadDir \/ Diff \/ BackToTop \/ Take \/ Load \/ Store

-----------------------------------------------------------------------------
(* The present thread: ResolveTextureEntry for the textures of a frame.    *)

\* PollModDir starts the loader when replacements are first on.
Poll ==
  /\ g_mods_requested' = tex_mods
  /\ lpc' = IF tex_mods /\ lpc = "off" THEN "top" ELSE lpc

\* TexEvictSweep may drop any entry, before textures are bound.
TexEvictSweep(evicted) ==
  textures' = [k \in Keys |-> IF k \in evicted THEN None ELSE textures[k]]

\* The end of a frame, and the next one, which binds some of the textures.
Frame(binds, evicted) ==
  /\ ppc = "bind" /\ todo = {} /\ todo' = binds
  /\ Poll
  /\ TexEvictSweep(evicted)
  /\ UNCHANGED <<userVars, historyVars, sharedVars, g_mod_gen, due, loaderVars, ppc, localVars>>

BadCached(k, h) == textures[k] # None

\* Of the same content, and with an image.
Cached(k, h) == textures[k] # None /\ textures[k].hash = h

\* What the locals are when ResolveTextureEntry has returned.
Returned == key' = None /\ hash' = None /\ mod_gen' = 0 /\ hash_gen' = 0 /\ pix' = 0
Reading(k) ==
  key' = k /\ hash' = content[k] /\ mod_gen' = g_mod_gen /\ UNCHANGED <<hash_gen, pix>>

\* The gate: one atomic load.  If the entry carries the generation it is used.
Resolve(k) ==
  /\ ppc = "bind" /\ k \in todo /\ todo' = todo \ {k}
  /\ \/ /\ Cached(k, content[k]) /\ textures[k].mod_gen = g_mod_gen
        /\ ppc' = "bind" /\ Returned
     \/ /\ Cached(k, content[k]) /\ textures[k].mod_gen # g_mod_gen
        /\ ppc' = "compare" /\ Reading(k)
     \/ ~Cached(k, content[k]) /\ ppc' = "poll" /\ Reading(k)
  /\ UNCHANGED <<userVars, historyVars, g_mods_requested, sharedVars, g_mod_gen, lpc, due,
                 loaderVars, textures>>

\* ModGenerationFor: an entry whose own generation has not moved is stamped again.
Compare ==
  LET same == textures[key].hash_gen = g_hash_gen[hash]
  IN /\ ppc = "compare"
     /\ ppc' = IF same THEN "bind" ELSE "poll"
     /\ textures' = IF same THEN [textures EXCEPT ![key].mod_gen = mod_gen] ELSE textures
     /\ IF same THEN Returned ELSE UNCHANGED localVars
     /\ UNCHANGED <<userVars, historyVars, g_mods_requested, sharedVars, g_mod_gen, lpc, due,
                    loaderVars, todo>>

PollFirst ==
  /\ ppc = "poll" /\ ppc' = "find"
  /\ Poll
  /\ UNCHANGED <<userVars, historyVars, sharedVars, g_mod_gen, due, loaderVars, textures, todo,
                 localVars>>

Found(h) == IF g_mods_requested /\ g_cache[h] # None THEN g_cache[h] ELSE 0

\* FindReplacement under the mutex: guest pixels while the replacement is not decoded.
Find ==
  LET ask == g_mods_requested /\ g_cache[hash] = None /\ hash \notin g_pending
  IN /\ ppc = "find" /\ ppc' = "upload"
     /\ hash_gen' = g_hash_gen[hash] /\ pix' = Found(hash)
     /\ g_pending' = IF ask THEN g_pending \cup {hash} ELSE g_pending
     /\ g_queue' = IF ask THEN Append(g_queue, hash) ELSE g_queue
     /\ glimpsed' = IF g_mods_requested # was_on THEN glimpsed \cup {hash} ELSE glimpsed
     /\ UNCHANGED <<userVars, unnoted, g_mods_requested, g_cache, g_hash_gen, g_mod_gen, lpc,
                    due, loaderVars, textures, todo, key, hash, mod_gen>>

BadGate  == [hash |-> hash, mod_gen |-> g_mod_gen, hash_gen |-> hash_gen, pix |-> pix]
BadEntry == [hash |-> hash, mod_gen |-> mod_gen, hash_gen |-> g_hash_gen[hash], pix |-> pix]
Entry    == [hash |-> hash, mod_gen |-> mod_gen, hash_gen |-> hash_gen, pix |-> pix]

\* The pixels are uploaded, which may fail; the stamps are those read before.
Upload ==
  /\ ppc = "upload" /\ ppc' = "bind"
  /\ \E done \in BOOLEAN : textures' = [textures EXCEPT ![key] = IF done THEN Entry ELSE None]
  /\ Returned
  /\ UNCHANGED <<userVars, historyVars, g_mods_requested, sharedVars, g_mod_gen, lpc, due,
                 loaderVars, todo>>

Present == (\E k \in Keys : Resolve(k)) \/ Compare \/ PollFirst \/ Find \/ Upload

Next ==
  \/ Save \/ \E h \in Hashes : Remove(h)
  \/ Toggle
  \/ \E k \in Keys, h \in Hashes : Stream(k, h)
  \/ PollDue \/ Loader
  \/ \E binds, evicted \in SUBSET Keys : Frame(binds, evicted)
  \/ Present

Spec == Init /\ [][Next]_vars

\* Both threads are scheduled, the clock runs, requests are not starved by polls,
\* which come 250 ms after a scan and so after the next look at the queue, and the
\* textures in question are ones the guest draws again and again.
FairSpec ==
  /\ Spec
  /\ WF_vars(Loader \/ PollDue) /\ SF_vars(Take) /\ WF_vars(Present)
  /\ \A k \in Keys :
       SF_vars(\E binds, evicted \in SUBSET Keys : k \in binds \ evicted /\ Frame(binds, evicted))

-----------------------------------------------------------------------------
Entries == [hash : Hashes, mod_gen : Nat, hash_gen : Nat, pix : Pixels]

\* The variables keep their types.
TypeOK ==
  /\ disk \in [Hashes -> [Exts -> Files \cup {NoFile}]] /\ events \in Nat
  /\ last \in [Hashes -> Exts] /\ content \in [Keys -> Hashes] /\ tex_mods \in BOOLEAN
  /\ unnoted \subseteq Hashes /\ glimpsed \subseteq Hashes
  /\ g_mods_requested \in BOOLEAN
  /\ g_cache \in [Hashes -> Pixels \cup {None}] /\ g_pending \subseteq Hashes
  /\ g_queue \in Seq(Hashes) /\ g_hash_gen \in [Hashes -> Nat] /\ g_mod_gen \in Nat
  /\ lpc \in {"off", "top", "revert", "revert_bump", "read", "diff", "diff_bump", "wait",
              "load", "store"}
  /\ was_on \in BOOLEAN /\ due \in BOOLEAN
  /\ g_seen \in [Hashes -> Times \cup {0}] /\ cur \in [Hashes -> Times \cup {0}]
  /\ s_force_dirty \in BOOLEAN
  /\ lpc \in {"load", "store"} => loading \in Hashes
  /\ lpc = "store" => loaded \in Pixels
  /\ textures \in [Keys -> Entries \cup {None}]
  /\ ppc \in {"bind", "compare", "poll", "find", "upload"} /\ todo \subseteq Keys
  /\ ppc # "bind" => key \in Keys /\ hash \in Hashes
  /\ ppc = "compare" => textures[key] # None /\ textures[key].hash = hash
  /\ mod_gen \in Nat /\ hash_gen \in Nat /\ pix \in Pixels

\* "an entry carrying the current global generation cannot be stale": unless the
\* loader is between the invalidation and the bump that announces it.
Stale(k) == textures[k].hash_gen # g_hash_gen[textures[k].hash]
GateIsSound ==
  \A k \in Keys : textures[k] # None /\ textures[k].mod_gen = g_mod_gen /\ Stale(k)
                    => lpc \in {"revert_bump", "diff_bump"}

\* A pending hash is not asked for again, so it has to be in the queue or in the
\* loader's hands: what a scan cancels must be free to be asked for anew.
PendingIsServed ==
  \A h \in g_pending : \/ \E i \in DOMAIN g_queue : g_queue[i] = h
                       \/ lpc \in {"load", "store"} /\ loading = h

\* "an old in-flight decode cannot win a reload": while replacements are on, what is cached
\* for a hash is what its file decodes to, or the hash is about to be invalidated: by the
\* scan a toggle forces or by the one under way; or its files are ones that no listing has
\* told of yet.
Forced       == lpc = "revert" \/ s_force_dirty
Unknown(h)   == h \in unnoted \/ (lpc = "diff" /\ h \in Dirty)
CacheIsFresh ==
  \A h \in Hashes : g_cache[h] \in {None, Shows(disk[h])} \/ ~was_on \/ Forced \/ Unknown(h)

\* An entry of the current generation of its hash shows what the directory and the switch
\* say, or something is on its way that will move the generation: a toggle until the scan
\* it forces, the decode of a request.  Two kinds of hashes are out of the loader's sight:
\* those whose files no listing has told of, and those that were looked up between a toggle
\* and the moment at which the loader saw it, should it be undone before that.
Toggling == g_mods_requested # was_on \/ Forced
ShownIsRight ==
  \A k \in Keys : textures[k] # None /\ ~Stale(k) =>
    LET h == textures[k].hash
    IN \/ textures[k].pix = IF g_mods_requested THEN Shows(disk[h]) ELSE 0
       \/ Toggling \/ (g_mods_requested /\ h \in g_pending) \/ Unknown(h) \/ h \in glimpsed

\* No pixels are wrong but those of a hash whose files no listing has told of since they
\* were written or removed, or that was looked up during a toggle nobody else saw: neither
\* what is kept for a hash nor what is drawn.  A toggle the loader sees makes both good.
PixelsAreRight == CacheIsFresh /\ ShownIsRight

\* Once the user and the guest leave things alone, what the guest draws shows its file's
\* pixels if replacements are on and its own if not, whatever was toggled, written, removed,
\* streamed or evicted while something else was on its way, if only some listing has told
\* of the last change and the loader has seen the last toggle.
Right(k) ==
  textures[k] = None \/ /\ textures[k].hash = content[k]
                        /\ textures[k].pix = IF tex_mods THEN Shows(disk[content[k]]) ELSE 0
Known(k) == content[k] \notin unnoted \cup glimpsed
Settles  == \A k \in Keys : <>[]Known(k) => <>[]Right(k)

\* "switching off must revert to the guest's own art" (texture_mods.cpp:392).
OffReverts == \A k \in Keys : <>[](~tex_mods) => <>[](textures[k] # None => textures[k].pix = 0)
=============================================================================
