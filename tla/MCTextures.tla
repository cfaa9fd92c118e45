------------------------------ MODULE MCTextures ------------------------------
(* Small instances of Textures. *)
EXTENDS Textures

CONSTANTS k1, h1, h2
OneKey    == {k1}
FirstHash == [k \in OneKey |-> h1]
OneHash   == {h1}
TwoHashes == {h1, h2}
\* The first hash has a file; another one is written, newer, or as old and not yet whole.
OneFile   == [h \in Hashes |-> [e \in Exts |->
               IF h = h1 THEN [pix |-> 1, time |-> 1] ELSE NoFile]]
Drop(p, t) == [hash |-> h1, ext |-> 1, pix |-> p, time |-> t]
SomeDrops == {Drop(2, 2), Drop(0, 1)}
Empty     == [h \in OneHash |-> [e \in Exts |-> NoFile]]
=============================================================================
