------------------------------ MODULE MCFrameQueue ------------------------------
(* Small instances of FrameQueue. *)
EXTENDS FrameQueue

TwoFbs   == {1, 2}
Building == [k \in Kinds |-> IF k = "raw" THEN 2 ELSE 1]
Both     == BOOLEAN
=============================================================================
