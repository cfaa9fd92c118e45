---------------------------- MODULE CommandStream ----------------------------
(***************************************************************************)
(* What the guest and the renderer promise each other about the guest's    *)
(* command stream, without ring, buffers, threads or parking: the renderer *)
(* executes the commands one by one in the order they were issued in, none *)
(* before it was kicked, and gives back memory only of commands that it    *)
(* has executed.                                                           *)
(***************************************************************************)
EXTENDS Integers

VARIABLES
  issued,     \* commands the guest has issued
  kicked,     \* commands issued when it last told the renderer
  done,       \* commands the renderer has executed
  freed       \* commands whose memory the guest may use again

vars == <<issued, kicked, done, freed>>

Init == issued = 0 /\ kicked = 0 /\ done = 0 /\ freed = 0

\* Several at a time: a buffer is called with all that it holds.
Issue == issued' \in Nat /\ issued' > issued /\ UNCHANGED <<kicked, done, freed>>

Kick == kicked' = issued /\ UNCHANGED <<issued, done, freed>>

Execute == done < kicked /\ done' = done + 1 /\ UNCHANGED <<issued, kicked, freed>>

Free == freed' \in freed .. done /\ UNCHANGED <<issued, kicked, done>>

Next == Issue \/ Kick \/ Execute \/ Free

Spec == Init /\ [][Next]_vars
=============================================================================
