------------------------------- MODULE MCGpuPump -------------------------------
(* A small instance of GpuPump. *)
EXTENDS GpuPump

CONSTANT ib

C(op, arg) == [op |-> op, arg |-> arg]
P(outer, inner) == [outer |-> outer, inner |-> inner]

\* A buffer that calls another one, and one the machine parks in.
Nested  == P(<<C("wait", 1), C("call", 0)>>, <<C("swap", 0)>>)
Parking == P(<<C("wait", 2), C("draw", 0)>>, <<>>)
I       == C("int", {0})
S       == C("swap", 0)

\* One buffer used twice; swaps before, with and after the first interrupt; a
\* ring that wraps.
MCScripts == {<<C("ib", Nested), C("ib", Parking)>>,
              <<S, I, C("wait", 1), S, I>>}
Both      == BOOLEAN
=============================================================================
