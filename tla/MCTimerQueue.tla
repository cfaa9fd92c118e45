---------------------------- MODULE MCTimerQueue ----------------------------
(* Small instances of TimerQueue: a one-shot item, one or two recurring    *)
(* items, a ring smaller than the number of items.                         *)
EXTENDS TimerQueue, TLC

CONSTANTS once, again, other, c1, c2

MCInterval == [i \in Items |-> IF i = once THEN 0 ELSE 1]
\* A past due time exercises the flood clamp, a future one the sorted list.
MCDues == {-1, 1}
\* Clients are alike, and so are the recurring items.
MCSymmetry == Permutations(Clients) \cup Permutations(Items \ {once})
=============================================================================
