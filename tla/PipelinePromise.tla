-------------------------- MODULE PipelinePromise --------------------------
(***************************************************************************)
(* What the pipeline builder promises the present thread, without queue,   *)
(* workers, replay or counters: a key that was asked for is answered once, *)
(* with a new handle or with none; the answer goes into a place of the map *)
(* that is empty or failed, and where a live pipeline is already, the new  *)
(* handle is destroyed instead.                                            *)
(***************************************************************************)
EXTENDS Integers

CONSTANTS
  Keys,       \* what a pipeline may be asked for with
  None,       \* no entry in the map
  Null        \* an entry without a pipeline

VARIABLES
  asked,      \* keys asked for and not adopted yet
  answers,    \* answers that wait to be adopted: [key, pipe]
  live,       \* the map
  made,       \* handles made so far, per key
  gone        \* handles destroyed: [key, pipe]

vars == <<asked, answers, live, made, gone>>

Init ==
  /\ asked = {} /\ answers = {} /\ gone = {}
  /\ live = [k \in Keys |-> None] /\ made = [k \in Keys |-> 0]

Answered == {e.key : e \in answers}
Empty(k) == live[k] \in {None, Null}

\* A build makes the next handle of its key, or fails.
Outcomes(k) == {Null, made[k] + 1}
Make(k, p) == made' = IF p = Null THEN made ELSE [made EXCEPT ![k] = p]

Ask(k) == k \notin asked /\ asked' = asked \cup {k} /\ UNCHANGED <<answers, live, made, gone>>

Answer(k, p) ==
  /\ k \in asked \ Answered
  /\ answers' = answers \cup {[key |-> k, pipe |-> p]} /\ Make(k, p)
  /\ UNCHANGED <<asked, live, gone>>

\* All answers at once.
Adopt ==
  /\ live' = [k \in Keys |-> IF Empty(k) /\ k \in Answered THEN (CHOOSE e \in answers : e.key = k).pipe ELSE live[k]]
  /\ gone' = gone \cup {e \in answers : ~Empty(e.key) /\ e.pipe # Null}
  /\ asked' = asked \ Answered /\ answers' = {}
  /\ UNCHANGED made

\* A draw that builds its pipeline itself, or may have none.
Fill(k, p) ==
  /\ live[k] = None
  /\ live' = [live EXCEPT ![k] = p] /\ Make(k, p)
  /\ UNCHANGED <<asked, answers, gone>>

\* The process was killed or left, and nothing of it remains.
Restart ==
  /\ asked' = {} /\ answers' = {} /\ gone' = {}
  /\ live' = [k \in Keys |-> None] /\ made' = [k \in Keys |-> 0]

Next ==
  \/ \E k \in Keys : Ask(k) \/ \E p \in Outcomes(k) : Answer(k, p) \/ Fill(k, p)
  \/ Adopt \/ Restart

Spec == Init /\ [][Next]_vars
=============================================================================
