----------------------------- MODULE MCHostThreads -----------------------------
(* Small instances of HostThreads. *)
EXTENDS HostThreads

CONSTANTS M, A, B, e, n, s, m

C(op, on)  == [op |-> op, on |-> on, all |-> FALSE, limit |-> FALSE, alert |-> FALSE]
For(o)     == C("wait", <<o>>)
All(on)    == [C("wait", on) EXCEPT !.all = TRUE]
Timed(on)  == [C("wait", on) EXCEPT !.limit = TRUE]
Alert(on)  == [C("wait", on) EXCEPT !.alert = TRUE]
Both(on)   == [Alert(on) EXCEPT !.limit = TRUE]
Do(m1, a1, b1) == [t \in {M, A, B} |-> IF t = M THEN m1 ELSE IF t = A THEN a1 ELSE b1]

MCKind == [o \in {e, n, s, m} |->
             IF o = e THEN "auto" ELSE IF o = n THEN "manual" ELSE IF o = s THEN "semaphore" ELSE "mutant"]

\* Two threads take a semaphore and a mutant, in opposite orders, one of them twice.
Opposite == Do(<<C("create", <<A>>), C("create", <<B>>), C("release", <<s>>), C("release", <<s>>)>>,
               <<All(<<s, m>>), C("release", <<m>>)>>,
               <<All(<<m, s>>), For(m), C("release", <<m>>), C("release", <<m>>)>>)
\* Events for two waiters, one of which polls first and gives up.
Rivals   == Do(<<C("create", <<A>>), C("create", <<B>>), C("set", <<e>>), C("set", <<n>>), C("reset", <<n>>)>>,
               <<Timed(<<e, s>>), For(n)>>,
               <<Timed(<<e>>), For(n)>>)
\* Callbacks for a thread in alertable waits.
Alerted  == Do(<<C("create", <<A>>), C("callback", <<A>>), C("callback", <<A>>), For(A)>>,
               <<Alert(<<e>>), Both(<<n, s>>)>>, <<>>)
\* A thread that shares objects with another is suspended twice and resumed until
\* the host's count is zero too; it ends after that, and is joined.
Stopped  == Do(<<C("create", <<A>>), C("create", <<B>>), C("suspend", <<A>>), C("suspend", <<A>>),
                 C("resume", <<A>>), C("resume", <<A>>), C("resume", <<A>>), C("set", <<n>>), For(A)>>,
               <<C("set", <<e>>), Timed(<<e, s>>), For(n)>>,
               <<Timed(<<e, s>>)>>)
\* A thread suspends itself.
Self     == Do(<<C("create_suspended", <<A>>), C("resume", <<A>>), C("resume", <<A>>), Timed(<<A>>)>>,
               <<C("self_suspend", <<A>>), C("release", <<s>>)>>, <<>>)
\* Suspended twice and resumed twice.
Twice    == Do(<<C("create", <<A>>), C("suspend", <<A>>), C("suspend", <<A>>), C("resume", <<A>>), C("resume", <<A>>)>>,
               <<C("set", <<e>>), C("set", <<e>>), For(e)>>, <<>>)

Orderly == {Opposite, Rivals, Alerted, Stopped, Self}
Nested  == {Twice}
=============================================================================
