------------------------------ MODULE MCWeather ------------------------------
(* Small simulations' worth of weather for module Weather. *)
EXTENDS Weather

Failure(kind, at) ==
    [kind |-> kind, at |-> at, drawn |-> FALSE, for |-> 0, notice |-> 0, after |-> 0,
     factor |-> 1, other |-> "m1"]

Drawn(kind) == [Failure(kind, 0) EXCEPT !.drawn = TRUE]

\* One of each kind, in no order of time and some at one instant, with a reclaim whose notice runs
\* out after the next failure is due; and a rate that overtakes them all.
Scripted == <<Failure("restart", 3),
              [Failure("freeze", 1) EXCEPT !.for = 2],
              Failure("partition", 1),
              [Failure("spotReclaim", 1) EXCEPT !.notice = 2, !.after = 1],
              [Failure("degrade", 2) EXCEPT !.factor = 2],
              Failure("heal", 3),
              Failure("kill", 2),
              [Drawn("degrade") EXCEPT !.factor = 2],
              [Drawn("freeze") EXCEPT !.for = 1]>>

Files == {1..6, 4..9}

\* Two freezes of which the second begins before the first has ended.
Overlapping == <<[Failure("freeze", 1) EXCEPT !.for = 3], [Failure("freeze", 2) EXCEPT !.for = 3]>>

OneFile == {1..2}
=============================================================================
