------------------------------- MODULE Clock -------------------------------
(* The clock of a film (class Clock of src/viewer/lib/playback.ts), as        *)
(* operators on its state.  Positions are whole reference milliseconds; one   *)
(* step at 1x is one of them.                                                 *)
EXTENDS Integers, FiniteSetsExt

CONSTANTS Rates,           \* the rates the playbar offers, 1 among them
          FitTicks         \* how many ticks the whole run takes at "fit"

ASSUME ClockAssumption == /\ Rates \subseteq Nat \ {0}
                          /\ FitTicks \in Nat \ {0}

NewClock(duration) ==
    [total |-> Max({1, duration}), d |-> 0, rate |-> 1, fitted |-> FALSE, playing |-> FALSE]

(* How far the film moves while one tick passes. *)
Speed(c) == IF c.fitted THEN Max({1, c.total \div FitTicks}) ELSE c.rate

Inside(c, d) == Max({0, Min({c.total, d})})

Seek(c, t)       == [c EXCEPT !.d = Inside(c, t)]
SetRate(c, rate) == [c EXCEPT !.fitted = FALSE, !.rate = rate]
FitIn(c)         == [c EXCEPT !.fitted = TRUE]
Pause(c)         == [c EXCEPT !.playing = FALSE]

(* Play at the end is a replay. *)
Play(c) ==
    IF c.playing THEN c
    ELSE [c EXCEPT !.playing = TRUE, !.d = IF @ >= c.total THEN 0 ELSE @]

Toggle(c) == IF c.playing THEN Pause(c) ELSE Play(c)

(* Mutant of Tick: a film that is over begins again. *)
TickAround(c, ticks) == [c EXCEPT !.d = (@ + ticks * Speed(c)) % (c.total + 1)]

(* What the ticker does: on by the time that passed, and at the end it stops. *)
Tick(c, ticks) ==
    LET on == c.d + ticks * Speed(c)
    IN  IF on >= c.total THEN Pause([c EXCEPT !.d = c.total]) ELSE [c EXCEPT !.d = on]

(* A frame forth or back of what is being watched. *)
Step(c, direction) ==
    [Pause(c) EXCEPT !.d = Inside(c, c.d + direction * Speed(c))]
=============================================================================
