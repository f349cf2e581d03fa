------------------------------- MODULE Sampler -------------------------------
(***************************************************************************)
(* The sampler of a run (trace/Telemetry.java) and what reads after it:    *)
(* one thread that, at every tick, notes the instant and asks every machine*)
(* for its numbers, that drops half of everything and doubles its stride   *)
(* when the trace is full, and that stopSampling() interrupts and waits    *)
(* half a second for before the trace is taken and written (Trace.java).   *)
(*                                                                         *)
(* One metric per machine stands for the fifteen: they are pushed together.*)
(* A value is the instant it was read at, which is all the properties ask  *)
(* of it, and the tick stands for the instant.                             *)
(***************************************************************************)
EXTENDS Naturals, Sequences, FiniteSets

CONSTANTS
    Count,          \* how many machines are registered
    MaxTicks,       \* MAX_TICKS
    MayThrow,       \* whether Machine.sample() may throw: a walk that meets a null or a change
    LastTick        \* bound: the ticks of a run

ASSUME SamplerAssumption ==
    /\ Count \in Nat \ {0} /\ MaxTicks \in Nat \ {0, 1} /\ LastTick \in Nat
    /\ MayThrow \in BOOLEAN

Machines == 1 .. Count

VARIABLES
    sampler,        \* where its thread is: loop, thinning, stamping, reading, over
    next,           \* the machine it thins or reads next
    tick, stride,
    sampleTimes,
    series,         \* per machine
    interrupted,
    main,           \* running, stopping, stopped, taken, written
    joined,         \* whether the sampler was over when stopSampling() returned
    times,          \* the instants the trace took
    channels        \* what was written of each series

sampling == <<sampler, next, tick, stride, sampleTimes, series>>
taking == <<interrupted, main, joined, times, channels>>
vars == <<sampling, taking>>

-----------------------------------------------------------------------------
\* How many instants thin() leaves of n: its loop takes the last while the last has an
\* index of at least half the length, and looks at the length anew each time.
Kept(n) == CHOOSE k \in 0 .. n : /\ k = 0 \/ k - 1 < (k + 1) \div 2
                                 /\ \A j \in k + 1 .. n : j - 1 >= (j + 1) \div 2

ThinTimes(s) == [i \in 1 .. Kept(Len(s)) |-> s[2 * i - 1]]

\* Series.thin()
EveryOther(s) == [i \in 1 .. (Len(s) + 1) \div 2 |-> s[2 * i - 1]]

Init ==
    /\ sampler = "loop" /\ next = 1 /\ tick = 0 /\ stride = 1
    /\ sampleTimes = <<>> /\ series = [m \in Machines |-> <<>>]
    /\ interrupted = FALSE /\ main = "running" /\ joined = FALSE
    /\ times = <<>> /\ channels = [m \in Machines |-> <<>>]

-----------------------------------------------------------------------------
(* The sampler's thread. *)

\* A tick that is not of this stride.
Skip ==
    /\ sampler = "loop" /\ ~interrupted /\ tick < LastTick
    /\ tick % stride # 0
    /\ tick' = tick + 1
    /\ UNCHANGED <<sampler, next, stride, sampleTimes, series, taking>>

Tick ==
    /\ sampler = "loop" /\ ~interrupted /\ tick < LastTick
    /\ tick % stride = 0
    /\ tick' = tick + 1 /\ next' = 1
    /\ IF Len(sampleTimes) >= MaxTicks
         THEN sampler' = "thinning" /\ sampleTimes' = ThinTimes(sampleTimes)
         ELSE sampler' = "stamping" /\ UNCHANGED sampleTimes
    /\ UNCHANGED <<stride, series, taking>>

\* Mutant of ThinSeries: the last series is passed over.
ThinAllButOne ==
    /\ sampler = "thinning"
    /\ series' = [series EXCEPT ![next] = IF next < Count THEN EveryOther(@) ELSE @]
    /\ IF next < Count
         THEN next' = next + 1 /\ UNCHANGED <<sampler, stride>>
         ELSE sampler' = "stamping" /\ stride' = 2 * stride /\ next' = 1
    /\ UNCHANGED <<tick, sampleTimes, taking>>

ThinSeries ==
    /\ sampler = "thinning"
    /\ series' = [series EXCEPT ![next] = EveryOther(@)]
    /\ IF next < Count
         THEN next' = next + 1 /\ UNCHANGED <<sampler, stride>>
         ELSE sampler' = "stamping" /\ stride' = 2 * stride /\ next' = 1
    /\ UNCHANGED <<tick, sampleTimes, taking>>

Stamp ==
    /\ sampler = "stamping"
    /\ sampleTimes' = Append(sampleTimes, tick)
    /\ sampler' = "reading"
    /\ UNCHANGED <<next, tick, stride, series, taking>>

\* sample() of one machine, and what it filled in pushed; what it throws is ignored.
Read ==
    /\ sampler = "reading"
    /\ \E threw \in IF MayThrow THEN BOOLEAN ELSE {FALSE} :
         series' = IF threw THEN series ELSE [series EXCEPT ![next] = Append(@, tick)]
    /\ IF next < Count THEN next' = next + 1 /\ UNCHANGED sampler
                       ELSE next' = 1 /\ sampler' = "loop"
    /\ UNCHANGED <<tick, stride, sampleTimes, taking>>

SamplerEnds ==
    /\ sampler = "loop" /\ interrupted
    /\ sampler' = "over"
    /\ UNCHANGED <<next, tick, stride, sampleTimes, series, taking>>

-----------------------------------------------------------------------------
(* The main thread: stopSampling(), Trace.of() and toJson(). *)

StopSampling ==
    /\ main = "running"
    /\ main' = "stopping" /\ interrupted' = TRUE
    /\ UNCHANGED <<sampling, joined, times, channels>>

\* Mutant of Join: the sampler is taken to be over.
JoinWithoutWaiting ==
    /\ main = "stopping"
    /\ main' = "stopped" /\ joined' = TRUE
    /\ UNCHANGED <<sampling, interrupted, times, channels>>

\* join(500): the sampler is over, or its reading of a machine took too long.
Join ==
    /\ main = "stopping"
    /\ main' = "stopped" /\ joined' = (sampler = "over")
    /\ UNCHANGED <<sampling, interrupted, times, channels>>

\* Trace.of() copies the instants and keeps the series themselves.
Take ==
    /\ main = "stopped"
    /\ main' = "taken" /\ times' = sampleTimes
    /\ UNCHANGED <<sampling, interrupted, joined, channels>>

Write ==
    /\ main = "taken"
    /\ main' = "written" /\ channels' = series
    /\ UNCHANGED <<sampling, interrupted, joined, times>>

SamplerStep == Skip \/ Tick \/ ThinSeries \/ Stamp \/ Read \/ SamplerEnds

MainStep == StopSampling \/ Join \/ Take \/ Write

Next == SamplerStep \/ MainStep

Spec == Init /\ [][Next]_vars

-----------------------------------------------------------------------------
(* Properties. *)

Between == sampler \in {"loop", "over"}

\* Where reading does not throw, every machine's series holds the same instants: thinning,
\* however often it happened, has cost all of them the same values.
SeriesInStep == ~MayThrow /\ Between => \A m, n \in Machines : series[m] = series[n]

\* What the comment of thin() promises, that the instants and every series lose the same
\* indices: a value is filed under the instant it was read at.
InstantsInStep == ~MayThrow /\ Between => \A m \in Machines : series[m] = sampleTimes

\* What was written is one state of the recording, unless the sampler outstayed join():
\* no series has a value the others lack.
WrittenWhole ==
    ~MayThrow /\ main = "written" /\ joined => \A m, n \in Machines : channels[m] = channels[n]

=============================================================================
