---------------------------- MODULE Sampler_proofs ----------------------------
(***************************************************************************)
(* Proofs about module Sampler, for any number of machines and any limit on*)
(* the ticks: the series of all machines lose and gain their values        *)
(* together, and a trace taken after the sampler was over was written      *)
(* whole.                                                                  *)
(***************************************************************************)
EXTENDS Sampler, TLAPS

\* The part of type correctness the arguments below need.
Places ==
    /\ sampler \in {"loop", "thinning", "stamping", "reading", "over"}
    /\ next \in Machines /\ (sampler \notin {"thinning", "reading"} => next = 1)
    /\ DOMAIN series = Machines

\* A pass over the machines, halfway: those it has been at are one step ahead of those it
\* has yet to come to, and alike among themselves.
HalfWayAt(m, n) ==
    /\ sampler = "thinning" /\ m < next /\ next <= n => series[m] = EveryOther(series[n])
    /\ sampler = "reading" /\ m < next /\ next <= n => series[m] = Append(series[n], tick)
    /\ (m < next <=> n < next) \/ sampler \notin {"thinning", "reading"}
         => series[m] = series[n]

HalfWay == \A m, n \in Machines : HalfWayAt(m, n)

\* Once the sampler was seen to be over it stays so, and the trace is of what it left.
Over ==
    /\ joined => sampler = "over"
    /\ main = "written" /\ joined => channels = series

InStep == ~MayThrow => HalfWay

Inv == Places /\ InStep /\ Over

-----------------------------------------------------------------------------
LEMMA InitInv == Init => Inv
  <1> SUFFICES ASSUME Init PROVE Inv
    OBVIOUS
  <1> USE SamplerAssumption
  <1>1. Places
    BY DEF Init, Places, Machines
  <1>2. InStep
    BY DEF Init, InStep, HalfWay, HalfWayAt, Machines
  <1>3. Over
    BY DEF Init, Over
  <1> QED BY <1>1, <1>2, <1>3 DEF Inv

LEMMA PlacesKept == Inv /\ [Next]_vars => Places'
  <1> SUFFICES ASSUME Places, [Next]_vars PROVE Places'
    BY DEF Inv
  <1> USE SamplerAssumption DEF Places, Machines
  <1>1. CASE Skip BY <1>1 DEF Skip
  <1>2. CASE Tick BY <1>2 DEF Tick
  <1>3. CASE ThinSeries BY <1>3 DEF ThinSeries
  <1>4. CASE Stamp BY <1>4 DEF Stamp
  <1>5. CASE Read BY <1>5 DEF Read
  <1>6. CASE SamplerEnds BY <1>6 DEF SamplerEnds
  <1>7. CASE MainStep
    BY <1>7 DEF MainStep, StopSampling, Join, Take, Write, sampling
  <1>8. CASE UNCHANGED vars BY <1>8 DEF vars, sampling
  <1> QED BY <1>1, <1>2, <1>3, <1>4, <1>5, <1>6, <1>7, <1>8 DEF Next, SamplerStep

LEMMA InStepKept == Inv /\ [Next]_vars => InStep'
  <1> SUFFICES ASSUME Places, HalfWay, ~MayThrow, [Next]_vars PROVE HalfWay'
    BY DEF Inv, InStep
  <1> USE SamplerAssumption DEF Machines
  <1>1. CASE Skip BY <1>1 DEF Skip, HalfWay, HalfWayAt
  <1>2. CASE Tick BY <1>2 DEF Tick, HalfWay, HalfWayAt, Places
  <1>3. CASE ThinSeries
    <2> SUFFICES ASSUME NEW m \in Machines, NEW n \in Machines
                 PROVE HalfWayAt(m, n)'
      BY DEF HalfWay
    <2>0. series' = [series EXCEPT ![next] = EveryOther(@)] /\ sampler = "thinning"
      BY <1>3 DEF ThinSeries
    <2>1. /\ series'[next] = EveryOther(series[next])
          /\ \A k \in Machines : k # next => series'[k] = series[k]
      BY <2>0 DEF Places
    <2>2. CASE next < Count
      <3>1. next' = next + 1 /\ sampler' = "thinning"
        BY <1>3, <2>2 DEF ThinSeries
      <3> QED BY <2>0, <2>1, <2>2, <3>1 DEF HalfWay, HalfWayAt, Places
    <2>3. CASE next = Count
      <3>1. sampler' = "stamping" /\ next' = 1
        BY <1>3, <2>3 DEF ThinSeries
      <3>2. \A k \in Machines : series'[k] = EveryOther(series[next])
        BY <2>0, <2>1, <2>3 DEF HalfWay, HalfWayAt, Places
      <3> QED BY <3>1, <3>2 DEF HalfWayAt
    <2> QED BY <2>2, <2>3 DEF Places
  <1>4. CASE Stamp BY <1>4 DEF Stamp, HalfWay, HalfWayAt, Places
  <1>5. CASE Read
    <2> SUFFICES ASSUME NEW m \in Machines, NEW n \in Machines
                 PROVE HalfWayAt(m, n)'
      BY DEF HalfWay
    <2>0. /\ series' = [series EXCEPT ![next] = Append(@, tick)]
          /\ sampler = "reading" /\ tick' = tick
      BY <1>5 DEF Read
    <2>1. /\ series'[next] = Append(series[next], tick)
          /\ \A k \in Machines : k # next => series'[k] = series[k]
      BY <2>0 DEF Places
    <2>2. CASE next < Count
      <3>1. next' = next + 1 /\ sampler' = "reading"
        BY <1>5, <2>0, <2>2 DEF Read
      <3>2. /\ m < next /\ next <= n => series[m] = Append(series[n], tick)
            /\ m < next => series[m] = Append(series[next], tick)
            /\ n < next => series[n] = Append(series[next], tick)
            /\ (m < next <=> n < next) => series[m] = series[n]
        BY <2>0 DEF HalfWay, HalfWayAt, Places
      <3>3. CASE m < next
        <4>1. CASE n < next
          BY <2>0, <2>1, <3>1, <3>2, <3>3, <4>1 DEF HalfWayAt, Places
        <4>2. CASE n = next
          BY <2>0, <2>1, <3>1, <3>2, <3>3, <4>2 DEF HalfWayAt, Places
        <4>3. CASE n > next
          BY <2>0, <2>1, <3>1, <3>2, <3>3, <4>3 DEF HalfWayAt, Places
        <4> QED BY <4>1, <4>2, <4>3 DEF Places
      <3>4. CASE m = next
        BY <2>0, <2>1, <3>1, <3>2, <3>4 DEF HalfWayAt, Places
      <3>5. CASE m > next
        BY <2>0, <2>1, <3>1, <3>2, <3>5 DEF HalfWayAt, Places
      <3> QED BY <3>3, <3>4, <3>5 DEF Places
    <2>3. CASE next = Count
      <3>1. sampler' = "loop" /\ next' = 1
        BY <1>5, <2>3 DEF Read
      <3>2. \A k \in Machines : series'[k] = Append(series[next], tick)
        BY <2>0, <2>1, <2>3 DEF HalfWay, HalfWayAt, Places
      <3> QED BY <3>1, <3>2 DEF HalfWayAt
    <2> QED BY <2>2, <2>3 DEF Places
  <1>6. CASE SamplerEnds BY <1>6 DEF SamplerEnds, HalfWay, HalfWayAt
  <1>7. CASE MainStep
    BY <1>7 DEF MainStep, StopSampling, Join, Take, Write, sampling, HalfWay, HalfWayAt
  <1>8. CASE UNCHANGED vars BY <1>8 DEF vars, sampling, HalfWay, HalfWayAt
  <1> QED BY <1>1, <1>2, <1>3, <1>4, <1>5, <1>6, <1>7, <1>8 DEF Next, SamplerStep

LEMMA OverKept == Inv /\ [Next]_vars => Over'
  <1> SUFFICES ASSUME Over, [Next]_vars PROVE Over'
    BY DEF Inv
  <1> USE DEF Over
  <1>1. CASE Skip BY <1>1 DEF Skip, taking
  <1>2. CASE Tick BY <1>2 DEF Tick, taking
  <1>3. CASE ThinSeries BY <1>3 DEF ThinSeries, taking
  <1>4. CASE Stamp BY <1>4 DEF Stamp, taking
  <1>5. CASE Read BY <1>5 DEF Read, taking
  <1>6. CASE SamplerEnds BY <1>6 DEF SamplerEnds, taking
  <1>7. CASE StopSampling BY <1>7 DEF StopSampling, sampling
  <1>8. CASE Join BY <1>8, Zenon DEF Join, sampling
  <1>9. CASE Take BY <1>9 DEF Take, sampling
  <1>10. CASE Write BY <1>10 DEF Write, sampling
  <1>11. CASE UNCHANGED vars BY <1>11 DEF vars, sampling, taking
  <1> QED BY <1>1, <1>2, <1>3, <1>4, <1>5, <1>6, <1>7, <1>8, <1>9, <1>10, <1>11
          DEF Next, SamplerStep, MainStep

LEMMA Invariance == Spec => []Inv
  <1>1. Inv /\ [Next]_vars => Inv'
    BY PlacesKept, InStepKept, OverKept DEF Inv
  <1> QED BY InitInv, <1>1, PTL DEF Spec

\* Between two ticks every series holds the same instants, however many thinnings there
\* were, for any number of machines (Telemetry.thin, startSampling).
THEOREM SeriesKeepStep == Spec => []SeriesInStep
  <1>1. Inv => SeriesInStep
    BY DEF Inv, InStep, HalfWay, HalfWayAt, SeriesInStep, Between
  <1> QED BY Invariance, <1>1, PTL

\* What is written after a join() that did not time out holds every series at one tick
\* (Telemetry.stopSampling, Trace.toJson).
THEOREM TracesWhole == Spec => []WrittenWhole
  <1>1. Inv => WrittenWhole
    BY DEF Inv, InStep, HalfWay, HalfWayAt, Over, WrittenWhole
  <1> QED BY Invariance, <1>1, PTL

=============================================================================
