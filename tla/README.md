# Verification of losim

TLA+ models of the runtime that a dissaly simulation runs on, the TLC runs that
check them on small instances, and proofs, checked by TLAPS, that hold for every
value of the constants. Paths below are relative to `dissaly/src/dissaly/`; those
that start with `viewer/` or `docs/` are relative to the repository.

losim teaches distributed systems: a program made of gRPC services is run as a
simulation inside one JVM, each service on a simulated machine with a clock of its
own speed, memory and disk caps, failures that strike at instants or at rates, a
network that delays, drops and partitions, and a recorder that writes everything
that happened into a trace, which a viewer plays back. The Java runtime is where
threads meet without locks, where time runs out and where machines die half-way
through something. The viewer is one page over a small server: everything it asks for
comes back when it likes, in any order, and what it draws at an instant is computed
anew from indices it built once. These two halves are what the modules here are about.

1. [Inventory](#inventory)
2. [Modules and code](#modules-and-code)
3. [Runs](#runs)
4. [Fairness](#fairness)
5. [What is proved](#what-is-proved)
6. [What is only model-checked](#what-is-only-model-checked)
7. [Disagreements between the code and what is said of it](#disagreements)
8. [Plan](#plan)
9. [What is not modelled](#what-is-not-modelled)

## Inventory

The threads of a run: the *main thread* inside `Simulate.of()`, the *dispatcher*
(`dissaly-failures`, one daemon thread of the highest priority), the *sampler*,
and per machine a pool of `vcpu` threads that run the handlers of its services.
gRPC adds a timer and the in-process transport, with its registry of names. Almost
nothing takes a lock: fields are volatile or plain, counters atomic.

| Component | State | Operations | Meets |
|---|---|---|---|
| **Machine** `runtime/Machine.java` | `alive`, `degraded`, `frozenUntil`; `oomReported`, `diskFullReported`, `diskBytes`, `retainedBytes`; the services (`roots`) and the store; `server`, `stopped`; counters of calls and bytes | `start`, `kill`, `freeze`, `thaw`, `degrade`, `restart`, `measureRetained`/`overCap`, `wroteDisk`, `sample`, `forget`, `shutdown` | the dispatcher calls the faults, the sampler and the main thread walk its heap, handlers write to it, gRPC holds its name |
| **Weather** `runtime/Simulate.java` (`schedule`, `fire`, `drawn`), `time/Dispatcher.java`, `runtime/Net.java` | the queue of `Due` entries, its sequence counter, `running`; the set of cut links, the random streams | `at`, `loop`, `close`; `fire` for each kind of failure, `drawn` for a rate; `partition`, `heal`, `lost`, `rtt` | fires faults at machines; calls ask the net |
| **Calls** `runtime/Retrying.java`, `Retry.java`, `ClientSide.java`, `Dropped.java`, `ServerSide.java` | per call: attempt, `delivered`, `cancelled`; per attempt: its span, its deadline; on the server `inflight` | `start`, `sendMessage`, `halfClose`, `cancel`, `onMessage`, `onClose`; `Dropped.finish`; the server's `interceptCall`, `onHalfClose`, `onComplete`, `onCancel`, `finish` | interceptors around gRPC's calls; the clock for every delay; the recorder for every span and event |
| **Recorder** `trace/Telemetry.java`, `trace/Trace.java` | events, spans, the instants of samples, fifteen series per machine, tick and stride | `open`, `close`, `event`, `startSampling`, `stopSampling`, `thin`, `forget`, `dangling`; `Trace.of`, `toJson` | everybody writes; the main thread reads while handlers still write |
| **Run** `runtime/Simulate.java` (`of`), `runtime/Machines.java` (`entered`) | where the run is, its outcome, which methods of `dissaly.Job` were entered | Load, forget, begin, Run, watchdog, sweep, totals, trace, teardown | calls the entry node through the same interceptors as everyone |
| **Discovery** `runtime/Machines.java` | services and who offers them | `register`, `find` and the waiting for one | nodes ask it when they look for a peer |
| **Clock** `time/Clock.java` | per thread a debt of time slept too long, a correction for parking, `kTime` | `spend`, `parkRealNanos`, conversions between simulated, reference and real time | everything that waits |
| **Warm** `runtime/Warm.java` | whether the JVM has been warmed | `once` | before a run |
| **Wire, cost, values** `runtime/Wire.java`, `Cost.java`, `trace/Values.java` | none | sizes, declared costs, renderings | calls |
| **Meters** `res/Meter.java`, `Retained.java` | the JVM's counters | allocation, CPU, a walk over what the services reach | machines |
| **Catalogues** `res/Regions.java`, `InstanceCatalog.java` | tables | look-ups | machines, prices |
| **Node API** `api/` | none of its own | what a service asks of its machine | delegates |
| **Scenario loader** `sim/` | none after loading | reads YAML and refuses what cannot be run | the weather starts from what it lets through |
| **Run server and lab** `cli/Serve.java`, `Lab.java` | the run in progress, its log and cursors, the queue of a lab | start, cancel, follow, list | the viewer polls it |
| **Development server** `cli/Dev.java`, `Check.java`, `Released.java` | the served process, what changed | rebuild, restart, proxy | the run server |
| **Scale engine** `scale/` | observations, fitted laws, the plan | probe, fit, solve, schedule | runs simulations at small scale to predict large ones |
| **Prices** `price/` | price lists, accounts | bill a trace | reads machines' lives from the trace |
| **Verifier** `verify/` | none | reads class files | before a run |
| **Command line** rest of `cli/` | none | read files, write files | |
| **Messages** `dissaly/proto/` | none | the schema of `dissaly.Job` | generated code |
| **Console** `viewer/lib/console.tsx`, `lab.ts`, `runs.ts`, `components/Lab.tsx`, `console/Shell.tsx`, `Gallery.tsx` | the open run, the view, `busy`, `error`, `wanted`; the address bar and its history; the build that is followed | `open`, `openAt`, `openDropped`, `load`, `go`, `onPop`, `reload`, `nudge`, `startBuild`, `notice`, `pull` | every operation is a request whose answer meets a later state; the lab runs what any page asks |
| **Author** `viewer/components/console/Simulations.tsx`, `viewer/lib/author.ts`, with `cli/Draft.java` and `sim/Loader.java` | the draft, which file is edited, what was refused; palettes, reads and writes in flight | one per control of the form; `create`, `saveEdit`, `openForEdit`, cancel; `toYaml`, `nodes`; the reader's `of`, the loader's `machines` and refusals | the form and the loader each hold the rules of naming and dealing |
| **Player** `viewer/components/Film.tsx`, `Dataflow.tsx`, `console/FilmView.tsx`, `Transport.tsx`, `viewer/lib/trace.ts`, `frame.ts`, `playback.ts`, `record.ts` | two clocks; pinned, hovered, held; filters; the run compared with; a download; what each node was last drawn as | play, seek, step, brackets, scrub; pin, hover, nominate, filter, clear, resize; compare; download and still | the address bar keeps some of it across pages and runs |
| **Spans page** `viewer/components/Spans.tsx`, `components/spans/`, `viewer/lib/spans.ts` | window, filters, what is collapsed and selected | zoom, pan, filter, collapse, select; own times, critical path, parts, lanes, sums | moves the console's clock |
| **Ledger** `viewer/lib/ledger.ts` | none after building | the shape of every line, who is answerable, what it comes to at an instant | bill and trace |
| **Layout** `viewer/lib/layout.ts`, `design.ts` | none after building | columns, zones, arrangement for a size of the stage | the film and its comparison |
| **Cost page** `viewer/components/console/Cost.tsx` | the runs ticked for comparison, those that have come, those said to be loading | tick, untick, open another run, fetch; the money cut by bucket, node, zone or type | an effect that fetches what is ticked, the manifest, the ledger of each run |
| **Usage page** `viewer/components/console/Usage.tsx` | the metric that is picked | every series thinned, cut at the clock, its ruler | the trace and the console's clock |
| **Other pages of the viewer** `viewer/components/console/Chart.tsx`, `Projected.tsx`, panels | selections | drawing | the ledger, the trace |

### What is hard here, and what correctness means

- **Machine.** `restart()` is nine writes that other threads see one at a time, while
  a walker may be between measuring the heap and killing the machine for it, a
  handler of the old life may never return, and the name has to be taken back from a
  registry that gives it up when it likes. Correct: callers see a sequence of
  incarnations and no two at once; a live machine can still be found out of memory;
  a machine that is up answers, unless its restart met a mishap; every restart ends;
  after `shutdown()` nobody answers, and who comes back comes back anew (neither of
  these two holds: see Disagreements).
- **Weather.** A fault that waits two seconds for a name makes everything behind it
  late, and every fault may schedule further ones. Correct: nothing is overtaken by
  something written for later; a rate survives whatever its failures meet; a frozen
  machine thaws; what was to come back does.
- **Calls.** The end of an attempt, the next attempt, the caller's cancelling, the
  deadline, the callee's death and an execution nobody waits for any more overlap.
  Correct: one message and then one close, success only of an execution that
  answered and within the deadline, no more executions than attempts, no span left
  open, and the caller is told in the end.
- **Recorder.** Thinning drops values in three structures that are filed by position,
  in the middle of a tick, and the trace is taken half a second after an interrupt
  that may not have been heeded. Correct: all series hold the same instants and so
  does what is written.
- **Run.** Handlers outlive the run, the watchdog races the answer and a restart, and
  the record of Load is thrown away while its handler is still finishing. Correct: one
  entry, one outcome, one event of it, the boot in the trace, no span open that was
  there to be closed, and an end, with a trace unless the last walk of a heap threw.
- **Console.** Opens overtake and supersede each other and fail; each has a `finally` of
  its own for one flag. A build is followed by polling a log that may have become that of
  another build. Correct: a page that says it is loading has a request in flight that
  ends that; a build that is followed is followed to an end.
- **Author.** Some thirty controls in any order, over a draft that is written in a
  language with defaults and read back by other code. Correct: what the form says of the
  nodes is what the loader deals out, what it writes it can open again, and the job is
  run in one place (of these the first holds of most pools, and the last of pools and
  not of nodes: see Disagreements).
- **Player.** An index searched by halving must answer what a scan would, over events that
  threads noted down in another order; a node is drawn again only when a comparison
  written by hand says so; the arrangement is searched anew for every size of the stage.
  Correct: what is drawn is what the trace says, wherever a clock stands; nothing covers
  anything; the film only runs forward; a download ends.
- **Spans and ledger.** Calls overlap, leave gaps and are outlived by what answered them.
  Correct: time is counted once, and the nodes together do not owe more than was spent.
- **Cost page.** Ticking fetches nothing; an effect does, which runs again for every tick,
  answer and new list and fetches once more what is still on its way. Correct: a box that
  is ticked has its run, or a request for it; the fetching ends; and however the money is
  cut, the parts are all of it.
- **Clock.** The debt of one call is carried by the thread to the next.
- **Run server.** One run at a time; a follower misses no line of the log.
- **Scale engine** (planned). The search ends and finds what a full search would.

`PROJECT.json` lists under `hazards` the lines where each of these bites, with the
properties that would notice.

## Modules and code

`Weather` extends `Machine`: one dispatcher fires this weather at that machine. Every
action of `Weather` is one of `Machine`'s beside a change of the queue, or leaves the
machine alone; that is how it is written, and so no property says it. `Rpc` and
`Run` look at the same runtime from the call's and from the run's side; of a
machine's life they keep what a call can notice (it dies, it comes back, calls it had
are closed from outside), which is what `Machine` proves callers see.

| Module | Stands for |
|---|---|
| `Machine` | One machine and the four kinds of thread that touch it |
| `Incarnations` | What its callers are promised; `Machine` implements it |
| `Weather` | The failures of a simulation, the dispatcher's queue and thread, the cut links, around `Machine` |
| `MCWeather` | A small weather for TLC |
| `Rpc` | One unary call through retries, recording client or its stand-in, recording server |
| `Call` | What the stub is promised; `Rpc` implements it |
| `Sampler` | The sampler's thread, thinning, and the taking of the trace |
| `Run` | `Simulate.of()` from Load to the trace, and the calls recorded meanwhile |
| `Console`, `MCConsole` | The console of the viewer and the lab that answers it |
| `Draft` | A draft, the file written of it, what the loader makes of that file and what the reader of drafts makes of it |
| `Author`, `MCAuthor` | The page that writes simulations, around `Draft` |
| `Trace` | A trace as the viewer reads it, from what the engine wrote: series as runs, values as text |
| `Frame` | The index over a trace, and what the film shows at an instant |
| `Layout` | Where a node is drawn |
| `Stage` | The face of a node, what makes it be drawn again, the messages under way |
| `Spans` | The tree of the spans and what is computed on it |
| `Ledger` | What the lines of a bill have come to at an instant, who answers for them, and the cuts of the Cost page |
| `Usage` | What the charts of the Usage page are drawn from |
| `Comparison` | The runs ticked on the Cost page and the fetches of them |
| `Clock` | The clock of a film, as operators on its state |
| `Player`, `MCPlayer` | The two pages that play a run, composed of `Trace` to `Usage` and `Clock` |
| `*_proofs` | The theorems about the module they are named after; `Machine_proofs` has `Weather`'s as well |

**Machine.** A *life* is what one execution of `start()` builds; `life` is the one whose
services are the roots of the heap walk, `server` the field, `bound` the registry's
idea of who holds the name, `stopping` whether that server was told to stop. `dpc` is
where the dispatcher stands in `restart()`: `Revive`, `ClearGauges`,
`StartChecksStopped`, `StartReleases`, `StartAwaits` or `StartGivesUp`, `Rebuild`,
`Bind`, `RestartDone`, one step per write another thread can see. A walker (the
sampler, or the main thread's last measurement) goes through `Walk`, `OverCapChecks`,
`OverCapReports`, `OverCapKills`, because `overCap()` reads a flag, sets it and kills in
three steps after a walk that takes no lock. Handlers keep the life they were called on.
The main thread's part is the end of the run: the dispatcher closed, the sampler
stopped, the last measurement, `shutdown()`. gRPC's registry gives a stopping server's
name back at some moment (`Unregister`), and no fairness says when. `mishaps` records what
befell a restart since a server was last bound: a wait for the name ended before that
(`late`), or a service's factory threw (`unbuilt`; `Rebuild` has both outcomes, and the
dispatcher swallows the exception). The main thread's last walk may throw too
(`FinalMeasure`), and then there are no totals and the teardown follows at once. What
`Incarnations` calls answering is a machine that listens and is alive: callers look at
`alive` before they call (`runtime/ClientSide.java:70`), and `restart()` sets it long
before the old server loses the name. So an incarnation can fall silent and be heard
again, until its name is taken from it.

**Weather.** An entry of the queue is `Due`: instant, sequence number, and what it does:
`fail` (a written failure), `draw` (a rate's next), or what a failure itself scheduled
(`thaw`, `kill` at the end of a spot notice, `restart`). `Poll` takes the head,
`Fire...` does it once its instant has come, however late. Firing and what the fault
does to the machine are one action, because `fire()` runs on the dispatcher's thread;
a restart's remaining steps are `Machine`'s `RestartStep`, and until they are done the
dispatcher polls nothing. A rate draws its next instant from `Gaps` before it looks at
the machine, as `drawn()` does. `cut` is Net's set of links for this node.

**Rpc.** Attempts are numbered and may overlap: the first one's handler may still run
when the third is fired. `rpc`, `attempt`, `delivered`, `cancelled` and `told` are the
policy (`Retrying`); `client`, `fate`, `expires`, `status`, `span` the recording client
(`ClientSide`) or its stand-in (`Dropped`); `server`, `messages`, `reply`, `handler`,
`inflight` the recording server (`ServerSide`). Which of drop, loss, cut link or absent
server befalls an attempt is a choice of `Fire`. gRPC's part is small: a call may be
closed from outside by a cancel, by its deadline or by a server shutting down (`gone`),
and what the server does afterwards goes nowhere. The network's delay is served in
`onClose`, between `ClientCloses` and `ClientTells`, and the deadline is looked at again
after it.

**Sampler.** A value is the tick it was read at, so "filed under the right instant" is
equality. (It is not kept: `InstantsInStep`.) `Tick` begins a tick and thins the instants if the trace is full, `ThinSeries`
thins one machine's series at a time, `Stamp` notes the instant, `Read` samples one
machine. `StopSampling`, `Join`, `Take`, `Write` are the main thread, which may go on
before the sampler has ended.

**Run.** `main` walks through `Simulate.of()`. A call is followed on the server's side
from the guard of `dissaly.Job` through `openUnder`, `onHalfClose`, the answer, the count
and `finish()`; its caller is told at the answer, before the recorder hears of the end.
The last walk of the heaps may throw (`TakeTotals`), and then `of()` leaves with that
exception and without a trace.
Nodes' calls of each other (`Peers`), calls of `dissaly.Job` with dissaly's own header
(`Forgers`) and without (`Plain`) are told apart because the guard does.

**Console.** A request in flight is a record in `opening`, `listing`, `looks` or `starting`,
or one of the two effects' (`noticing`, `polling`, of which an older one is dropped by the
effect's cleanup). What happens to it when it comes back is an action of its own, and any
of them may go unanswered. `wanted` is the ref that tells a load from one it was
superseded by; `StillBusy` is the `finally` of `load`. The lab behind the page is the
server's `current` run and the worker's queue; `StartChecked` and `StartSet` are the two
steps of `start()`, between which another request may pass the same check. The history
of the tab is a sequence and a position in it. A moment (`t`) is abstracted to the run it
was read in.

**Author.** `draft` is the form's state, with one action per control, each guarded as the
form shows it. `reading`, `writing` and the palette come back at any time. `Draft` holds
the four translations of a simulation: `nodes` (what the form says), `toYaml` (what it
writes), `machines` and `refuses` (the loader), `cannotShow` and `Of` (the reader of
drafts). A file is its parsed tree, a key that is not there is `Nothing`, and a name is a
word and the numbers put behind it, so that a prefix with a number appended can be told from
one without or be the same as another. (`w1` with `0` and `w` with `10` are one name in the
code and two here.) The first part of `Draft` says what a draft is
(`ADraft`, the interfaces of `viewer/lib/author.ts`) and what a file is (`AFile`, the keys
the loader asks for): the same records, in which a key may be left out. Numbers in them are
natural: a draft with a fraction or a number below nought is not modelled.

**Player.** `clock` is the console's, `film` the film's own while it is mounted; `url` the
part of the address bar the pages write; `ui`, `spans`, `against`, `comparing` and
`recording` what the pages keep. `faces` is what each node was last drawn as, with the
comparison (`Look`) that decided it need not be drawn again and the press handler of that
render. What is computed on the way (`Index`, `Tree`, `Roles`, `Plan`) is computed once
from `History`, through the engine's encoding and the viewer's decoding. Times are whole
reference milliseconds; lengths hundredths of a drawing unit; shares parts of 1200;
sizes hundredths of a megabyte and percentages tenths, which is what `quantise()` leaves
of them (`trace/Telemetry.java:408`). A face has all that is drawn on a node: the slots
of its virtual CPUs, how many are lit and in which tasks' colours, what waits, and the
room left as `mb()` writes it, with its colour. The numbers of virtual CPUs are those of
the catalogue (`res/InstanceCatalog.java`): of these types and no others is it shown that
a node whose load is compared in twelfths is drawn with the right number of slots. What
the pages read off a trace depends on the run and on an instant or a stage only; those
properties (`ReadsTheTrace`, `LegibleOn`, `Accounted`, `AddsUp`) are computed for all of
them once, and the invariants look up where the reader is.

**Comparison.** `beside`, `loaded` and `loading` are the page's state; `fetching` counts
the fetches of a run that are in flight, which the page does not know. Whatever changes
`beside`, `loaded` or the list of runs ends in `Want`, which is the effect calling
`want()`: a fetch for each run that is ticked, listed and not there, those on their way
included. An answer is `Came`, `CameUnbilled` or `Failed`; the last takes the tick out
even when it was out, which is a new list to React and runs the effect. Leaving the page
drops what is in flight. `unbilled` is history.

## Runs

All times are whole units. Every bound is a constant of the module; an instant that
would lie behind the horizon is taken to be the horizon.

| Run | What it asks | Bounds, and why they are enough |
|---|---|---|
| `machine` | Who answers and what it takes for nobody to, whether a live machine can still be reported out of memory, whether `Incarnations` is implemented, that a restart and the teardown end | Two lives, so that a restart meets the remains of the life before (an old server, an old handler, an old walk); one handler slot, both walkers; a cap of one with two holders (a field, the store), so that the cap is crossed and uncrossed; one freeze and a clock of one |
| `weather` | Order, thaws, comebacks, rates that go on | Two simulations of the same file of failures (`Simulations`). One has only scripted ones, of each kind but a kill, several at one instant, with a spot notice that runs out behind a later failure, and its dispatcher can end. The other has two rates, which overtake each other, beside a kill, a reclaim, a degrading and a heal: they fall due on a machine that is up, frozen, dead or starting. Three lives, so that both restarts happen; horizon 5, when all of it has been fired |
| `rpc` | `Call` is implemented, spans, the deadline, and that the caller is told | Three attempts at twice the speed of real time; a deadline of 5, which is 2 for the first attempt, backoffs 1 and 2, a network that takes 0 or 2: the third attempt is fired at 3 with a deadline of 4 and can still be delivered, and an answer of any attempt that left in time can arrive too late. A park may come back one unit early |
| `rpc_untold` | The caller is told, for a callee without a declared cost: violated | Two attempts |
| `sampler` | Series in step, and written whole | Two machines, a trace of four instants, 24 ticks: the stride grows to 4 or more and the trace is full several times; the end of the run may come at any step |
| `run` | One entry, boot, sweep, and that the run ends | A peer, a forger and a plain caller beside dissaly's own two calls: two calls at once of each kind that the guard tells apart, any of them unfinished when the run is swept |
| `console` | A page that is loading has a request that ends it; a build that is followed ends | Two runs of the export, a simulation, a file; two clicks of anybody beside the first open, one request that goes unanswered: any two opens overlap each other and the first, one of them fails, and two builds, of this page and of another, overlap |
| `author` | The form's nodes are the loader's, files read back, no second pool with the job | A file with failures, an exception, a retry and a price, and a first draft; a job and a service; two controls in any order on either, counts 0, 1 and 3, names of which one is another with a number appended |
| `author_lost` | A file that is opened is written back as it was: violated | A file with an exception that has an empty list of failures; no control used |
| `player` | What is drawn is what the trace says | Four runs: calls that overlap, that leave gaps, are lost, unanswered and outlived, events out of order, two zones; one without telemetry and with a span whose parent is missing; a role of five nodes; one whose worker gets other tasks and whose disk crosses three quarters. Three gestures in any order, ticks of the clock between them; two sizes of the stage, one of which draws nodes densely |
| `comparison` | A ticked run is not forgotten, and the fetching ends | Three runs of which two have a cost, so that a fetch of either overlaps any number of the other's; four gestures or new lists: tick, untick and tick again while the first fetch is in flight, with the other run ticked or the page left in between. How many fetches are in flight is not bounded |
| `player_pin` | The press on a pinned node closes it: violated | One run, three gestures |

The passing runs reach every action between them. The type invariants of `Machine` and
`Console` are proved and not run, that of `Comparison` is part of its proof.
`Rebuildable` is true in every run. The machines whose services are handed over as
instances, which a restart does not rebuild, are covered by the theorems of `Machine`,
which hold for both.

Deadlock is not checked in any run: the clocks, lives and ticks are bounded, and a
bounded run stops; beyond that, every one of these systems is meant to end.

Each property has a mutant beside the definition it changes: the same action as a
plausible slip would have it (the flag not cleared, the wait without limit, the limit of
the policy not looked at, one series passed over). TLC finds every property violated by
its mutant on the run's own instance.

### Configurations beside the runs

Where what is said of the code is stronger than what holds of it, the runs and the
theorems have what holds, and the stronger statement stands beside it under the name of
its own property. Each of the following configurations has TLC refute one of them within
seconds: `tlc -config MachineShutdown.cfg Machine`. What disagrees with what is under
[Disagreements](#disagreements).

| Configuration | Of module | It refutes | Bounds |
|---|---|---|---|
| `MachineShutdown.cfg` | `Machine` | `StaysShutDown`: after `shutdown()` nobody answers | As `machine` |
| `MachineBack.cfg` | `Machine` | `BackIsFresh`: a machine that comes back is not heard with its old services | As `machine` |
| `WeatherFreeze.cfg` | `MCWeather` | `FreezeLasts`: a freeze lasts as long as it says | One file with two freezes that overlap |
| `RpcDeadline.cfg` | `Rpc` | `DeadlineIsShared`: the attempts share one deadline | Two attempts, at twice the speed of real time |
| `SamplerThin.cfg` | `Sampler` | `InstantsInStep`: the instants lose what the series lose | As `sampler` |
| `AuthorLeftOver.cfg` | `MCAuthor` | `NodesAreProduced`: the form's nodes are those that will run, in every pool | As `author`, two controls |
| `AuthorStarts.cfg` | `MCAuthor` | `OneNodeStarts`: what is saved has one node that runs the job | As `author`, one control |
| `PlayerSlots.cfg` | `MCPlayer` | `SlotsAreFresh`: the slots that are lit are in the colours of their tasks | The run whose worker gets other tasks |
| `PlayerAlarm.cfg` | `MCPlayer` | `AlarmIsFresh`: what is left of a disk is in the colour of what it is | The same run, whose disk crosses three quarters |
| `PlayerParts.cfg` | `MCPlayer` | `PartsSumToTheBar`: the parts of a call sum to its bar | A handler that outlives its call |
| `PlayerThin.cfg` | `MCPlayer` | `ChartsHoldWhatIsNow`: a chart holds the value of now | Five samples of which a chart draws three |
| `PlayerOrder.cfg` | `MCPlayer` | `IndexIsRevealedAt`: the index agrees with the scan in the order of the file | Two reports noted down the other way round |

## Fairness

- `Machine`: weak fairness of the dispatcher inside `restart()`, of the main thread once
  the run is over, and of its walk. These are plain code between two waits with limits
  (two seconds for a name, half a second for the sampler). Nothing is assumed of
  handlers, which run the program under simulation, nor of the registry, nor that a
  fault is ever fired.
- `Weather`: the clock goes on, and the dispatcher is scheduled when it can do something:
  its thread has the highest priority of the process and every wait of it is for an
  instant or has a limit.
- `Rpc`: time goes on, and so do the caller's threads and gRPC's timer, one condition for
  all of the caller's steps, of which at most a few are possible and each makes progress.
  Nothing of the callee.
- `Run`: the main thread, with the watchdog as one of its steps. Nothing of any handler.
- `Console`: the lab's threads and worker go on, and the opens and polls are answered or
  fail, as a browser's requests to its own machine do. Nothing of the user, of other
  pages, nor of the requests no property waits for.
- `Comparison`: a request is answered, or the browser gives it up. Nothing of the reader.
- `Player`: the browser paints what is being recorded and hands over a still. Nothing of
  the reader, nor that a playing clock goes on.

## What is proved

For every value of the constants that satisfies the module's assumption: any number of
pool threads, lives, failures, attempts, machines, calls. The theorems are listed in
`PROJECT.json`; every one is a theorem of the module's `Spec`.

**Machine.** `TypeCorrect` needs that a restart finds room for another life
(`RoomToRebuild`) and that a handler runs for a life that existed
(`HandlersHaveALife`). `LiveReported`: the property is inductive together with the
types, and rests on the order of writes: `restart()` sets `alive` before it clears the
flag, and a walker sets the flag before it kills. `CurrentListens`: `NameInv` adds to the
property that nobody listens from the moment a restart has told the old server to stop
until it binds, which is why the services may be replaced there and nowhere else.
`UpAnswers`: `ServesInv` says what must be true at each place of `restart()` for the
bind at its end to succeed, or a mishap to have been met. `MachineImplementsIncarnations`
maps every action to an action of `Incarnations` or to a stutter: `LivesVital` those that
change only whether the machine is alive, `LivesRetire` those that take its name.

**Weather.** `QueueInv` is that entries are well formed, what was polled is due no later
than what is queued, and nothing queued is before what was last polled. Its reason:
everything a failure schedules is at its own nominal instant or later, never at the
clock's. `ThawComes`:
the thaw that the last freeze scheduled is no later than the end of that freeze, because
an entry is fired at its instant or after it. `RateGoesOn`: an entry that was polled is no
longer queued (`PolledIsGone`), only rates draw (`OnlyRatesDraw`), and the draw that is
fired queues the next one before it does anything that may fail, so that firing it leaves
as many as there were.

**Rpc.** The invariant `Inv` is `TypeOK`, `Policy` (at most the attempt the policy waits
for is under way at the caller, and nothing is known of attempts to come), `Heard` (what
the stub has heard follows from `delivered`, which belongs to the attempt in flight) and
`Answers` (a message comes from an execution, an OK after a message). With it every step
is one of `Call`'s or a stutter (`RpcImplementsCall`), a stub that was told has no open
span (`SpansAreClosed`), and no attempt is beyond the limit (`WellTyped`). That the
executions do not exceed the limit is counted with the library's facts about finite
sets. `DeadlineIsKept` is of any speed, and no stronger than that allows: `Within` says
that the first attempt in flight has no deadline later than the stub's, and a later one
none later than the stub's would be if it were one in real time, unless that had passed
when the attempt was fired. That a later attempt's is later than the stub's is what
`RpcDeadline.cfg` shows.

**Sampler.** `SeriesKeepStep`: `Places` says where the thread is, `HalfWay` that in the
middle of a thinning or a reading the machines before `next` are one step ahead of those
after it, and all equal among themselves. They are all in step, and that they are not in
step with the instants is what `SamplerThin.cfg` shows. `TracesWhole`: once the sampler is over
(`Over`), nothing it did can still change between the taking and the writing.

**Run.** For any sets of calls. `JobEnteredOnce` by `Entering`: whoever is inside a method
of `dissaly.Job` finds it in `entered`, which only grows. `OutcomeIsOne` by `Outcome`,
which ties the events of the end to the outcome from the moment either exists.
`BootIsTraced` by `Boot`: nothing forgets after `begin`. `SweepIsClean` by `Swept`: a span
that was there when the sweep began is closed or still to be swept.

**Console.** For any gallery, lab, number of clicks and of unanswered requests.
`ConsoleTypeCorrect` takes the state apart into the page, what is in flight, what is
followed and the lab; its one strengthening is that what the lab is running is a
simulation (`LabRunsItsOwn`), since every answer of the lab names it. `LoadingHasAnOwner`:
the property is inductive with the types. The step that could break it is a load coming
back while the page is loading: either it is wanted, and then the loading ends, or it is
not, and then it is not the owner. `BuildIsFollowed` is the safety half of `BuildingEnds`:
a build is shown as going exactly while its log is being asked for.

**Comparison.** For any number of runs and gestures. `NothingIsForgotten`: the property is
inductive with the types. Two lemmas carry it: `WantAsks`, that whatever was in flight
still is after the effect and everything ticked, listed and absent is; and `BackIsTrue`,
that an answer takes away the mention of its own run only. What is left is the answer
after which the effect does not run, a run without a bill.

**Author.** For any palette, any files in the lab, and any number of controls and buttons
used. Three assumptions say what these are. `PaletteAssumption`: there is an instance type,
a region and a zone in each (`res/InstanceCatalog.java`, `res/Regions.java` are tables), what
the palette calls an entry is what serves `dissaly.Job` (`cli/Palette.java:67`), and the status the
form proposes is one the loader knows (`sim/Codes.java:34`). `AuthorAssumption`: what is in
the lab at first is a file the loader reads and does not refuse (`AFile`, `~refuses`); one
whose pool has more nodes than the form counts up to is among them, and `Counted` has its
number. `NothingAssumption`: a key that is not there is not one that is.

The inductive invariant `Inv` is `TypeOK` and `Held`: no file of the lab is refused, and
the draft on the page, like every draft on its way from the lab, runs the job at most once
in each of its pools (`Once`). The types need the first: the reader of drafts refuses a
file without a zone by itself, but a file without nodes, of which it would make a draft
without pools, it leaves to the loader. The second is what `JobInOnePool` rests on, and comes
from the loader, which refuses a node that runs a service twice.

- `AuthorTypeCorrect`: one lemma for each control (`ScaleGood` to `RetriesGood`), that what
  it makes of a draft is a draft, and one that starts in no more places; `DraftWritten` and `DraftOpened`
  for the two translations, built from what they do to each record; and one lemma for each
  step of the page, of which `readScenario` needs that no file of the lab is refused, and
  `answeredYes` and `answeredNo` leave it so, since the lab loads what it is to write first.
- `FormNamesTheMachines`: by the count and the prefix. A pool that is not numbered is written
  without a count, and then the loader makes one machine that is called as the pool is
  (`NodesAreMachines`). It reads no exceptions then, and the form does, which is why the
  instances and zones are claimed of pools without an exception for their only node.
- `FileReadsBack`: kind by kind, a failure is written with the keys it obeys, read with the
  defaults of the others, and written with the same keys again; the same for a pool, for
  which it matters that a pool of one with the prefix of its name is written without either.
  It is proved of every draft, whether or not the loader refuses the file.
- `JobInOnePool`: `Place` takes the job off each pool once (`offJob`), which is enough because no
  pool runs it twice; every other control leaves what the pools run or takes from it. That a
  set of pools shrinks is counted with the library's facts about finite sets.

Proving it, `TypeOK` said so little that nothing followed from it, and now says what a draft
and a file are. Names were sequences of strings, of which the prover cannot tell that a word
and a number are not a word, and became a word with numbers behind it.

**Player.** For any runs of which the engine wrote a trace, and any bills of them. Four
assumptions say what that is. `TraceAssumption`: a trace is well formed (`WellFormed` in
`Trace`) and shorter than `Forever`, which stands for infinity. The parts of `WellFormed`
that are facts about the engine are that nodes have different names, that spans are
numbered from 1 in the order they are opened, each after the one it is under
(`trace/Telemetry.java:141`, `187`; the parent of a handler is read off the call that was
opened before it, `runtime/ClientSide.java:96`), that a span ends
after it began, that samples are taken one after the other, that `bytesOut` is only added
to (the one reset, `runtime/Simulate.java:195`, is before the run and its first sample),
that `busyPct` is the share of the virtual CPUs that are taken, cut off at a hundred
(`Machine.java:990`), of a type of the catalogue (`res/InstanceCatalog.java`), and that no gauge but the two
of handlers using a core is negative (those may be: see `runtime/ServerSide.java:276`
below). `BillAssumption`: the lines of a bill are lists of amounts that are not negative;
`price/PriceList.java` only multiplies and adds prices. `RankAssumption`: names and lists of
names have an order that tells any two apart, which `cmp` and `cmpList`
(`viewer/lib/layout.ts:494`, `499`) give them; a zone is a number from 1, its place among
the names of the zones, and 0 is the filter that is off. `PlayerAssumption`: a stage is
some whole number of hundredths wide and high. Nothing is assumed of the order of spans or
events in the file, of who calls whom, of how long a series is, that calls end, that a
span is within the one it is under, or that the one it is under was recorded.

- `StateInvariant`, `TypeCorrect`: `StateInv` adds to the types where the clocks, the
  address bar and the window of the waterfall stand, and that a page that was left keeps
  nothing; every gesture is one lemma.
- `NoStaleFace`: two looks that are the same say the same (`SameFace`), in everything but
  the colours of the slots and of what is left of the disk (`Told`), which may be old
  (`PlayerSlots.cfg`, `PlayerAlarm.cfg`). The load is compared in twelfths of a hundred and lit
  in slots: `SameLit` goes through the types of the catalogue, for each of which a load
  that a machine can report has its own number of slots within a twelfth (`ChannelReads`).
- `EveryCutIsWhole`: a reservation is one node's, bytes are shared by what crossed, a
  build by service and then by who offers it, storage is the worst node's: `BlameIsShared`
  says that all nodes together answer for no more than a line, and `NodesPayTheirShare`
  that rounding down keeps it so. What is nobody's is then never negative. The lemmas
  before it are those about finite sums: by rows, by keys, of shares.
- `PagesReadTheTrace`: `LastOfTrack` is the bisection, `NewestIsIndexed` and `DrawnIsLive`
  are the two indices, of which the second needs that the running maximum of the ends is
  behind the point where the walk back stops; `InOrderSorts` is what any of the viewer's
  sorts leaves. What is newest is so by its instant; by the order of the file it is not
  (`PlayerOrder.cfg`). `UpToOK`, `StrideOK` and `DrawnLately` are the charts: all but the end
  of a chart are readings, and the end is less than a stride of samples old; that it is
  now's is refuted for a chart that was thinned (`PlayerThin.cfg`).
- `FilmRunsForward`: `CallGetsOn` for the journey of a call, `RampUp`, `FollowUp` and
  `AreaUp` for the money: a line follows a ramp between two samples, and ramps of a series
  that never falls never fall, however they are divided.
- `PictureIsLegible`: `Stands` says for which column, band and place in their cell a node
  is drawn, and where that puts its middle; `StandsSomewhere` that every node has one, for
  which the columns must hold every node (`ColumnsOK`, and so `RolesAreOrdered`: the order
  by the average moment is one of fractions, which `NotLater` shows transitive) and a
  column have enough sub-columns for its fullest cell (`SubsOK`, `InSomePart`). Two nodes
  then differ in their column, their band or their place in a cell, and in each case the
  next one starts far enough away (`ColumnsApart`, `BandsApart`, `CellApart`). It holds of
  every depth that is tried, so of the one that is taken (`BestIsOne`).
- `TimeIsKept`: the recursions of the tree - the ancestors, the walk, the sweep over the
  children - have the solutions they are read as because each goes to earlier or to later
  spans only (`Recursion`, `UpSolves`, `WalkSolves`, `SweptSolves`). What is drawn is drawn
  with its children and its parent (`TreeOK`), and the sweep covers no more than the spans
  last between them, however they overlap (`UnionWithin`). So a span's own time and what
  its children last are at least what it lasts itself (`SelfOK`); added up over all that is
  under one span, everything but that span is somebody's child and cancels
  (`OwnTimesCover`), which needs no induction over the tree. `PartsFollow` says that at every
  instant of its bar an answered call was doing one thing, and that all of it lies within
  the bar if the handler does; of one that does not the parts do not sum to the bar
  (`PlayerParts.cfg`).

Proving it found four things about the model and one about the code. An order of
operations in `IndexOf` and in the sums, written with operators the prover cannot expand,
became definitions of sets (`InOrder`, `Where`, `Known`). A revealed value that is not one
(`IsReveal`) was left out by the index and counted by the scan. A trace TLC was given had a
span under one numbered after it, which no engine writes. And the claim that no point
of a chart is above its ruler was false of `diskPct` for runs that TLC was not given:
`wroteDisk` (`runtime/Machine.java:874`) counts the write that it then refuses, the
percentage is not cut off (`Machine.java:986`), and the ruler of a percentage ends at a
hundred (`viewer/components/console/Usage.tsx`); `ChartsAreTheReadings` says it of the others.

## What is only model-checked

- Everything that must eventually happen: `RestartEnds`, `TeardownEnds`, `ComesBack`,
  `CallerIsTold`, `RunEnds`, `BuildingEnds`, `SavingEnds`, `ComesToRest`. Liveness under fairness is out
  of the reach of the proof system used here.
- All of the violated properties.

## Disagreements

Between the code and what a comment or a page of the documentation says of it.

### With a run

The details and the quotations are under `findings` in `PROJECT.json`.

- `rpc_untold`: the event of a timeout unboxes two figures, of which either may be
  absent. The exception leaves `onClose` before the stub is told.
- `author_lost`: an exception with an empty list of failures says that this node does not
  fail like its pool. The form opens such a file and writes it without the list.
- `player_pin`: a node that need not be drawn again keeps the press handler of an earlier
  render, which does not know that it is pinned.

### With a configuration

Each with the line where the code does it and the line where the other is said.

- `MachineShutdown.cfg`: `start()` looks at `stopped` once (`runtime/Machine.java:388`),
  waits up to two seconds for the name and then binds it: a restart that had passed the
  check binds after `shutdown()`. The comment at 100 says what `stopped` is to prevent.
- `MachineBack.cfg`: `restart()` makes the machine alive (`runtime/Machine.java:560`)
  before it takes the name from the old server (402), and until it does callers reach the old
  services, where `docs/ref/failures.mdx:100` has fresh ones.
- `WeatherFreeze.cfg`: the thaw of the first of two overlapping freezes ends the second
  (`runtime/Simulate.java:530`, `runtime/Machine.java:505`, 510); `docs/ref/failures.mdx:68` says
  how long one lasts.
- `RpcDeadline.cfg`: every attempt divides the rest of the deadline by `kTime` anew
  (`runtime/ClientSide.java:37`); at any speed above one a later attempt gets a later
  deadline, against `docs/ref/retries.mdx:103`.
- `SamplerThin.cfg`: the trace is thinned when the instant of a tick is in it and its
  values are not (`trace/Telemetry.java:319`): the instants and the series lose different
  ones, against the comment at 311.
- `AuthorLeftOver.cfg`: the form gives the only node of a pool what an exception that
  names it says (`viewer/lib/author.ts:318`); the loader does not read exceptions of a
  pool it does not number (`sim/Loader.java:205`). The comment at `viewer/lib/author.ts:302`
  says the nodes are those that will run.
- `AuthorStarts.cfg`: the pool that runs the job may be given several nodes
  (`viewer/components/console/Simulations.tsx:609`), is saved with them, and is refused
  (`runtime/Simulate.java:392`), against the comment at `viewer/components/console/Simulations.tsx:370`.
- `PlayerSlots.cfg`: the comparison that decides whether a node is drawn again has of its
  tasks the first (`viewer/components/Dataflow.tsx:763`); the slots are in the colours of
  all of them (430), against the comment at 751.
- `PlayerAlarm.cfg`: what is left is compared as it is written, rounded
  (`viewer/components/Dataflow.tsx:775`), and turns red by what it is (400), against
  `viewer/lib/design.ts:84`.
- `PlayerParts.cfg`: a handler that outlives its call has a part longer than the bar
  (`viewer/lib/spans.ts:289`), against the comment at 41.
- `PlayerThin.cfg`: a thinned chart ends with the last point that was kept
  (`viewer/components/console/Usage.tsx:78`), against the comment at 73.
- `PlayerOrder.cfg`: the index goes by instants (`viewer/lib/frame.ts:242`), and the scan
  it is held to by the order of the file (`viewer/checks/stops.ts:231`).

### Without a run or a configuration

Met while modelling, each with the line it is at. The models contain the behaviour where a
name in brackets says so; no property is about it.

In the runtime:

- `runtime/Simulate.java:195`: Load's call returns at its answer, before its handler's end
  is recorded, and the record is thrown away in between: the rest is charged to the run,
  though the comment at 187 says that everything it spent is taken back. (`ForgetRecord`
  and `HandlerEnd` in `Run`.)
- `runtime/Simulate.java:258`: the walk over what the services keep may throw on a
  collection that a handler changes meanwhile, and then a run that has its answer has no
  trace. (`TakeTotals` in `Run`, `FinalMeasure` in `Machine`.)
- `runtime/Retrying.java:112`: `cancelled` is looked at before the backoff and not after
  it. A call cancelled during its backoff is tried once more. `docs/ref/retries.mdx:75`
  says a cancelled call is not retried. (`FireAgain` in `Rpc`.)
- `runtime/ServerSide.java:276`: `finish()` takes one back from `inflight`, which only
  `onHalfClose()` adds to; a call that is cancelled before its half-close makes the
  gauge, "handlers using a core" (`Machine.java:107`), negative. (`PassOver`, `Finish` in
  `Rpc`, where `inflight` ranges over the integers.)
- `runtime/Dropped.java:62`: the wait for the deadline is one park
  (`time/Clock.java:167`), which may return early; the comment at `Dropped.java:14` says
  that the caller waits for its deadline. (`Early` in `Rpc`.)
- `runtime/Machine.java:925`: a walker that measured the old life may kill the machine
  after `restart()` revived it, for memory its new services do not hold.
  (`OverCapKills` in `Machine`; `measured` keeps which life was walked.)
- `runtime/Machine.java:409`: the store that `local()` gives is one object for all lives;
  a handler of an earlier life writes into it after `start()` emptied it, though a
  restart is said to lose it (`Machine.java:148`). (`HandlerStores` in `Machine`.)
- `trace/Telemetry.java:292`: a `sample()` that throws pushes nothing for an instant that
  has been noted; from then on this machine's series are one short and every value is
  filed one instant early, which the comment at line 311 calls wrong. (`MayThrow` in
  `Sampler`.)
- `runtime/Simulate.java:251`: a span that opens after the sweep looked for open ones
  stays open in the trace; the comment at 248 says none does.
- `runtime/Simulate.java:252`: a span the sweep closed is closed again by its handler's
  `finish()`, although `Telemetry.java:197` speaks of one end per span. (`closes` in
  `Run`.)

Suspected in the runtime, not modelled: `forget()` leaves
`allocAtBoot` as it was; `Dropped.java:76` computes the span's length before it is closed
and records minus one; a declared drop is drawn from the same stream on the client and on
the server (`ServerSide.java:90`); a node that calls `dissaly.Job` with dissaly's header
during Load makes dissaly's own Run the one that is refused; `Machines.java:286` looks for
a service and then adds to it.

In the console (`viewer/lib/console.tsx`; all in `Console`):

- 193: a superseded load that fails still sets `error`. 214: a dropped file is wanted only
  once it is read, and ends the loading of whatever is wanted then.
- 332: a step Back that opens another run pushes an entry, which destroys those forward;
  Back to the run whose open failed last is ignored, and Back to an address without a run
  leaves the run open. 293: `go()` writes the name of a dropped file into the address.
- 284: `startBuild` ends with the `go` of the render it was pressed in, which writes the
  run that was open then. 129: the moment (`t`) of the run before stays in the address of
  the next. 240: an answer of `project()` that is late follows a build that ended.
- 230: manifests are taken in the order they arrive, an old one last; one that is not
  there empties the gallery. `cli/Serve.java:615`: two requests may both be let start.

In the form (`viewer/components/console/Simulations.tsx`; in `Author` and `Draft`):

- `+ Pool` numbers by the count of pools and may give a name that is there; a partition
  keeps the name of a node that was renamed; fractional counts are not rounded where they
  are typed; taking a file off leaves its price; `every` is offered for failures that strike once.
- 66: a palette that comes late replaces a draft that was opened; 142: so does a late
  answer to an edit that was cancelled, and it is then edited under "new", which the
  comment at 62 rules out. `cli/Serve.java:399` says "what lands on disk is a file that
  will start", which `runtime/Machines.java:125` may still refuse.

In the player:

- `viewer/lib/trace.ts:556`: without samples every channel is nought, and a run whose
  telemetry was off is drawn with every node dead (`StateOf` in `Frame`).
- `components/console/Usage.tsx:55`: the ruler of `diskPct` ends at a hundred, which the
  last, refused write of a run may exceed (above).
- `viewer/lib/trace.ts:126`: `entries()` counts the commas of some values that are not
  lists, which the comment at 117 says it does not (`Weigh` in `Trace`).
- `viewer/lib/trace.ts:622`: a task 0 that is sent again is numbered as task 1.
- `viewer/lib/spans.ts:178`: a span whose parent was not recorded is in no row.
- `viewer/lib/ledger.ts`: without a series the line of storage never comes to anything.
- `viewer/components/Spans.tsx`: what was collapsed and filtered survives a change of run,
  and panning at an edge narrows the window (`Pan`).
- `viewer/components/console/FilmView.tsx:42`: answers of `compare()` out of order show the
  run that was asked for first, and the comparison is not taken back when the run
  changes. `Film.tsx`: the scrubber is as long as the open run where the clock is as long
  as the longer one; its brackets reach from half a millisecond on, the console's from
  one, against `Transport.tsx:15`, "matches Film's own playbar exactly".
- `viewer/lib/record.ts:97`: play and seek move the picture between `showFrame` and
  `drawInto`; a save that failed leaves the buttons off until the page is mounted again
  (`SaveFails`).
- Not modelled: `Overview.tsx` says "every call so far was answered" while one is open;
  `components/Topology.tsx` tints an edge by the failures of the whole run before they
  happen.

On the Cost and Usage pages (`viewer/components/console/`):

- `Cost.tsx:125`: a run that is being fetched is fetched again at every tick and answer,
  and the first of the fetches to come back takes "Loading" off while the others are in
  flight (`Want` and `Silent` in `Comparison`).
- `Cost.tsx:97`, "Other runs to put beside this one": a run that is ticked and then opened
  on this page stays ticked; it is a bar twice and has no box to untick (`OpenRun`).
- `Cost.tsx:111`: a run without a bill stays ticked, has no bar and is fetched again with
  the next tick (`CameUnbilled`).
- `Usage.tsx`: beyond 240 samples the ruler of a chart is that of the samples that were
  kept (`tops` in `Usage`).

## Plan

Done, in this order: `Machine` with `Incarnations`, `Weather`, `Rpc` with `Call`,
`Sampler`, `Run`, `Console`, `Draft` and `Author`, and the player with the modules it is
made of, `Usage` among them, and `Comparison`; for each its runs and mutants, and theorems.

What would add most next:

1. **Discovery** (`Machines.register`, `find`, the pool that waits): who finds whom across
   a restart; every waiter is woken or gives up. To be composed with `Run`.
2. **The log of a run** (`Serve`, `Lab`): a follower's cursor over a log that is cut. An
   abstract log with readers, shown to be implemented, in place of `said` in `Console`.
3. **Development server** (`Dev`): requests that meet a process being replaced.
4. **Scale engine**: the search of `Solve` and the replay of `Schedule` against a search
   over everything, on small inputs.
5. **Prices**: the intervals billed are the intervals lived.

## What is not modelled

The costs, sizes and renderings noted along a call; the allocation meter and its clamp;
the streams of random numbers (their results are choices); streaming calls; the JSON of
a trace; streaming to a page; what the program under simulation does beyond
calling, keeping and not returning. Whole components without a module are listed in
`PROJECT.json` with the reason: tables, static readings, commands without state and
generated code need none; the others are in the plan. Of the viewer: the drawings, the
panels and their wording, the tables of the Cost and
Usage pages, and the YAML text, of which a file's tree is what is left.
