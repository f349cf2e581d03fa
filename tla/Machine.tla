------------------------------- MODULE Machine -------------------------------
(***************************************************************************)
(* One simulated machine (runtime/Machine.java) and the four kinds of      *)
(* thread that touch it without a lock:                                    *)
(*                                                                         *)
(*   - the dispatcher ("dissaly-failures"), which kills, freezes, thaws,   *)
(*     degrades and restarts it;                                           *)
(*   - the walkers: the sampler, which walks the heap on its cadence, and  *)
(*     the thread that runs Simulate.of, which walks it once more when the *)
(*     run is over.  Either may find the machine out of memory;            *)
(*   - the machine's pool threads, which run handlers;                     *)
(*   - the thread that runs Simulate.of, which tears the machine down.     *)
(*                                                                         *)
(* A life is what one execution of start() builds: services, store and the *)
(* server that serves them, numbered from 1.  The in-process registry that *)
(* maps a machine's name to its server belongs to gRPC: here a server that *)
(* was told to stop gives its name back at some later moment, at the latest*)
(* when the last handler running on it is done, which is what releaseName  *)
(* and shutdown assume of it.                                              *)
(***************************************************************************)
EXTENDS Integers, FiniteSets

CONSTANTS
    Rebuildable,    \* registered through serves(supplier), not serving(instances)
    Slots,          \* the pool threads, vcpu of them
    MemoryCap,      \* memoryCapMb
    DiskCap,        \* diskCapMb
    Factors,        \* the factors a degrade may be given
    FreezeFor,      \* the durations a freeze may be given
    MaxHeld,        \* bound: what the services of one life hold in fields
    MaxDisk,        \* bound: what is written to disk in one life
    MaxLives,       \* bound: how often start() rebuilds
    Horizon         \* bound: the clock

ASSUME MachineAssumption ==
    /\ Rebuildable \in BOOLEAN
    /\ MemoryCap \in Nat /\ DiskCap \in Nat
    /\ MaxHeld \in Nat /\ MaxDisk \in Nat
    /\ MaxLives \in Nat \ {0}
    /\ Horizon \in Nat
    /\ Factors \subseteq Nat
    /\ FreezeFor \subseteq Nat \ {0}

VARIABLES
    now,            \* real time, which freezes are measured in
    alive, degraded, frozenUntil,
    oomReported, diskFullReported, diskBytes, retainedBytes,
    life,           \* which services roots holds: the life last built
    held,           \* what those services hold in fields
    store,          \* what local() holds, each entry tagged with its writer's life
    server,         \* the field: the life whose server it is, 0 for null
    bound,          \* the life whose server the registry has under the name, 0 for none
    stopping,       \* that server has been told to shut down
    stopped,
    running,        \* the dispatcher has not been closed
    sampling,       \* the sampler has not been interrupted
    dpc,            \* the dispatcher: where in restart() and start() it is
    mishaps,        \* what start() met since the last server was bound: see Mishaps
    wpc, measured,  \* the walkers: where in overCap, and what was measured of which life
    hpc, hlife,     \* the handlers: what each does, for the services of which life
    mpc             \* where in the end of Simulate.of the main thread is

vitals   == <<alive, degraded, frozenUntil>>
gauges   == <<oomReported, diskFullReported, diskBytes, retainedBytes>>
services == <<life, held, store>>
net      == <<server, bound, stopping>>
walkers  == <<wpc, measured>>
handlers == <<hpc, hlife>>
ending   == <<stopped, running, sampling, mpc>>
vars == <<now, vitals, gauges, services, net, walkers, handlers, ending, dpc, mishaps>>

Walkers  == {"sampler", "main"}

\* A wait for the name ended before the name was free; a service could not be built.
Mishaps  == {"late", "unbuilt"}

-----------------------------------------------------------------------------
(* Helpers. *)

Larger(a, b) == IF a >= b THEN a ELSE b

\* A call can still be delivered to the server under the machine's name.
Listening == bound # 0 /\ ~stopping

\* What Retained.of(roots) would answer: the services' fields and the store.
Holding == held + Cardinality(store)

\* A walker that is not walking has measured nothing.
Nothing == [bytes |-> 0, of |-> 0]

\* shutdown() has interrupted the pool: it takes no further task.
PoolDown == mpc \in {"release", "await", "end"}

Init ==
    /\ now = 0
    /\ alive = TRUE /\ degraded = 1 /\ frozenUntil = 0
    /\ oomReported = FALSE /\ diskFullReported = FALSE
    /\ diskBytes = 0 /\ retainedBytes = 0
    /\ life = 1 /\ held = 0 /\ store = {}
    /\ server = 1 /\ bound = 1 /\ stopping = FALSE
    /\ stopped = FALSE /\ running = TRUE /\ sampling = TRUE /\ mpc = "run"
    /\ dpc = "idle" /\ mishaps = {}
    /\ wpc = [w \in Walkers |-> "idle"]
    /\ measured = [w \in Walkers |-> Nothing]
    /\ hpc = [s \in Slots |-> "idle"] /\ hlife = [s \in Slots |-> 0]

Tick ==
    /\ now < Horizon
    /\ now' = now + 1
    /\ UNCHANGED <<vitals, gauges, services, net, walkers, handlers, ending, dpc, mishaps>>

-----------------------------------------------------------------------------
(* Faults, all on the dispatcher's thread. *)

\* The dispatcher holds an action and waits for its instant.  It does not look at
\* running meanwhile: a closed dispatcher still fires the one it had already taken.
AtFault == dpc = "idle"

\* while (running), the only place a dispatcher that was closed stops.
LoopHead == IF running THEN "idle" ELSE "exit"

\* Nothing is queued, and the loop finds that it was closed.
LoopExits ==
    /\ AtFault /\ ~running
    /\ dpc' = "exit"
    /\ UNCHANGED <<now, vitals, gauges, services, net, walkers, handlers, ending, mishaps>>

kill ==
    /\ AtFault
    /\ alive' = FALSE
    /\ dpc' = LoopHead
    /\ UNCHANGED <<now, degraded, frozenUntil, gauges, services, net, walkers,
                   handlers, ending, mishaps>>

freeze(d) ==
    /\ AtFault
    /\ frozenUntil' = Larger(frozenUntil, now + d)
    /\ dpc' = LoopHead
    /\ UNCHANGED <<now, alive, degraded, gauges, services, net, walkers, handlers, ending, mishaps>>

thaw ==
    /\ AtFault
    /\ frozenUntil' = 0
    /\ dpc' = LoopHead
    /\ UNCHANGED <<now, alive, degraded, gauges, services, net, walkers, handlers, ending, mishaps>>

degrade(f) ==
    /\ AtFault
    /\ degraded' = Larger(1, f)
    /\ dpc' = LoopHead
    /\ UNCHANGED <<now, alive, frozenUntil, gauges, services, net, walkers, handlers, ending,
                   mishaps>>

(***************************************************************************)
(* restart(), one step per shared variable another thread can see change.  *)
(***************************************************************************)
restart ==
    /\ AtFault
    /\ life < MaxLives
    /\ dpc' = IF stopped THEN LoopHead ELSE "revive"
    /\ UNCHANGED <<now, vitals, gauges, services, net, walkers, handlers, ending, mishaps>>

Revive ==
    /\ dpc = "revive"
    /\ alive' = TRUE /\ degraded' = 1 /\ frozenUntil' = 0
    /\ dpc' = "clear"
    /\ UNCHANGED <<now, gauges, services, net, walkers, handlers, ending, mishaps>>

\* Mutant of ClearGauges: the out-of-memory flag survives the restart.
ClearGaugesKeepsFlag ==
    /\ dpc = "clear"
    /\ diskFullReported' = FALSE /\ diskBytes' = 0 /\ retainedBytes' = 0
    /\ dpc' = IF Rebuildable THEN "start" ELSE "done"
    /\ UNCHANGED <<now, vitals, oomReported, services, net, walkers, handlers, ending, mishaps>>

ClearGauges ==
    /\ dpc = "clear"
    /\ oomReported' = FALSE /\ diskFullReported' = FALSE
    /\ diskBytes' = 0 /\ retainedBytes' = 0
    /\ dpc' = IF Rebuildable THEN "start" ELSE "done"
    /\ UNCHANGED <<now, vitals, services, net, walkers, handlers, ending, mishaps>>

\* start(): a machine that has been shut down returns here, without an error.
StartChecksStopped ==
    /\ dpc = "start"
    /\ dpc' = IF stopped THEN "done" ELSE "release"
    /\ UNCHANGED <<now, vitals, gauges, services, net, walkers, handlers, ending, mishaps>>

\* releaseName(): the field is cleared and the server it held told to stop.
releaseName ==
    /\ server' = 0
    /\ stopping' = (stopping \/ (server # 0 /\ bound = server))
    /\ UNCHANGED bound

\* Mutants of StartReleases: the old server is not told to stop; or it is told,
\* and start() goes on without waiting for it.
StartDropsServer ==
    /\ dpc = "release"
    /\ server' = 0
    /\ dpc' = "rebuild"
    /\ UNCHANGED <<now, vitals, gauges, services, bound, stopping, walkers, handlers, ending,
                   mishaps>>

StartReleasesAndGoesOn ==
    /\ dpc = "release"
    /\ releaseName
    /\ dpc' = "rebuild"
    /\ UNCHANGED <<now, vitals, gauges, services, walkers, handlers, ending, mishaps>>

StartReleases ==
    /\ dpc = "release"
    /\ releaseName
    /\ dpc' = IF server = 0 THEN "rebuild" ELSE "await"
    /\ UNCHANGED <<now, vitals, gauges, services, walkers, handlers, ending, mishaps>>

\* awaitTermination says the server is gone, ...
StartAwaits ==
    /\ dpc = "await"
    /\ ~stopping
    /\ dpc' = "rebuild"
    /\ UNCHANGED <<now, vitals, gauges, services, net, walkers, handlers, ending, mishaps>>

\* Mutant of StartGivesUp: awaitTermination() without a limit.
StartNeverGivesUp ==
    /\ dpc = "await"
    /\ ~running
    /\ mishaps' = mishaps \cup {"late"}
    /\ dpc' = "rebuild"
    /\ UNCHANGED <<now, vitals, gauges, services, net, walkers, handlers, ending>>

\* ... or two seconds pass, or close() interrupts it.  start() does not ask which.
StartGivesUp ==
    /\ dpc = "await"
    /\ stopping
    /\ mishaps' = mishaps \cup {"late"}
    /\ dpc' = "rebuild"
    /\ UNCHANGED <<now, vitals, gauges, services, net, walkers, handlers, ending>>

\* The roots and the store are emptied and the services built anew.  The constructor
\* of one, which is the program's, may throw: the dispatcher swallows that, and the
\* name has been given back by then.
Rebuild ==
    /\ dpc = "rebuild"
    /\ life' = life + 1 /\ held' = 0 /\ store' = {}
    /\ \/ dpc' = "bind" /\ UNCHANGED mishaps
       \/ dpc' = LoopHead /\ mishaps' = mishaps \cup {"unbuilt"}
    /\ UNCHANGED <<now, vitals, gauges, net, walkers, handlers, ending>>

\* Mutant of Bind: the exception is not swallowed, and ends the dispatcher's thread.
BindThrows ==
    /\ dpc = "bind"
    /\ IF bound = 0
         THEN /\ server' = life /\ bound' = life /\ stopping' = FALSE
              /\ dpc' = "done" /\ mishaps' = {}
         ELSE dpc' = "exit" /\ UNCHANGED <<net, mishaps>>
    /\ UNCHANGED <<now, vitals, gauges, services, walkers, handlers, ending>>

\* b.build().start(): a name that is still held is an IllegalStateException,
\* which the dispatcher's loop swallows, and the restart event is never written.
Bind ==
    /\ dpc = "bind"
    /\ IF bound = 0
         THEN /\ server' = life /\ bound' = life /\ stopping' = FALSE
              /\ dpc' = "done" /\ mishaps' = {}
         ELSE dpc' = LoopHead /\ UNCHANGED <<net, mishaps>>
    /\ UNCHANGED <<now, vitals, gauges, services, walkers, handlers, ending>>

RestartDone ==
    /\ dpc = "done"
    /\ dpc' = LoopHead
    /\ UNCHANGED <<now, vitals, gauges, services, net, walkers, handlers, ending, mishaps>>

\* The transport gives the name of a stopping server back.
Unregister ==
    /\ stopping
    /\ bound' = 0 /\ stopping' = FALSE
    /\ UNCHANGED <<now, vitals, gauges, services, server, walkers, handlers, ending,
                   dpc, mishaps>>

-----------------------------------------------------------------------------
(* Out of memory, found by the sampler or by the final measureRetained(). *)

\* Retained.of(roots, ...): the walk itself, which takes no lock.
Walk(w) ==
    /\ wpc[w] = "idle"
    /\ measured' = [measured EXCEPT ![w] = [bytes |-> Holding, of |-> life]]
    /\ wpc' = [wpc EXCEPT ![w] = "walked"]

\* The walker returns, and what it measured goes with its stack frame.
Forget(w) ==
    /\ wpc' = [wpc EXCEPT ![w] = "idle"]
    /\ measured' = [measured EXCEPT ![w] = Nothing]

SamplerWalks ==
    /\ sampling
    /\ Walk("sampler")
    /\ UNCHANGED <<now, vitals, gauges, services, net, handlers, ending, dpc, mishaps>>

\* retainedBytes.set(r.bytes()), then overCap(r) looks at the cap and the flag.
OverCapChecks(w) ==
    /\ wpc[w] = "walked"
    /\ retainedBytes' = measured[w].bytes
    /\ IF measured[w].bytes <= MemoryCap \/ oomReported
         THEN Forget(w)
         ELSE wpc' = [wpc EXCEPT ![w] = "report"] /\ UNCHANGED measured
    /\ UNCHANGED <<now, vitals, oomReported, diskFullReported, diskBytes, services, net,
                   handlers, ending, dpc, mishaps>>

OverCapReports(w) ==
    /\ wpc[w] = "report"
    /\ oomReported' = TRUE
    /\ wpc' = [wpc EXCEPT ![w] = "kill"]
    /\ UNCHANGED <<now, vitals, diskFullReported, diskBytes, retainedBytes, services, net,
                   measured, handlers, ending, dpc, mishaps>>

OverCapKills(w) ==
    /\ wpc[w] = "kill"
    /\ alive' = FALSE
    /\ Forget(w)
    /\ UNCHANGED <<now, degraded, frozenUntil, gauges, services, net, handlers, ending,
                   dpc, mishaps>>

-----------------------------------------------------------------------------
(* Handlers on the pool.  Neither a kill nor a restart interrupts one: it  *)
(* goes on running for the services of the life it was called on.          *)

HandlerStarts(s) ==
    /\ Listening /\ ~PoolDown
    /\ hpc[s] = "idle"
    /\ hpc' = [hpc EXCEPT ![s] = "handling"]
    /\ hlife' = [hlife EXCEPT ![s] = bound]
    /\ UNCHANGED <<now, vitals, gauges, services, net, walkers, ending, dpc, mishaps>>

\* The service keeps something: in a field, or in the machine's store, which is
\* one object for all lives.  A field of an earlier life's service is no root.
HandlerHolds(s) ==
    /\ hpc[s] = "handling"
    /\ hlife[s] = life
    /\ held < MaxHeld
    /\ held' = held + 1
    /\ UNCHANGED <<now, vitals, gauges, life, store, net, walkers, handlers, ending,
                   dpc, mishaps>>

HandlerStores(s) ==
    /\ hpc[s] = "handling"
    /\ store' = store \cup {hlife[s]}
    /\ UNCHANGED <<now, vitals, gauges, life, held, net, walkers, handlers, ending,
                   dpc, mishaps>>

\* wroteDisk(): the sum is atomic, the report behind a compareAndSet.
WroteDisk(s) ==
    /\ hpc[s] = "handling"
    /\ diskBytes < MaxDisk
    /\ diskBytes' = diskBytes + 1
    /\ hpc' = [hpc EXCEPT ![s] = IF diskBytes' <= DiskCap THEN "handling" ELSE "full"]
    /\ UNCHANGED <<now, vitals, oomReported, diskFullReported, retainedBytes, services, net,
                   walkers, hlife, ending, dpc, mishaps>>

\* The thread goes back to the pool.
Leave(s) ==
    /\ hpc' = [hpc EXCEPT ![s] = "idle"]
    /\ hlife' = [hlife EXCEPT ![s] = 0]

\* ... and the write is refused either way: the handler fails.
DiskFull(s) ==
    /\ hpc[s] = "full"
    /\ diskFullReported' = TRUE
    /\ Leave(s)
    /\ UNCHANGED <<now, vitals, oomReported, diskBytes, retainedBytes, services, net,
                   walkers, ending, dpc, mishaps>>

HandlerEnds(s) ==
    /\ hpc[s] = "handling"
    /\ Leave(s)
    /\ UNCHANGED <<now, vitals, gauges, services, net, walkers, ending, dpc, mishaps>>

-----------------------------------------------------------------------------
(* The end of Simulate.of: dispatcher.close(), stopSampling(), the closing *)
(* measurement, and shutdown() out of the try-with-resources.              *)

CloseDispatcher ==
    /\ mpc = "run"
    /\ running' = FALSE /\ mpc' = "closed"
    /\ UNCHANGED <<now, vitals, gauges, services, net, walkers, handlers, stopped, sampling,
                   dpc, mishaps>>

\* interrupt and join(500): the sampler may still be in the middle of a walk.
StopSampling ==
    /\ mpc = "closed"
    /\ sampling' = FALSE /\ mpc' = "sampled"
    /\ UNCHANGED <<now, vitals, gauges, services, net, walkers, handlers, stopped, running,
                   dpc, mishaps>>

\* if (m.alive()) m.measureRetained().  The walk may throw on what a handler changes
\* meanwhile: of() then goes on with the teardown, as it does for a dead machine.
FinalMeasure ==
    /\ mpc = "sampled"
    /\ \/ alive /\ Walk("main") /\ mpc' = "measuring"
       \/ mpc' = "totals" /\ UNCHANGED walkers
    /\ UNCHANGED <<now, vitals, gauges, services, net, handlers, stopped, running, sampling,
                   dpc, mishaps>>

TakeTotals ==
    /\ mpc = "measuring" /\ wpc["main"] = "idle"
    /\ mpc' = "totals"
    /\ UNCHANGED <<now, vitals, gauges, services, net, walkers, handlers, stopped, running,
                   sampling, dpc, mishaps>>

\* shutdown(): stopped is set first, ...
SetStopped ==
    /\ mpc = "totals"
    /\ stopped' = TRUE /\ mpc' = "stopped"
    /\ UNCHANGED <<now, vitals, gauges, services, net, walkers, handlers, running, sampling,
                   dpc, mishaps>>

\* ... then the server is told to stop and the pool interrupted, ...
ShutdownNow ==
    /\ mpc = "stopped"
    /\ stopping' = (stopping \/ (bound = server /\ bound # 0))
    /\ mpc' = "release"
    /\ UNCHANGED <<now, vitals, gauges, services, server, bound, walkers, handlers, stopped,
                   running, sampling, dpc, mishaps>>

\* ... and last the name is given back, waiting at most two seconds for it.
ShutdownReleases ==
    /\ mpc = "release"
    /\ releaseName
    /\ mpc' = "await"
    /\ UNCHANGED <<now, vitals, gauges, services, walkers, handlers, stopped, running, sampling,
                   dpc, mishaps>>

\* Mutant of ShutdownAwaits: the wait for the name has no limit.
ShutdownAwaitsForever ==
    /\ mpc = "await" /\ ~stopping
    /\ mpc' = "end"
    /\ UNCHANGED <<now, vitals, gauges, services, net, walkers, handlers, stopped, running,
                   sampling, dpc, mishaps>>

ShutdownAwaits ==
    /\ mpc = "await"
    /\ mpc' = "end"
    /\ UNCHANGED <<now, vitals, gauges, services, net, walkers, handlers, stopped, running,
                   sampling, dpc, mishaps>>

-----------------------------------------------------------------------------
Faults == kill \/ thaw \/ restart \/ LoopExits
                                  \/ (\E d \in FreezeFor : freeze(d))
                                  \/ (\E f \in Factors : degrade(f))

RestartStep == \/ Revive \/ ClearGauges \/ StartChecksStopped \/ StartReleases
               \/ StartAwaits \/ StartGivesUp \/ Rebuild \/ Bind \/ RestartDone

WalkerStep == \/ SamplerWalks
              \/ \E w \in Walkers : OverCapChecks(w) \/ OverCapReports(w) \/ OverCapKills(w)

HandlerStep == \E s \in Slots : \/ HandlerStarts(s) \/ HandlerHolds(s) \/ HandlerStores(s)
                                \/ WroteDisk(s) \/ DiskFull(s) \/ HandlerEnds(s)

MainStep == \/ CloseDispatcher \/ StopSampling \/ FinalMeasure \/ TakeTotals
            \/ SetStopped \/ ShutdownNow \/ ShutdownReleases \/ ShutdownAwaits

Next == Tick \/ Faults \/ RestartStep \/ WalkerStep \/ HandlerStep \/ MainStep \/ Unregister

Spec == Init /\ [][Next]_vars

(***************************************************************************)
(* Every thread but a handler's is scheduled until it is done: the         *)
(* dispatcher once it is inside restart(), a walker once it has begun to   *)
(* walk, the main thread once the run is over.  Nothing is assumed of the  *)
(* handlers, which run the program under test, or of the registry.         *)
(***************************************************************************)
FairSpec == /\ Spec
            /\ WF_vars(RestartStep)
            /\ WF_vars(WalkerStep /\ wpc["main"] # "idle")
            /\ WF_vars(MainStep /\ mpc # "run")

-----------------------------------------------------------------------------
(* Properties. *)

VitalsOK ==
    /\ now \in Nat
    /\ alive \in BOOLEAN /\ degraded \in Nat /\ frozenUntil \in Nat

GaugesOK ==
    /\ oomReported \in BOOLEAN /\ diskFullReported \in BOOLEAN
    /\ diskBytes \in Nat /\ retainedBytes \in Nat

ServicesOK == life \in 1 .. MaxLives /\ held \in Nat /\ store \subseteq 1 .. MaxLives

NetOK == server \in 0 .. MaxLives /\ bound \in 0 .. MaxLives /\ stopping \in BOOLEAN

WalkersOK ==
    /\ wpc \in [Walkers -> {"idle", "walked", "report", "kill"}]
    /\ measured \in [Walkers -> [bytes : Nat, of : 0 .. MaxLives]]

HandlersOK ==
    /\ hpc \in [Slots -> {"idle", "handling", "full"}]
    /\ hlife \in [Slots -> 0 .. MaxLives]

DispatcherOK ==
    /\ dpc \in {"idle", "revive", "clear", "start", "release", "await", "rebuild", "bind",
                "done", "exit"}
    /\ mishaps \subseteq Mishaps

EndingOK ==
    /\ stopped \in BOOLEAN /\ running \in BOOLEAN /\ sampling \in BOOLEAN
    /\ mpc \in {"run", "closed", "sampled", "measuring", "totals", "stopped", "release",
                "await", "end"}

\* Every variable keeps to its type, part by part.
TypeOK == /\ VitalsOK /\ GaugesOK /\ ServicesOK /\ NetOK
          /\ WalkersOK /\ HandlersOK /\ DispatcherOK /\ EndingOK

\* Calls only ever reach the services whose heap is walked: whoever listens under
\* the machine's name is the server of the current life, whatever a restart, a
\* failed bind and a shutdown did to the field and the registry (Machine.start,
\* releaseName).
ListeningIsCurrent == Listening => bound = life /\ server = life

\* A live machine can still be reported out of memory: the flag that silences
\* overCap is only ever left up on a dead machine, except in the two windows where
\* a walker is about to kill it or restart() is about to take the flag down.  It
\* rests on the order of the writes in restart() and in overCap().
LiveCanBeReported ==
    alive /\ oomReported => dpc = "clear" \/ \E w \in Walkers : wpc[w] = "kill"

\* A machine that is up, with no fault in progress, answers under its name, unless a
\* restart since it last did stopped waiting for the name before the old server gave
\* it back, or could not build a service: a name that was free is taken, and a server
\* that was bound is not lost without a restart.
AliveServes ==
    alive /\ ~stopped /\ dpc \in {"idle", "exit"} => Listening \/ mishaps # {}

\* Once shutdown() is over nobody answers under the machine's name, as the comment on
\* `stopped` has it; start() looks at it once, long before it binds.
StaysShutDown == mpc = "end" => ~Listening

\* A machine that comes back comes back with services built anew: those it had when it
\* fell silent are not heard again, as the page on failures has it.
BackIsFresh == [][~alive /\ alive' /\ Rebuildable => ~Listening']_vars

\* A fault never wedges the thread all faults run on: every restart() ends, though
\* a handler of the old server may never return.
RestartEnds == dpc = "revive" ~> dpc \in {"idle", "exit"}

\* Nor can a handler that does not return, or a restart in progress, hold up the
\* end of the run.
TeardownEnds == mpc = "closed" ~> mpc = "end"

\* What callers see is a sequence of incarnations, whichever of kill(), restart(), a
\* service that cannot be built, a refused bind and shutdown() intervenes: no two ever
\* answer at once, one that gave its name back never answers again, and services are
\* only replaced in between.  A machine that is not alive is not called (ClientSide),
\* though a call on its way still reaches it.
Lives == INSTANCE Incarnations
    WITH answering <- IF Listening /\ alive THEN bound ELSE 0,
         newest <- life, on <- hlife,
         state <- CASE Listening -> "serving"
                    [] ~Listening /\ dpc = "bind" -> "built"
                    [] ~Listening /\ dpc # "bind" -> "retired"

ImplementsIncarnations == Lives!Spec

=============================================================================
