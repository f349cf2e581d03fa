--------------------------------- MODULE Run ---------------------------------
(***************************************************************************)
(* One simulation from its Load to its trace (runtime/Simulate.java, of()),*)
(* and the calls that are recorded meanwhile: the two dissaly makes itself,*)
(* those the nodes make of each other, and those of a node that calls      *)
(* dissaly.Job as if it were dissaly (ServerSide.java, Machines.java).     *)
(* What the recorder holds is what Telemetry.java keeps: spans, which a    *)
(* reader of the trace still shares with whoever closes them, and events.  *)
(*                                                                         *)
(* A call is recorded on the server's side only.  What befalls the machines*)
(* is module Machine; of it a restart of the entry node matters here.      *)
(***************************************************************************)
EXTENDS Naturals, FiniteSets

CONSTANTS
    Peers,          \* calls of nodes, of services other than dissaly.Job
    Forgers,        \* calls of dissaly.Job/Run by nodes that attached dissaly's header
    Plain           \* calls of dissaly.Job/Run by nodes that did not

ASSUME RunAssumption ==
    /\ Peers \cap (Forgers \cup Plain) = {} /\ Forgers \cap Plain = {}
    /\ (Peers \cup Forgers \cup Plain) \cap {"load", "run"} = {}

Own == {"load", "run"}
Others == Peers \cup Forgers \cup Plain
Calls == Own \cup Others

VARIABLES
    main,           \* where Simulate.of() is
    outcome,        \* none, completed, failed
    call,           \* per call: where it is on the server
    reply,          \* per call: none, ok, error: what its caller has been told
    span,           \* per call: none, or the status of its handler span
    closes,         \* per call: how often its span was closed
    entered,        \* Machines.entered
    spans, events,  \* what the recorder keeps
    handled,        \* the nodes' counts of calls handled, together
    dangling,       \* the spans the sweep has yet to close
    before,         \* history: the spans there were when the sweep began
    traced          \* the spans and the events the trace took, and the count in its totals

recorder == <<spans, events, span, closes, handled>>
sweep == <<dangling, before>>
vars == <<main, outcome, call, reply, entered, recorder, sweep, traced>>

-----------------------------------------------------------------------------
Method(c) == IF c = "load" THEN "Load" ELSE "Run"

Inside(c) == call[c] \in {"entering", "open", "running", "answered", "counted", "finished"}

Init ==
    /\ main = "start" /\ outcome = "none"
    /\ call = [c \in Calls |-> "none"] /\ reply = [c \in Calls |-> "none"]
    /\ span = [c \in Calls |-> "none"] /\ closes = [c \in Calls |-> 0]
    /\ entered = {} /\ spans = {} /\ events = {} /\ handled = 0
    /\ dangling = {} /\ before = {}
    /\ traced = [spans |-> {}, events |-> {}, handled |-> 0]

-----------------------------------------------------------------------------
(* The calls, on the server's side (ServerSide). *)

\* A handler that is running makes a call, which arrives.
MakeCall(c) ==
    /\ c \in Others /\ call[c] = "none"
    /\ \E d \in Calls : call[d] = "running"
    /\ call' = [call EXCEPT ![c] = "sent"]
    /\ UNCHANGED <<main, outcome, reply, entered, recorder, sweep, traced>>

Refused(c) == c \in Plain \/ (c \notin Peers /\ Method(c) \in entered)

\* interceptCall(): dissaly.Job is entered once, and by dissaly.
Guard(c) ==
    /\ call[c] = "sent"
    /\ IF Refused(c)
         THEN /\ call' = [call EXCEPT ![c] = "refused"]
              /\ reply' = [reply EXCEPT ![c] = IF @ = "none" THEN "error" ELSE @]
              /\ UNCHANGED entered
         ELSE /\ call' = [call EXCEPT ![c] = "entering"]
              /\ entered' = IF c \in Peers THEN entered ELSE entered \cup {Method(c)}
              /\ UNCHANGED reply
    /\ UNCHANGED <<main, outcome, recorder, sweep, traced>>

\* openUnder()
OpenSpan(c) ==
    /\ call[c] = "entering"
    /\ call' = [call EXCEPT ![c] = "open"]
    /\ span' = [span EXCEPT ![c] = "OPEN"] /\ spans' = spans \cup {c}
    /\ UNCHANGED <<main, outcome, reply, entered, events, closes, handled, sweep, traced>>

\* onHalfClose()
HandlerStart(c) ==
    /\ call[c] = "open"
    /\ call' = [call EXCEPT ![c] = "running"]
    /\ events' = events \cup {<<"handler_start", c>>}
    /\ UNCHANGED <<main, outcome, reply, entered, spans, span, closes, handled, sweep, traced>>

\* close(): the caller is told, unless it was told something from outside before.
Answer(c) ==
    /\ call[c] = "running"
    /\ call' = [call EXCEPT ![c] = "answered"]
    /\ \E r \in {"ok", "error"} : reply' = [reply EXCEPT ![c] = IF @ = "none" THEN r ELSE @]
    /\ UNCHANGED <<main, outcome, entered, recorder, sweep, traced>>

\* finish(), after the answer and while its caller goes on: counted, ...
Count(c) ==
    /\ call[c] = "answered"
    /\ call' = [call EXCEPT ![c] = "counted"]
    /\ handled' = handled + 1
    /\ UNCHANGED <<main, outcome, reply, entered, spans, events, span, closes, sweep, traced>>

\* ... the span closed, and the event written.
HandlerEnd(c) ==
    /\ call[c] = "counted"
    /\ call' = [call EXCEPT ![c] = "finished"]
    /\ span' = [span EXCEPT ![c] = "closed"] /\ closes' = [closes EXCEPT ![c] = @ + 1]
    /\ events' = events \cup {<<"handler_end", c>>}
    /\ UNCHANGED <<main, outcome, reply, entered, spans, handled, sweep, traced>>

\* Mutant of RestartEntry: what was entered is a field of the machine.
RestartForgetsEntries ==
    /\ main = "await"
    /\ reply' = [reply EXCEPT !["run"] = IF @ = "none" THEN "error" ELSE @]
    /\ entered' = {}
    /\ UNCHANGED <<main, outcome, call, recorder, sweep, traced>>

\* The entry node restarts: the call dissaly waits for is closed from outside.
RestartEntry ==
    /\ main = "await" /\ reply["run"] = "none"
    /\ reply' = [reply EXCEPT !["run"] = "error"]
    /\ UNCHANGED <<main, outcome, call, entered, recorder, sweep, traced>>

-----------------------------------------------------------------------------
(* Simulate.of(). *)

CallLoad ==
    /\ main = "start"
    /\ main' = "loading" /\ call' = [call EXCEPT !["load"] = "sent"]
    /\ UNCHANGED <<outcome, reply, entered, recorder, sweep, traced>>

\* A Load that failed is an exception: there is no run.
LoadReturns ==
    /\ main = "loading" /\ reply["load"] # "none"
    /\ main' = IF reply["load"] = "ok" THEN "loaded" ELSE "threw"
    /\ UNCHANGED <<outcome, call, reply, entered, recorder, sweep, traced>>

\* Machine.forget() of every node
ForgetCounts ==
    /\ main = "loaded"
    /\ main' = "forgetting" /\ handled' = 0
    /\ UNCHANGED <<outcome, call, reply, entered, spans, events, span, closes, sweep, traced>>

\* Telemetry.forget()
ForgetRecord ==
    /\ main = "forgetting"
    /\ main' = "begin" /\ events' = {} /\ spans' = {}
    /\ UNCHANGED <<outcome, call, reply, entered, span, closes, handled, sweep, traced>>

\* Mutant of Begin: the record is thrown away only now.
BeginThenForget ==
    /\ main = "begin"
    /\ main' = "ready" /\ events' = {} /\ spans' = {}
    /\ UNCHANGED <<outcome, call, reply, entered, span, closes, handled, sweep, traced>>

\* begin(), and the simulation event
Begin ==
    /\ main = "begin"
    /\ main' = "ready" /\ events' = events \cup {<<"boot", "-">>, <<"simulation", "-">>}
    /\ UNCHANGED <<outcome, call, reply, entered, spans, span, closes, handled, sweep, traced>>

CallRun ==
    /\ main = "ready"
    /\ main' = "await" /\ call' = [call EXCEPT !["run"] = "sent"]
    /\ UNCHANGED <<outcome, reply, entered, recorder, sweep, traced>>

\* The future has an answer, or an exception.
RunReturns ==
    /\ main = "await" /\ reply["run"] # "none"
    /\ main' = "ended"
    /\ IF reply["run"] = "ok"
         THEN outcome' = "completed" /\ events' = events \cup {<<"done", "run">>}
         ELSE outcome' = "failed" /\ events' = events \cup {<<"failed", "run">>}
    /\ UNCHANGED <<call, reply, entered, spans, span, closes, handled, sweep, traced>>

\* Mutant of Watchdog: it looks only when there is an answer.
WatchdogAfterAnswer ==
    /\ main = "await" /\ reply["run"] # "none"
    /\ main' = "ended" /\ outcome' = "failed" /\ events' = events \cup {<<"failed", "run">>}
    /\ UNCHANGED <<call, reply, entered, spans, span, closes, handled, sweep, traced>>

\* WATCHDOG_SECONDS have passed, whether or not an answer comes just then; closing the
\* channel closes the call from outside.
Watchdog ==
    /\ main = "await"
    /\ main' = "ended" /\ outcome' = "failed" /\ events' = events \cup {<<"failed", "run">>}
    /\ reply' = [reply EXCEPT !["run"] = IF @ = "none" THEN "error" ELSE @]
    /\ UNCHANGED <<call, entered, spans, span, closes, handled, sweep, traced>>

\* Mutant of FindDangling: the spans of handlers that have not begun are overlooked.
FindDanglingStarted ==
    /\ main = "ended"
    /\ main' = "sweeping" /\ before' = spans
    /\ dangling' = {c \in spans : span[c] = "OPEN" /\ <<"handler_start", c>> \in events}
    /\ UNCHANGED <<outcome, call, reply, entered, recorder, traced>>

\* The dispatcher is closed and the sampler stopped; then dangling().
FindDangling ==
    /\ main = "ended"
    /\ main' = "sweeping" /\ before' = spans
    /\ dangling' = {c \in spans : span[c] = "OPEN"}
    /\ UNCHANGED <<outcome, call, reply, entered, recorder, traced>>

Abandon(c) ==
    /\ main = "sweeping" /\ c \in dangling
    /\ dangling' = dangling \ {c}
    /\ span' = [span EXCEPT ![c] = "ABANDONED"] /\ closes' = [closes EXCEPT ![c] = @ + 1]
    /\ UNCHANGED <<main, outcome, call, reply, entered, spans, events, handled, before, traced>>

\* One last walk over what every live node retains, and the totals. The walk throws if a
\* handler that is still running changes what is walked, and with it there is no trace.
TakeTotals ==
    /\ main = "sweeping" /\ dangling = {}
    /\ \/ main' = "counted" /\ traced' = [traced EXCEPT !.handled = handled]
       \/ main' = "lost" /\ UNCHANGED traced
    /\ UNCHANGED <<outcome, call, reply, entered, recorder, sweep>>

\* Trace.of(): the events first, ...
TakeEvents ==
    /\ main = "counted"
    /\ main' = "events" /\ traced' = [traced EXCEPT !.events = events]
    /\ UNCHANGED <<outcome, call, reply, entered, recorder, sweep>>

\* ... then the spans.
TakeSpans ==
    /\ main = "events"
    /\ main' = "over" /\ traced' = [traced EXCEPT !.spans = spans]
    /\ UNCHANGED <<outcome, call, reply, entered, recorder, sweep>>

MainStep ==
    \/ CallLoad \/ LoadReturns \/ ForgetCounts \/ ForgetRecord \/ Begin \/ CallRun
    \/ RunReturns \/ Watchdog \/ FindDangling \/ (\E c \in Calls : Abandon(c))
    \/ TakeTotals \/ TakeEvents \/ TakeSpans

Next ==
    \/ MainStep \/ RestartEntry
    \/ \E c \in Calls : \/ MakeCall(c) \/ Guard(c) \/ OpenSpan(c) \/ HandlerStart(c)
                        \/ Answer(c) \/ Count(c) \/ HandlerEnd(c)

Spec == Init /\ [][Next]_vars

\* The main thread goes on, gRPC's timer with it; nothing is assumed of any handler.
FairSpec == Spec /\ WF_vars(MainStep)

-----------------------------------------------------------------------------
(* Properties. *)

\* A simulation is entered once through each method of dissaly.Job, however many of the
\* nodes call it, with dissaly's header or without, and whether the entry node restarted
\* in between (Machines.entered).
EnteredOnce ==
    \A c, d \in Calls \ Peers : Inside(c) /\ Inside(d) /\ Method(c) = Method(d) => c = d

\* A run that ended has one outcome and its trace one event of it, though the watchdog,
\* the answer and a restart of the entry node may all come at once.
OneOutcome ==
    main = "over" =>
      /\ <<"done", "run">> \in traced.events <=> outcome = "completed"
      /\ <<"failed", "run">> \in traced.events <=> outcome = "failed"
      /\ outcome # "none"

\* The nodes' boot is in the trace of every run, though all that Load recorded was wiped.
BootSurvives == main = "over" => {<<"boot", "-">>, <<"simulation", "-">>} \subseteq traced.events

\* A span that was open when the run's answer came, or the watchdog, is not open in the
\* trace, whichever of its handler and the sweep came first.
SweptClean ==
    main \in {"counted", "events", "over"} => \A c \in before : span[c] # "OPEN"

\* of() comes back from a run that was begun, whatever the handlers do: with its trace, or
\* with the exception of the last walk. That it is the trace is not promised.
RunEnds == main = "await" ~> main \in {"over", "lost"}

=============================================================================
