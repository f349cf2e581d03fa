------------------------------ MODULE Run_proofs ------------------------------
(***************************************************************************)
(* Proofs about module Run, for any calls the nodes may make: dissaly.Job  *)
(* is entered once through each method; a run has one outcome and its trace*)
(* says which; nothing of the run is wiped with what Load recorded; and the*)
(* sweep leaves no span open that it could have seen.                      *)
(***************************************************************************)
EXTENDS Run, TLAPS

\* The domains the updates rely on.
Domains == DOMAIN call = Calls /\ DOMAIN reply = Calls /\ DOMAIN span = Calls /\ spans \subseteq Calls

\* Whoever is inside was entered for, and no two through the same method.
Entering ==
    /\ \A c \in Calls \ Peers : Inside(c) => Method(c) \in entered
    /\ EnteredOnce

\* The places of the main thread, in the order it comes to them.
Waiting == {"start", "loading", "threw", "loaded", "forgetting", "begin", "ready", "await"}
Sweeping == {"ended", "sweeping", "counted", "lost"}
Taken == {"events", "over"}

Done == <<"done", "run">>
Failed == <<"failed", "run">>
Booted == {<<"boot", "-">>, <<"simulation", "-">>}

\* What the record says of the outcome while nobody but the main thread writes of it.
Outcome ==
    /\ main \in Waiting \cup Sweeping \cup Taken
    /\ main \in Waiting => outcome = "none" /\ Done \notin events /\ Failed \notin events
    /\ main \in Sweeping \cup Taken =>
         outcome \in {"completed", "failed"}
         /\ (Done \in events <=> outcome = "completed")
         /\ (Failed \in events <=> outcome = "failed")
    /\ main \in Taken =>
         /\ Done \in traced.events <=> outcome = "completed"
         /\ Failed \in traced.events <=> outcome = "failed"

\* The boot is in the record from begin() on.
Boot ==
    /\ main \in {"ready", "await"} \cup Sweeping \cup Taken => Booted \subseteq events
    /\ main \in Taken => Booted \subseteq traced.events
    /\ DOMAIN traced = {"spans", "events", "handled"}

\* While the sweep goes on, what it has not closed yet is what it has left to close.
Swept ==
    /\ before \subseteq spans \/ main \in Waiting
    /\ main \in Waiting \cup {"ended"} => before = {}
    /\ main = "sweeping" => \A c \in before : span[c] = "OPEN" => c \in dangling
    /\ main \in {"counted", "lost"} \cup Taken => \A c \in before : span[c] # "OPEN"
    /\ \A c \in spans : call[c] \notin {"none", "sent", "refused", "entering"}
    /\ main = "start" => call["load"] = "none"
    /\ main \in Waiting \ {"await"} => call["run"] = "none"

-----------------------------------------------------------------------------
LEMMA DomainsKept == Domains /\ [Next]_vars => Domains'
  <1> SUFFICES ASSUME Domains, [Next]_vars PROVE Domains'
    OBVIOUS
  <1> USE DEF Domains
  <1>1. CASE MainStep
    BY <1>1 DEF MainStep, CallLoad, LoadReturns, ForgetCounts, ForgetRecord, Begin, CallRun,
                RunReturns, Watchdog, FindDangling, Abandon, TakeTotals, TakeEvents, TakeSpans,
                recorder, sweep
  <1>2. CASE RestartEntry BY <1>2 DEF RestartEntry, recorder
  <1>3. ASSUME NEW c \in Calls,
               MakeCall(c) \/ Guard(c) \/ OpenSpan(c) \/ HandlerStart(c) \/ Answer(c) \/ Count(c)
                 \/ HandlerEnd(c)
        PROVE  Domains'
    BY <1>3 DEF MakeCall, Guard, OpenSpan, HandlerStart, Answer, Count, HandlerEnd, recorder
  <1>4. CASE UNCHANGED vars BY <1>4 DEF vars, recorder
  <1> QED BY <1>1, <1>2, <1>3, <1>4 DEF Next

\* Only the guard lets a call in, and it lets in one that nobody entered for before.
LEMMA EnteringKept == Domains /\ Entering /\ [Next]_vars => Entering'
  <1> SUFFICES ASSUME Domains, Entering, [Next]_vars PROVE Entering'
    OBVIOUS
  <1> USE DEF Domains, Entering, EnteredOnce, Inside
  <1>1. CASE MainStep
    <2>1. /\ entered' = entered
          /\ \A c \in Calls : Inside(c)' => Inside(c)
      BY <1>1 DEF MainStep, CallLoad, LoadReturns, ForgetCounts, ForgetRecord, Begin, CallRun,
                  RunReturns, Watchdog, FindDangling, Abandon, TakeTotals, TakeEvents, TakeSpans
    <2> QED BY <2>1
  <1>2. CASE RestartEntry BY <1>2 DEF RestartEntry
  <1>3. ASSUME NEW c \in Calls, Guard(c) PROVE Entering'
    <2>1. CASE Refused(c)
      <3>1. entered' = entered /\ \A d \in Calls : Inside(d)' => Inside(d)
        BY <1>3, <2>1 DEF Guard
      <3> QED BY <3>1
    <2>2. CASE ~Refused(c) /\ c \in Peers
      <3>1. /\ entered' = entered
            /\ \A d \in Calls \ Peers : Inside(d)' => Inside(d)
        BY <1>3, <2>2 DEF Guard
      <3> QED BY <3>1
    <2>3. CASE ~Refused(c) /\ c \notin Peers
      <3>1. /\ entered' = entered \cup {Method(c)} /\ Method(c) \notin entered
            /\ \A d \in Calls : d # c => (Inside(d)' => Inside(d))
        BY <1>3, <2>3 DEF Guard, Refused
      <3> QED BY <3>1
    <2> QED BY <2>1, <2>2, <2>3
  <1>4. ASSUME NEW c \in Calls,
               MakeCall(c) \/ OpenSpan(c) \/ HandlerStart(c) \/ Answer(c) \/ Count(c)
                 \/ HandlerEnd(c)
        PROVE  Entering'
    <2>1. entered' = entered /\ \A d \in Calls : Inside(d)' => Inside(d)
      BY <1>4 DEF MakeCall, OpenSpan, HandlerStart, Answer, Count, HandlerEnd
    <2> QED BY <2>1
  <1>5. CASE UNCHANGED vars BY <1>5 DEF vars
  <1> QED BY <1>1, <1>2, <1>3, <1>4, <1>5 DEF Next

LEMMA InitAll == Init => Domains /\ Entering /\ Outcome /\ Boot /\ Swept
  <1> SUFFICES ASSUME Init PROVE Domains /\ Entering /\ Outcome /\ Boot /\ Swept
    OBVIOUS
  <1> USE DEF Init
  <1>1. Domains BY DEF Domains
  <1>2. Entering BY DEF Entering, EnteredOnce, Inside
  <1>3. Outcome BY DEF Outcome, Waiting, Sweeping, Taken
  <1>4. Boot BY DEF Boot, Sweeping, Taken
  <1>5. Swept BY DEF Swept, Waiting, Taken, Calls, Own
  <1> QED BY <1>1, <1>2, <1>3, <1>4, <1>5

\* Each method of dissaly.Job lets one call in, over restarts of the entry node and for
\* any number of nodes that forge dissaly's header (Machines.firstEntry, ServerSide).
THEOREM JobEnteredOnce == Spec => []EnteredOnce
  <1>1. Domains /\ Entering /\ [Next]_vars => (Domains /\ Entering)'
    BY DomainsKept, EnteringKept
  <1>2. Entering => EnteredOnce
    BY DEF Entering
  <1> QED BY InitAll, <1>1, <1>2, PTL DEF Spec

-----------------------------------------------------------------------------
\* What a call writes into the record is never the outcome or the boot.
LEMMA CallsWrite ==
    ASSUME NEW c \in Calls,
           MakeCall(c) \/ Guard(c) \/ OpenSpan(c) \/ HandlerStart(c) \/ Answer(c) \/ Count(c)
             \/ HandlerEnd(c)
    PROVE  /\ main' = main /\ outcome' = outcome /\ traced' = traced
           /\ events \subseteq events'
           /\ Done \in events' => Done \in events
           /\ Failed \in events' => Failed \in events
  BY DEF MakeCall, Guard, OpenSpan, HandlerStart, Answer, Count, HandlerEnd, recorder, Done, Failed

LEMMA OutcomeKept == Outcome /\ Boot /\ [Next]_vars => Outcome'
  <1> SUFFICES ASSUME Outcome, Boot, [Next]_vars PROVE Outcome'
    OBVIOUS
  <1> USE DEF Outcome, Waiting, Sweeping, Taken
  <1>1. CASE CallLoad BY <1>1 DEF CallLoad, recorder
  <1>2. CASE LoadReturns BY <1>2 DEF LoadReturns, recorder
  <1>3. CASE ForgetCounts BY <1>3 DEF ForgetCounts
  <1>4. CASE ForgetRecord BY <1>4 DEF ForgetRecord
  <1>5. CASE Begin BY <1>5 DEF Begin, Done, Failed
  <1>6. CASE CallRun BY <1>6 DEF CallRun, recorder
  <1>7. CASE RunReturns BY <1>7 DEF RunReturns, Done, Failed
  <1>8. CASE Watchdog BY <1>8 DEF Watchdog, Done, Failed
  <1>9. CASE FindDangling BY <1>9 DEF FindDangling, recorder
  <1>10. ASSUME NEW c \in Calls, Abandon(c) PROVE Outcome'
    BY <1>10 DEF Abandon
  <1>11. CASE TakeTotals BY <1>11 DEF TakeTotals, recorder
  <1>12. CASE TakeEvents BY <1>12 DEF TakeEvents, recorder, Boot
  <1>13. CASE TakeSpans BY <1>13 DEF TakeSpans, recorder, Boot
  <1>14. CASE RestartEntry BY <1>14 DEF RestartEntry, recorder
  <1>15. ASSUME NEW c \in Calls,
                MakeCall(c) \/ Guard(c) \/ OpenSpan(c) \/ HandlerStart(c) \/ Answer(c)
                  \/ Count(c) \/ HandlerEnd(c)
         PROVE  Outcome'
    BY <1>15, CallsWrite
  <1>16. CASE UNCHANGED vars BY <1>16 DEF vars, recorder
  <1> QED BY <1>1, <1>2, <1>3, <1>4, <1>5, <1>6, <1>7, <1>8, <1>9, <1>10, <1>11, <1>12, <1>13,
             <1>14, <1>15, <1>16 DEF Next, MainStep

LEMMA BootKept == Boot /\ [Next]_vars => Boot'
  <1> SUFFICES ASSUME Boot, [Next]_vars PROVE Boot'
    OBVIOUS
  <1> USE DEF Boot, Booted, Sweeping, Taken
  <1>1. CASE MainStep
    BY <1>1 DEF MainStep, CallLoad, LoadReturns, ForgetCounts, ForgetRecord, Begin, CallRun,
                RunReturns, Watchdog, FindDangling, Abandon, TakeTotals, TakeEvents, TakeSpans,
                recorder
  <1>2. CASE RestartEntry BY <1>2 DEF RestartEntry, recorder
  <1>3. ASSUME NEW c \in Calls,
               MakeCall(c) \/ Guard(c) \/ OpenSpan(c) \/ HandlerStart(c) \/ Answer(c) \/ Count(c)
                 \/ HandlerEnd(c)
        PROVE  Boot'
    BY <1>3, CallsWrite
  <1>4. CASE UNCHANGED vars BY <1>4 DEF vars, recorder
  <1> QED BY <1>1, <1>2, <1>3, <1>4 DEF Next

\* A run that ended has exactly one outcome and its trace one event of it, whichever of
\* the answer, the watchdog and a restart of the entry node came first.
THEOREM OutcomeIsOne == Spec => []OneOutcome
  <1>1. Outcome /\ Boot /\ [Next]_vars => (Outcome /\ Boot)'
    BY OutcomeKept, BootKept
  <1>2. Outcome => OneOutcome
    BY DEF Outcome, OneOutcome, Taken, Done, Failed
  <1> QED BY InitAll, <1>1, <1>2, PTL DEF Spec

\* What begin() announced is in every trace, though Load's record was thrown away.
THEOREM BootIsTraced == Spec => []BootSurvives
  <1>1. Boot => BootSurvives
    BY DEF Boot, Booted, BootSurvives, Taken
  <1> QED BY InitAll, BootKept, <1>1, PTL DEF Spec

-----------------------------------------------------------------------------
LEMMA SweptKept == Domains /\ Outcome /\ Swept /\ [Next]_vars => Swept'
  <1> SUFFICES ASSUME Domains, Outcome, Swept, [Next]_vars PROVE Swept'
    OBVIOUS
  <1> USE RunAssumption DEF Domains, Swept, Waiting, Sweeping, Taken, Calls, Own, Others
  <1>1. CASE CallLoad BY <1>1 DEF CallLoad, recorder, sweep
  <1>2. CASE LoadReturns BY <1>2 DEF LoadReturns, recorder, sweep
  <1>3. CASE ForgetCounts BY <1>3 DEF ForgetCounts, sweep
  <1>4. CASE ForgetRecord BY <1>4 DEF ForgetRecord, sweep
  <1>5. CASE Begin BY <1>5 DEF Begin, sweep
  <1>6. CASE CallRun BY <1>6 DEF CallRun, recorder, sweep
  <1>7. CASE RunReturns BY <1>7 DEF RunReturns, sweep
  <1>8. CASE Watchdog BY <1>8 DEF Watchdog, sweep
  <1>9. CASE FindDangling BY <1>9 DEF FindDangling, recorder
  <1>10. ASSUME NEW c \in Calls, Abandon(c) PROVE Swept'
    BY <1>10 DEF Abandon
  <1>11. CASE TakeTotals BY <1>11 DEF TakeTotals, recorder, sweep
  <1>12. CASE TakeEvents BY <1>12 DEF TakeEvents, recorder, sweep
  <1>13. CASE TakeSpans BY <1>13 DEF TakeSpans, recorder, sweep
  <1>14. CASE RestartEntry BY <1>14 DEF RestartEntry, recorder, sweep
  <1>15. ASSUME NEW c \in Calls, OpenSpan(c) PROVE Swept'
    BY <1>15 DEF OpenSpan, sweep
  <1>16. ASSUME NEW c \in Calls,
                MakeCall(c) \/ Guard(c) \/ HandlerStart(c) \/ Answer(c) \/ Count(c)
                  \/ HandlerEnd(c)
         PROVE  Swept'
    BY <1>16 DEF MakeCall, Guard, HandlerStart, Answer, Count, HandlerEnd, recorder, sweep
  <1>17. CASE UNCHANGED vars BY <1>17 DEF vars, recorder, sweep
  <1> QED BY <1>1, <1>2, <1>3, <1>4, <1>5, <1>6, <1>7, <1>8, <1>9, <1>10, <1>11, <1>12, <1>13,
             <1>14, <1>15, <1>16, <1>17 DEF Next, MainStep

\* A span that was open when the run ended is closed in the trace, whatever its handler
\* did meanwhile.
THEOREM SweepIsClean == Spec => []SweptClean
  <1>1. Domains /\ Outcome /\ Boot /\ Swept /\ [Next]_vars
          => (Domains /\ Outcome /\ Boot /\ Swept)'
    BY DomainsKept, OutcomeKept, BootKept, SweptKept
  <1>2. Swept => SweptClean
    BY DEF Swept, SweptClean, Taken
  <1> QED BY InitAll, <1>1, <1>2, PTL DEF Spec
=============================================================================
