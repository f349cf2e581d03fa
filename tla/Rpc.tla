--------------------------------- MODULE Rpc ---------------------------------
(***************************************************************************)
(* One unary call from one machine to another, through everything the      *)
(* runtime wraps around it: the retry policy (runtime/Retrying.java), the  *)
(* recording client (ClientSide.java) or, when the call is not delivered,  *)
(* its stand-in (Dropped.java), and the recording server (ServerSide.java).*)
(* An attempt is one call of the inner channel; attempts are numbered, and *)
(* what the server still does for an early one may overlap a later one.    *)
(*                                                                         *)
(* The transport and the call objects below the interceptors are gRPC's.   *)
(* What is taken of them: a listener's callbacks come one at a time and in *)
(* order, the deadline and a shutdown of the server close a call from      *)
(* outside, and a call closed that way goes on running on the server, which*)
(* is told after what it was told before.                                  *)
(*                                                                         *)
(* Time is real time.  A stub's deadline is written in reference time,     *)
(* which passes KTime times as fast.                                       *)
(***************************************************************************)
EXTENDS Integers, FiniteSets, Sequences

CONSTANTS
    Limit,          \* policy.attempts(), 1 without a policy
    KTime,          \* kTime, whole here
    Deadline,       \* withDeadlineAfter(...), made at instant 0; 0 for none
    GiveUp,         \* NO_DEADLINE_NS
    Early,          \* how much too early a park may come back (Clock.parkRealNanos)
    Declared,       \* simulatedDuration: gives the method a fixed part
    RoundTrips,     \* the delays the network may take for both ways
    Backoff,        \* the backoff before the second attempt
    Multiplier,
    Horizon         \* bound: the clock, and every instant waited for

ASSUME RpcAssumption ==
    /\ Limit \in Nat \ {0} /\ KTime \in Nat \ {0}
    /\ Deadline \in Nat /\ GiveUp \in Nat /\ Early \in Nat /\ Horizon \in Nat
    /\ Declared \in BOOLEAN
    /\ RoundTrips \subseteq Nat
    /\ Backoff \in Nat /\ Multiplier \in Nat \ {0}
    /\ \A k \in 0 .. Limit : Backoff * Multiplier ^ k \in Nat

Attempts == 1 .. Limit

VARIABLES
    now,
    alive,          \* target.alive
    rpc,            \* Attempts: new, waiting for an attempt, backoff, closed
    attempt, delivered, cancelled,
    told,           \* what the stub's listener has heard
    client,         \* per attempt: none, open, closing, over, or it threw in onClose
    fate,           \* per attempt: dropped, sent
    expires,        \* per attempt: its deadline as gRPC or Dropped was given it
    status,         \* per attempt: what it was closed with
    span,           \* per attempt: the status of the rpc span, OPEN while it is open
    wake,           \* when the thread that spends the network's delay or a backoff goes on
    server,         \* per attempt: where the handler's thread is
    messages,       \* the attempts whose message has left the server and not been heard
    reply,          \* per attempt: what the server closed it with, if it has
    gone,           \* per attempt: who closed the call from outside, if anyone
    handler,        \* per attempt: the status of the handler span
    inflight        \* the target's gauge

policy == <<rpc, attempt, delivered, cancelled, told>>
clientSide == <<client, fate, expires, status, span>>
serverSide == <<server, messages, reply, gone, handler, inflight>>
vars == <<now, alive, policy, clientSide, wake, serverSide>>

-----------------------------------------------------------------------------
Smaller(a, b) == IF a <= b THEN a ELSE b

After(d) == Smaller(now + d, Horizon)

Never == Horizon + 1

\* The statuses a callee may close a call with, and of the five codes retryable() names
\* the two the transport gives as well.
Refusals == {"UNAVAILABLE", "DEADLINE_EXCEEDED", "INVALID_ARGUMENT"}
Retryable == {"UNAVAILABLE", "DEADLINE_EXCEEDED"}
Statuses == Refusals \cup {"OK", "CANCELLED", "none"}

\* inRealTime(): what is left of the deadline, as if it were reference time.
Left == IF Deadline > now THEN (Deadline - now) \div KTime ELSE 0

Expiry(f) == IF Deadline > 0 THEN After(Left)
             ELSE IF f = "dropped" THEN After(GiveUp) ELSE Never

Init ==
    /\ now = 0 /\ alive = TRUE
    /\ rpc = "new" /\ attempt = 0 /\ delivered = FALSE /\ cancelled = FALSE /\ told = <<>>
    /\ client = [n \in Attempts |-> "none"] /\ fate = [n \in Attempts |-> "none"]
    /\ expires = [n \in Attempts |-> Never] /\ status = [n \in Attempts |-> "none"]
    /\ span = [n \in Attempts |-> "none"] /\ wake = 0
    /\ server = [n \in Attempts |-> "none"] /\ reply = [n \in Attempts |-> "none"]
    /\ messages = {} /\ gone = [n \in Attempts |-> "no"]
    /\ handler = [n \in Attempts |-> "none"] /\ inflight = 0

Tick ==
    /\ now < Horizon
    /\ now' = now + 1
    /\ UNCHANGED <<alive, policy, clientSide, wake, serverSide>>

-----------------------------------------------------------------------------
(* The target's life, as far as a caller meets it (module Machine).        *)

\* An attempt neither side has closed yet, so that someone else still may.
Unclosed(n) == client[n] = "open" /\ reply[n] = "none" /\ gone[n] = "no"

Kill ==
    /\ alive
    /\ alive' = FALSE
    /\ UNCHANGED <<now, policy, clientSide, wake, serverSide>>

\* The old server is shut down, which closes the calls it has from outside.
Restart ==
    /\ alive' = TRUE
    /\ gone' = [n \in Attempts |->
                  IF fate[n] = "sent" /\ Unclosed(n) THEN "server" ELSE gone[n]]
    /\ UNCHANGED <<now, policy, clientSide, wake, server, messages, reply, handler,
                   inflight>>

-----------------------------------------------------------------------------
(* The policy, on the caller's side.                                       *)

\* newCall(), start(), sendMessage() and halfClose() of one attempt.  A dead target is
\* never reached; a cut link, a lost message and a declared drop are the run's choice.
\* Where no server holds the name the call is over before it arrives anywhere.
Fire(n) ==
    /\ rpc' = "waiting" /\ attempt' = n
    /\ \E f \in IF alive THEN {"dropped", "sent"} ELSE {"dropped"}, bound \in BOOLEAN :
         /\ fate' = [fate EXCEPT ![n] = f]
         /\ expires' = [expires EXCEPT ![n] = Expiry(f)]
         /\ LET arrives == f = "sent" /\ bound /\ Expiry(f) > now IN
            /\ server' = [server EXCEPT ![n] = IF arrives THEN "queued" ELSE "none"]
            /\ gone' = [gone EXCEPT ![n] = IF f = "sent" /\ ~bound THEN "server" ELSE "no"]
    /\ client' = [client EXCEPT ![n] = "open"]
    /\ span' = [span EXCEPT ![n] = "OPEN"]

Begin ==
    /\ rpc = "new" /\ now = 0
    /\ Fire(1)
    /\ UNCHANGED <<now, alive, delivered, cancelled, told, status, wake, messages, reply, handler,
                   inflight>>

\* Mutant of FireAgain: a call that was cancelled meanwhile is not fired again.
FireAgainUnlessCancelled ==
    /\ rpc = "backoff" /\ now >= wake /\ ~cancelled
    /\ Fire(attempt + 1)
    /\ UNCHANGED <<now, alive, delivered, cancelled, told, status, wake, messages, reply, handler,
                   inflight>>

\* The backoff is over.
FireAgain ==
    /\ rpc = "backoff" /\ now >= wake
    /\ Fire(attempt + 1)
    /\ UNCHANGED <<now, alive, delivered, cancelled, told, status, wake, messages, reply, handler,
                   inflight>>

\* Mutants of Again: what was delivered is not looked at; or the limit is not.
AgainAfterAMessage(s) == s \in Retryable /\ ~cancelled /\ attempt < Limit

AgainWithoutLimit(s) == s \in Retryable /\ ~delivered /\ ~cancelled

Again(s) == s \in Retryable /\ ~delivered /\ ~cancelled /\ attempt < Limit

\* backoffBefore(attempt + 1)
BackoffNow == Backoff * Multiplier ^ (attempt - 1)

\* Attempts.onClose: once more after a backoff, or the stub is told.
PolicyCloses(s) ==
    /\ IF Again(s)
         THEN rpc' = "backoff" /\ wake' = After(BackoffNow) /\ UNCHANGED told
         ELSE /\ rpc' = "closed"
              /\ told' = Append(told, IF s = "OK" THEN "OK" ELSE "failed")
              /\ UNCHANGED wake
    /\ UNCHANGED <<attempt, delivered, cancelled>>

\* The stub cancels.  The attempt in flight is closed from outside, if there is one.
Cancel ==
    /\ rpc \in {"waiting", "backoff"} /\ ~cancelled
    /\ cancelled' = TRUE
    /\ gone' = [n \in Attempts |->
                  IF Unclosed(n) THEN "client" ELSE gone[n]]
    /\ UNCHANGED <<now, alive, rpc, attempt, delivered, told, clientSide, wake, server,
                   messages, reply, handler, inflight>>

-----------------------------------------------------------------------------
(* An attempt that is not delivered (Dropped).                             *)

\* Mutant of DroppedFinishes: the span is left open.
DroppedFinishesSilently(n) ==
    /\ fate[n] = "dropped" /\ client[n] = "open"
    /\ \E s \in {"CANCELLED", "DEADLINE_EXCEEDED"} :
         /\ IF s = "CANCELLED" THEN gone[n] = "client" ELSE now >= expires[n] - Early
         /\ client' = [client EXCEPT ![n] = "over"]
         /\ status' = [status EXCEPT ![n] = s]
         /\ PolicyCloses(s)
    /\ UNCHANGED <<now, alive, fate, expires, span, serverSide>>

\* finish(), once: the caller cancelled, or the one park over what the call may take
\* came back.
DroppedFinishes(n) ==
    /\ fate[n] = "dropped" /\ client[n] = "open"
    /\ \E s \in {"CANCELLED", "DEADLINE_EXCEEDED"} :
         /\ IF s = "CANCELLED" THEN gone[n] = "client" ELSE now >= expires[n] - Early
         /\ client' = [client EXCEPT ![n] = "over"]
         /\ status' = [status EXCEPT ![n] = s]
         /\ span' = [span EXCEPT ![n] = s]
         /\ PolicyCloses(s)
    /\ UNCHANGED <<now, alive, fate, expires, serverSide>>

-----------------------------------------------------------------------------
(* An attempt that is delivered (ClientSide).                              *)

Open(n) == fate[n] = "sent" /\ client[n] = "open"

\* ClientSide.onMessage and Attempts.onMessage
ClientHears(n) ==
    /\ Open(n) /\ n \in messages
    /\ messages' = messages \ {n}
    /\ delivered' = TRUE
    /\ told' = Append(told, "message")
    /\ UNCHANGED <<now, alive, rpc, attempt, cancelled, clientSide, wake, server, reply, gone,
                   handler, inflight>>

\* What the transport may close an attempt with at this moment.
Closings(n) ==
    {s \in Statuses \ {"none"} :
       \/ s = reply[n] /\ n \notin messages
       \/ /\ reply[n] = "none"
          /\ \/ s = "DEADLINE_EXCEEDED" /\ now >= expires[n]
             \/ s = "CANCELLED" /\ gone[n] = "client"
             \/ s = "UNAVAILABLE" /\ gone[n] = "server"}

\* onClose() begins: the network's delay is spent first.
ClientCloses(n) ==
    /\ Open(n)
    /\ \E s \in Closings(n), rtt \in RoundTrips :
         /\ status' = [status EXCEPT ![n] = s]
         /\ wake' = After(rtt)
    /\ client' = [client EXCEPT ![n] = "closing"]
    /\ gone' = [gone EXCEPT ![n] = IF @ = "no" /\ reply[n] = "none" THEN "client" ELSE @]
    /\ UNCHANGED <<now, alive, policy, fate, expires, span, server, messages, reply, handler,
                   inflight>>

\* Mutant of Effective: the deadline is not checked again.
EffectiveAsClosed(n) == status[n]

\* The deadline is checked again once the delay has been served.
Effective(n) == IF status[n] = "OK" /\ now >= expires[n] THEN "DEADLINE_EXCEEDED" ELSE status[n]

\* The event of a timeout unboxes both figures: it cannot be written without either.
Unwritable(s) == s = "DEADLINE_EXCEEDED" /\ (Deadline = 0 \/ ~Declared)

ClientTells(n) ==
    LET s == Effective(n) IN
    /\ client[n] = "closing" /\ now >= wake
    /\ span' = [span EXCEPT ![n] = s]
    /\ IF Unwritable(s)
         THEN client' = [client EXCEPT ![n] = "threw"] /\ UNCHANGED <<policy, wake>>
         ELSE client' = [client EXCEPT ![n] = "over"] /\ PolicyCloses(s)
    /\ UNCHANGED <<now, alive, fate, expires, status, serverSide>>

-----------------------------------------------------------------------------
(* The callee (ServerSide).                                                *)

\* What is done to a call that was closed from outside goes nowhere.
Reply(n, s) == reply' = [reply EXCEPT ![n] = IF gone[n] = "no" THEN s ELSE @]

\* interceptCall() on a pool thread: refused by a draw, without a span, ...
Refuse(n) ==
    /\ server[n] = "queued"
    /\ \E s \in Refusals : Reply(n, s)
    /\ server' = [server EXCEPT ![n] = "refused"]
    /\ UNCHANGED <<now, alive, policy, clientSide, wake, messages, gone, handler, inflight>>

\* ... or its span opened.
Arrive(n) ==
    /\ server[n] = "queued"
    /\ handler' = [handler EXCEPT ![n] = "OPEN"]
    /\ server' = [server EXCEPT ![n] = "arrived"]
    /\ UNCHANGED <<now, alive, policy, clientSide, wake, messages, reply, gone, inflight>>

\* onHalfClose(), once a freeze is over: the handler is about to run.
HalfClose(n) ==
    /\ server[n] = "arrived"
    /\ server' = [server EXCEPT ![n] = "handling"]
    /\ inflight' = inflight + 1
    /\ UNCHANGED <<now, alive, policy, clientSide, wake, messages, reply, gone, handler>>

\* gRPC passes over the half-close of a call it knows to be closed from outside.
PassOver(n) ==
    /\ server[n] = "arrived" /\ gone[n] # "no"
    /\ server' = [server EXCEPT ![n] = "passed"]
    /\ UNCHANGED <<now, alive, policy, clientSide, wake, messages, reply, gone, handler, inflight>>

SendMessage(n) ==
    /\ server[n] = "handling"
    /\ server' = [server EXCEPT ![n] = "answered"]
    /\ messages' = IF gone[n] = "no" THEN messages \cup {n} ELSE messages
    /\ UNCHANGED <<now, alive, policy, clientSide, wake, reply, gone, handler, inflight>>

\* close(), with OK only after a message.
Close(n) ==
    /\ server[n] \in {"handling", "answered"}
    /\ \E s \in Refusals \cup (IF server[n] = "answered" THEN {"OK"} ELSE {}) : Reply(n, s)
    /\ server' = [server EXCEPT ![n] = "closed"]
    /\ UNCHANGED <<now, alive, policy, clientSide, wake, messages, gone, handler, inflight>>

\* finish(), from onComplete() or onCancel().
Finish(n) ==
    /\ server[n] \in {"closed", "passed"}
    /\ server' = [server EXCEPT ![n] = IF @ = "closed" THEN "done" ELSE "refused"]
    /\ inflight' = inflight - 1
    /\ handler' = [handler EXCEPT ![n] = IF reply[n] # "none" THEN "OK" ELSE "CANCELLED"]
    /\ UNCHANGED <<now, alive, policy, clientSide, wake, messages, reply, gone>>

-----------------------------------------------------------------------------
CallerStep == \/ FireAgain
              \/ \E n \in Attempts : DroppedFinishes(n) \/ ClientHears(n) \/ ClientCloses(n)
                                       \/ ClientTells(n)

ServerStep == \E n \in Attempts : \/ Refuse(n) \/ Arrive(n) \/ HalfClose(n) \/ PassOver(n)
                                  \/ SendMessage(n) \/ Close(n) \/ Finish(n)

Next == Tick \/ Kill \/ Restart \/ Begin \/ Cancel \/ CallerStep \/ ServerStep

Spec == Init /\ [][Next]_vars

\* Time goes on, and so do the caller's threads and gRPC's timer.  Nothing is assumed
\* of the callee.
FairSpec == Spec /\ WF_vars(Tick) /\ WF_vars(CallerStep)

-----------------------------------------------------------------------------
(* Properties. *)

TypeOK ==
    /\ now \in 0 .. Horizon /\ alive \in BOOLEAN
    /\ rpc \in {"new", "waiting", "backoff", "closed"}
    /\ attempt \in 0 .. Limit /\ delivered \in BOOLEAN /\ cancelled \in BOOLEAN
    /\ told \in Seq({"message", "OK", "failed"})
    /\ client \in [Attempts -> {"none", "open", "closing", "over", "threw"}]
    /\ fate \in [Attempts -> {"none", "dropped", "sent"}]
    /\ expires \in [Attempts -> 0 .. Never] /\ status \in [Attempts -> Statuses]
    /\ span \in [Attempts -> Statuses \cup {"OPEN"}] /\ wake \in 0 .. Horizon
    /\ server \in [Attempts -> {"none", "queued", "arrived", "handling", "answered",
                                "closed", "done", "passed", "refused"}]
    /\ messages \subseteq Attempts /\ reply \in [Attempts -> Statuses]
    /\ gone \in [Attempts -> {"no", "client", "server"}]
    /\ handler \in [Attempts -> {"none", "OPEN", "OK", "CANCELLED"}] /\ inflight \in Int

\* The stub hears at most one message and exactly one close, and of success only when
\* an execution answered, however its cancelling, the deadline, a dying target and the
\* retries of the policy meet; and the policy's limit bounds the executions, those
\* still to begin when the stub has long been told included.
Executions == {n \in Attempts : server[n] \in {"handling", "answered", "closed", "done"}}

Promise == INSTANCE Call WITH executed <- Cardinality(Executions)

ImplementsCall == Promise!Spec

\* Once the stub has been told, no attempt of its call is left with an open span
\* (Telemetry.close: every span opened reaches a close).
NoSpanLeftOpen == rpc = "closed" => \A n \in Attempts : span[n] # "OPEN"

\* Every attempt of a call shares the deadline the stub set, as the page on retries has
\* it: a call succeeds only within that, in the time the stub was written in.
DeadlineIsShared ==
    [][Deadline > 0 /\ told' = Append(told, "OK") => now * KTime < Deadline]_vars

\* What the network took is not hidden behind an answer that left in time: the first
\* attempt succeeds only within the stub's deadline, and a later one, whose deadline is
\* converted from what is left of it then, at least before what it would be in real time.
DeadlineHolds ==
    [][Deadline > 0 /\ told' = Append(told, "OK")
         => now < Deadline /\ (attempt = 1 => now * KTime < Deadline)]_vars

\* The stub is told how its call ended, whatever the callee does: a handler that never
\* returns, a dead target and a refused name all come to an end at the caller.
CallerIsTold == rpc = "waiting" ~> rpc = "closed"
=============================================================================
