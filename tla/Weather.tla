------------------------------- MODULE Weather -------------------------------
(***************************************************************************)
(* The weather of a run, as it reaches one machine: the failures a         *)
(* simulation writes down (Simulate.schedule, fire, drawn), the queue and  *)
(* the thread that fires them (time/Dispatcher.java), and the links of the *)
(* machine that are cut (runtime/Net.java), around the machine of module   *)
(* Machine.  The other machines of the run are fired on the same thread;   *)
(* what they do to this one is make it late, and the dispatcher here may   *)
(* be arbitrarily late anyway.                                             *)
(*                                                                         *)
(* An instant of this module is a simulated instant and a real one at once *)
(* (refMs and refMs / kTime).                                              *)
(***************************************************************************)
EXTENDS Machine, Sequences

CONSTANTS
    Failures,   \* what a simulation may write on this node, in the order of the file
    Simulations,   \* the simulations there are: which of the failures each one writes
    Gaps        \* the gaps an exponential draw may give

Kinds == {"kill", "freeze", "degrade", "restart", "spotReclaim", "partition", "heal"}

(***************************************************************************)
(* A failure: its kind, the instant it is written for, whether it is drawn *)
(* from a rate instead, for how long it lasts (freeze), the notice         *)
(* (spotReclaim), after how long the machine is restarted (0 for never),   *)
(* by how much it is slowed, and which node it is cut off from.            *)
(***************************************************************************)
AFailure == [kind : Kinds, at : Nat, drawn : BOOLEAN, for : Nat, notice : Nat, after : Nat,
             factor : Nat, other : STRING]

\* What the loader lets through: only some kinds take a rate.
ASSUME WeatherAssumption ==
    /\ Failures \in Seq(AFailure)
    /\ \A i \in DOMAIN Failures :
          /\ Failures[i].drawn => Failures[i].kind \in {"kill", "freeze", "degrade"}
          /\ Failures[i].kind = "freeze" => Failures[i].for \in FreezeFor
          /\ Failures[i].kind = "degrade" => Failures[i].factor \in Factors
    /\ Simulations \subseteq SUBSET (DOMAIN Failures)
    /\ Gaps \subseteq Nat

VARIABLES
    queue,      \* what is scheduled: entries [at, seq, do, of], of the failure they stem from
    seq,        \* the sequence number of the next entry
    next,       \* what loop() has polled and not fired yet: no or one entry
    lastAt,     \* the instant the entry last polled was scheduled for
    cut         \* the nodes this one cannot reach

weather == <<queue, seq, next, lastAt, cut>>
wvars == <<vars, weather>>

-----------------------------------------------------------------------------
Entry(at, do, of) == [at |-> at, do |-> do, of |-> of]

Numbered(e, n) == [at |-> e.at, seq |-> n, do |-> e.do, of |-> e.of]

\* Due's order: by instant, and first come first served within one.
Before(d, e) == d.at < e.at \/ (d.at = e.at /\ d.seq < e.seq)

\* at(), for several entries in turn.
Schedule(entries) ==
    /\ queue' = queue \cup {Numbered(entries[i], seq + i) : i \in DOMAIN entries}
    /\ seq' = seq + Len(entries)

\* schedule(): every failure of the file, a drawn one at the first instant drawn.
WeatherInit ==
    /\ Init
    /\ \E draw \in [DOMAIN Failures -> Gaps], written \in Simulations :
         queue = {LET f == Failures[i] IN
                  Numbered(IF f.drawn THEN Entry(draw[i], "draw", i) ELSE Entry(f.at, "fail", i), i)
                     : i \in written}
    /\ seq = Len(Failures)
    /\ next = {} /\ lastAt = 0 /\ cut = {}

\* Mutant of Poll: first in, first out.
PollOldest ==
    /\ AtFault /\ next = {}
    /\ \E e \in queue :
         /\ \A d \in queue \ {e} : e.seq < d.seq
         /\ queue' = queue \ {e}
         /\ next' = {e} /\ lastAt' = e.at
    /\ UNCHANGED <<vars, seq, cut>>

\* loop(): the head of the queue, which then is waited for.
Poll ==
    /\ AtFault /\ next = {}
    /\ \E e \in queue :
         /\ \A d \in queue \ {e} : Before(e, d)
         /\ queue' = queue \ {e}
         /\ next' = {e} /\ lastAt' = e.at
    /\ UNCHANGED <<vars, seq, cut>>

Exit ==
    /\ next = {} /\ queue = {}
    /\ LoopExits
    /\ UNCHANGED weather

-----------------------------------------------------------------------------
(* What a polled entry does when its instant has come.                     *)

\* Mutant of Redraws: the next instant is only drawn while the machine is up.
RedrawsWhileAlive(e) ==
    IF e.do = "draw"
      THEN IF alive THEN {<<Entry(e.at + g, "draw", e.of)>> : g \in Gaps} ELSE {<<>>}
      ELSE {<<>>}

\* A drawn entry first schedules its rule's next one, whatever becomes of it.
Redraws(e) ==
    IF e.do = "draw" THEN {<<Entry(e.at + g, "draw", e.of)>> : g \in Gaps} ELSE {<<>>}

\* A failure comes to pass; a drawn one passes over a machine that is down.
Strikes(e, kind) ==
    /\ e.at <= now
    /\ e.do = "fail" \/ (e.do = "draw" /\ alive)
    /\ Failures[e.of].kind = kind

\* The entry is done with, and what it schedules is scheduled.
Fired(entries) ==
    /\ Schedule(entries)
    /\ next' = {}
    /\ UNCHANGED lastAt

Comeback(e, at) ==
    IF Failures[e.of].after > 0 THEN <<Entry(at, "restart", e.of)>> ELSE <<>>

FireKill == \E e \in next : \E again \in Redraws(e) :
    /\ Strikes(e, "kill")
    /\ kill
    /\ Fired(again \o Comeback(e, e.at + Failures[e.of].after))
    /\ UNCHANGED cut

\* Mutant of FireFreeze: a freeze that schedules no thaw.
FireFreezeOnly == \E e \in next : \E again \in Redraws(e) :
    /\ Strikes(e, "freeze")
    /\ freeze(Failures[e.of].for)
    /\ Fired(again)
    /\ UNCHANGED cut

FireFreeze == \E e \in next : \E again \in Redraws(e) :
    /\ Strikes(e, "freeze")
    /\ freeze(Failures[e.of].for)
    /\ Fired(again \o <<Entry(e.at + Failures[e.of].for, "thaw", e.of)>>)
    /\ UNCHANGED cut

FireDegrade == \E e \in next : \E again \in Redraws(e) :
    /\ Strikes(e, "degrade")
    /\ degrade(Failures[e.of].factor)
    /\ Fired(again)
    /\ UNCHANGED cut

FireRestart == \E e \in next :
    /\ Strikes(e, "restart")
    /\ restart
    /\ Fired(<<>>)
    /\ UNCHANGED cut

\* The loop goes on to its next round, and the machine notices nothing.
GoOn == IF running THEN UNCHANGED vars ELSE LoopExits

\* The notice, and the reclaim scheduled for when it runs out.
FireSpotReclaim == \E e \in next :
    LET gone == e.at + Failures[e.of].notice IN
    /\ Strikes(e, "spotReclaim")
    /\ GoOn
    /\ Fired(<<Entry(gone, "kill", e.of)>> \o Comeback(e, gone + Failures[e.of].after))
    /\ UNCHANGED cut

FirePartition == \E e \in next :
    /\ Strikes(e, "partition")
    /\ GoOn
    /\ cut' = cut \cup {Failures[e.of].other}
    /\ Fired(<<>>)

FireHeal == \E e \in next :
    /\ Strikes(e, "heal")
    /\ GoOn
    /\ cut' = cut \ {Failures[e.of].other}
    /\ Fired(<<>>)

FirePassesOver == \E e \in next : \E again \in Redraws(e) :
    /\ e.at <= now /\ e.do = "draw" /\ ~alive
    /\ GoOn
    /\ Fired(again)
    /\ UNCHANGED cut

\* target::thaw, the reclaim and target::restart, as fire() scheduled them.
Scheduled(do, act) == \E e \in next :
    /\ e.at <= now /\ e.do = do
    /\ act
    /\ Fired(<<>>)
    /\ UNCHANGED cut

FireThaw == Scheduled("thaw", thaw)
FireReclaim == Scheduled("kill", kill)
FireComeback == Scheduled("restart", restart)

Fire == \/ FireKill \/ FireFreeze \/ FireDegrade \/ FireRestart \/ FireSpotReclaim
        \/ FirePartition \/ FireHeal \/ FirePassesOver
        \/ FireThaw \/ FireReclaim \/ FireComeback

\* Everything else that happens to the machine, the rest of a restart included.
Meanwhile ==
    /\ Tick \/ RestartStep \/ WalkerStep \/ HandlerStep \/ MainStep \/ Unregister
    /\ UNCHANGED weather

WeatherNext == Poll \/ Exit \/ Fire \/ Meanwhile

WeatherSpec == WeatherInit /\ [][WeatherNext]_wvars

\* The clock goes on, and the dispatcher is scheduled (its thread has the highest
\* priority of the process).
FairWeather ==
    /\ WeatherSpec
    /\ WF_wvars(Tick /\ UNCHANGED weather)
    /\ WF_wvars(Poll \/ Fire \/ (RestartStep /\ UNCHANGED weather))

-----------------------------------------------------------------------------
(* Properties. *)

Pending == queue \cup next

\* Weather happens in the order it was written for, however late the dispatcher is
\* and whatever firing one entry schedules: nothing is left behind an entry of a
\* later instant (Dispatcher.loop, and fire()'s nominal instants).
InOrder == \A e \in queue : e.at >= lastAt

\* A rate outlives every firing: whatever a drawn failure met, and even if firing it
\* ended in an exception, its rule has as many next instants pending as it had, which
\* is one from the start (drawn(), which schedules before it looks).
DrawsOf(i) == {e \in Pending : e.do = "draw" /\ e.of = i}

RateOutlives ==
    [][\A i \in DOMAIN Failures : Cardinality(DrawsOf(i)') = Cardinality(DrawsOf(i))]_wvars

\* A frozen machine is always on its way to a thaw that no freeze is later than: it
\* never stays at the door because nobody was waiting there.
ThawIsComing ==
    frozenUntil # 0 => \E e \in Pending : e.do = "thaw" /\ e.at <= frozenUntil

\* A restart that was scheduled is begun, unless the run ends first: no exception of
\* an earlier entry, and no wait for a name, keeps the dispatcher from it.
ComesBack ==
    (\E e \in Pending : e.do = "restart") ~> (dpc = "revive" \/ ~running)

\* A freeze lasts as long as it is written for: the thaw of one that overlaps it does
\* not end it, as the page on failures has it.
FreezeLasts ==
    [][(\E e \in next : e.do = "thaw" /\ next' = {}) /\
       (\E f \in queue : f.do = "thaw" /\ f.at > now)
         => frozenUntil' = frozenUntil]_wvars
=============================================================================
