------------------------------- MODULE Frame -------------------------------
(* What the film draws at an instant (src/viewer/lib/frame.ts): the index    *)
(* RunIndex computes once from a trace, and the questions it answers at t.    *)
EXTENDS Trace

(* Mutant of Sooner: the order of the file. *)
AsWritten(seq, t) == {p \in (DOMAIN seq) \X (DOMAIN seq) : p[1] < p[2]}

(* The order Array.sort leaves, which is stable: by the field t, then as they  *)
(* came.                                                                      *)
Sooner(seq, t) ==
    {p \in (DOMAIN seq) \X (DOMAIN seq) :
        \/ seq[p[1]][t] < seq[p[2]][t]
        \/ seq[p[1]][t] = seq[p[2]][t] /\ p[1] < p[2]}

(* What is kept of a sequence, in that order. *)
ByTime(seq, kept, t) ==
    LET at == InOrder(kept, Sooner(seq, t)) IN [k \in DOMAIN at |-> seq[at[k]]]

NOTABLE == {"kill", "freeze", "thaw", "restart", "degrade", "oom", "disk_full",
            "spot_notice", "partition", "heal", "retry", "retry_done", "rpc_timeout",
            "rpc_error", "rpc_failure", "failed", "over_horizon", "log"}

Forever == 1000000          \* Infinity, beyond every instant of a film

(* The values reveal() can have written; anything else is not a value. *)
IsReveal(value) == value # Nobody

(* The cap of a disk: the largest that any sample says, once more than half a  *)
(* per cent of it was full.                                                    *)
DiskCap(tr, vm) ==
    Max({0} \cup {(Series(tr, vm, "diskMb", i) * 100 * Percent) \div Series(tr, vm, "diskPct", i) :
              i \in {k \in DOMAIN tr.times : 2 * Series(tr, vm, "diskPct", k) > Percent}})

(* RunIndex: the spans that can be on screen by their start, the running      *)
(* maximum of their ends, the events worth jumping to, and per node and key   *)
(* what it reported, both in the order of their times.                        *)
IndexOf(tr) ==
    LET live == ByTime(tr.spans, Where(tr.spans, LAMBDA s : s.kind \in {"rpc", "handler"}), "t0")
        duration == Duration(tr)
        end(s) == IF s.t1 >= 0 THEN s.t1 ELSE Forever
        said == Where(tr.events, LAMBDA e :
                    e.kind = "state" /\ e.vm \in NodeNames(tr) /\ IsReveal(e.value))
        of(i) == <<tr.events[i].vm, tr.events[i].key>>
    IN  [duration |-> duration,
         live     |-> live,
         maxEnd   |-> [i \in DOMAIN live |-> Max({end(live[j]) : j \in 1..i})],
         notable  |-> ByTime(tr.events, Where(tr.events, LAMBDA e : e.kind \in NOTABLE), "t"),
         reveals  |-> [k \in {of(i) : i \in said} |->
                         ByTime(tr.events, {i \in said : of(i) = k}, "t")],
         tasks    |-> Tasks(tr),
         diskCap  |-> [vm \in NodeNames(tr) |-> DiskCap(tr, vm)],
         heaviest |-> Max({1} \cup UNION {{Weigh(s.arg), Weigh(s.result)} :
                                            s \in {o \in Range(live) : o.kind = "rpc"}})]

(* lastAtOrBefore(): the bisection of an ascending track. *)
LastAtOrBefore(track, t) == Cardinality({i \in DOMAIN track : track[i].t <= t})

RevealedOf(ix, vm, key, t) ==
    IF <<vm, key>> \notin DOMAIN ix.reveals THEN Nobody
    ELSE LET track == ix.reveals[<<vm, key>>]
             i     == LastAtOrBefore(track, t)
         IN  IF i = 0 THEN Nobody ELSE track[i].value

(* spansAt(): from the last span that has begun, backwards, until nothing     *)
(* from here down can still be open.                                          *)
Drawn(ix, t) ==
    LET begun == {i \in DOMAIN ix.live : ix.live[i].t0 <= t}
        last  == Max({0} \cup begun)
        stop  == {i \in 1..last : ix.maxEnd[i] < t}
    IN  {ix.live[i] : i \in {k \in 1..last :
            k > Max({0} \cup stop) /\ LiveAt(ix.live[k], t)}}

StateOf(tr, vm, t) ==
    IF Channel(tr, vm, "alive", t) = 0 THEN "dead"
    ELSE IF Channel(tr, vm, "frozen", t) > 0 THEN "frozen"
    ELSE IF Channel(tr, vm, "degraded", t) > 1 THEN "degraded"
    ELSE "alive"

-----------------------------------------------------------------------------
(* Where a call's payload is.  A leg is half the network's share of the call, *)
(* never more than half of the call and never less than 12% of it; in         *)
(* fiftieths, so that it is a whole number.                                   *)
Leg(s, end) ==
    LET total == end - s.t0
    IN  Max({Min({25 * s.net, 25 * total}), 6 * total})

(* A call that never arrived dies half-way, or at the callee's door; its mark *)
(* is gone six tenths of a leg later.                                         *)
DiedAt(why) == IF why \in {"lost", "partitioned"} THEN 5 ELSE 10

(* flightOf(): which stage of its journey the call is drawn in. *)
FlightOf(ix, s, t) ==
    LET end == IF s.t1 >= 0 THEN s.t1 ELSE ix.duration
        leg == Leg(s, end)
    IN  IF s.to = Nobody THEN "nothing"
        ELSE IF s.lost # Nobody
             THEN IF 500 * (t - s.t0) > (DiedAt(s.lost) + 6) * leg THEN "nothing"
                  ELSE IF 500 * (t - s.t0) <= DiedAt(s.lost) * leg THEN "out"
                  ELSE "dying"
        ELSE IF 50 * (t - s.t0) <= leg THEN "out"
        ELSE IF 50 * t >= 50 * end - leg THEN "back"
        ELSE "nothing"

(* What it carries: its argument on the way out, its answer on the way back.  *)
Body(s, stage) == IF stage = "back" THEN s.result ELSE s.arg

(* frameAt(): the calls on the wire, and the work on a node, the last begun   *)
(* first.                                                                     *)
Flights(ix, t) ==
    {[id |-> s.id, from |-> s.vm, to |-> s.to, stage |-> FlightOf(ix, s, t),
      items |-> Weigh(Body(s, FlightOf(ix, s, t))), task |-> ix.tasks[s.id],
      failed |-> ~s.ok, lost |-> s.lost # Nobody] :
        s \in {o \in Drawn(ix, t) : o.kind = "rpc" /\ FlightOf(ix, o, t) # "nothing"}}

WorkOf(ix, vm, t) ==
    LET here == SelectSeq(Reverse(ix.live), LAMBDA s :
                    s.kind = "handler" /\ s.vm = vm /\ s \in Drawn(ix, t))
    IN  [k \in DOMAIN here |->
            [method |-> here[k].label,
             task   |-> IF here[k].parent \in DOMAIN ix.tasks THEN ix.tasks[here[k].parent]
                        ELSE -1]]

(* How far along its journey a call is, for one that is drawn again and again *)
(* while the film runs: gone out, at work, coming back, over.                 *)
Journey(ix, s, t) ==
    LET stage == IF s \in Drawn(ix, t) THEN FlightOf(ix, s, t) ELSE "nothing"
    IN  CASE t < s.t0          -> 0
          [] stage = "out"     -> 1
          [] stage = "dying"   -> 2
          [] stage = "back"    -> 4
          [] s.t1 >= 0 /\ t > s.t1 -> 5
          [] OTHER             -> 3
=============================================================================
